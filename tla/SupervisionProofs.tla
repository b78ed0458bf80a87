-------------------------- MODULE SupervisionProofs ---------------------------
(***************************************************************************)
(* What is proved of the parts that start, watch and prepare - the         *)
(* supervisor's starts, the requests the executor remembers, the search    *)
(* for the position, the receiver, the health, the virtual walls and the   *)
(* 3D recording - for any values of their constants.  As in StorageProofs  *)
(* the parts share nothing, and every section has the inductive invariant  *)
(* of its part, the steps that keep it and a theorem.                      *)
(***************************************************************************)
EXTENDS Integers, Sequences, FiniteSets, WellFoundedInduction, TLAPS

CONSTANTS
  Threads, NoThread, ByHand, MayExit, MaxCommands, Requests, Nobody, Memory, PoseCount,
  MaxPatrols, Segments, MaxTotalRotation, MaxAttempts, SuspectSamples, TriggerSamples,
  HealthyRecoverySamples, VerificationSamples, Span, MaxJump, MaxSpeed, StatusTimeout,
  RecoveryGoodSamples, Quality, Plain, Required, Timeout, Routes, Maps, Fits, HardCells,
  CaptureThreads, MaxSessions

VARIABLES
  current, startActive, kind, preexisting, owned, running, lastAck, thread, ros, drive,
  since, given, nodeState, booting, autoStart, remaining, loaded, seen, shown, due,
  patrol, others, searchState, attempt_id, bad, trigger, healthy, segment, unitsLeft,
  rotated, settling, requested, asked, candidate, verified, inbox, takeover, turned,
  steady, gateState, recovery_count, trusted, gap, fixStatus, statusAge, passed, streak,
  quality, amcl, reloc, sampleAge, overall, profile, route, map, global, local, metadata,
  step, mode, drawing, reply, torn, ops, lock, stopping, recordingStatus, capture, halt,
  sessions, begun, latest, build, source, busy, answer

Start == INSTANCE SupervisorStart WITH
  patrol <- drive
Boot == INSTANCE PatrolStartup WITH
  state <- nodeState
Reloc == INSTANCE ActiveRelocalization WITH
  state <- searchState, left <- unitsLeft
Gnss == INSTANCE GnssGate WITH
  state <- gateState, status <- fixStatus, age <- statusAge
Health == INSTANCE NavigationHealth WITH
  age <- sampleAge
Walls == INSTANCE KeepoutWalls WITH
  answer <- reply
Capture == INSTANCE Capture3D WITH
  Threads <- CaptureThreads, status <- recordingStatus

-----------------------------------------------------------------------------
(* Starting a patrol.  An overtaken start has the executor still before it         *)
(* (ThreadInv); what has run since before the transaction is listed as such and   *)
(* owned by nobody (RestOK).                                                      *)

NobodyIsNoThread == NoThread \notin Threads
HandsOnProcesses == ByHand \subseteq Start!Processes

IsThread(x) ==
  /\ x = [command |-> x.command, pc |-> x.pc, left |-> x.left, sent |-> x.sent,
          overtaken |-> x.overtaken]
  /\ x.sent \in Nat /\ x.overtaken \in BOOLEAN

BeforePublishing == Start!BeforeExecutor \union {"executor", "ready", "publish"}

\* An overtaken start is not current and still has the executor before it; a
\* start that has not come to publishing has published nothing, and one that
\* waits for its first answer has published once.
ThreadInv(x, t, who) ==
  /\ IsThread(x)
  /\ x.overtaken => who # t /\ x.pc \in Start!BeforeExecutor
  /\ x.pc \in BeforePublishing => x.sent = 0
  /\ x.pc \in {"ack", "again"} => x.sent = 1
  /\ x.sent <= 2

StartInv ==
  /\ current \in Threads \union {NoThread}
  /\ thread = [t \in Threads |-> thread[t]]
  /\ \A t \in Threads : ThreadInv(thread[t], t, current)

-----------------------------------------------------------------------------
LEMMA PcNames ==
  Start!BeforeExecutor = {"sensors", "localized", "bringup", "camera", "navigation"}
BY DEF Start!BeforeExecutor, Start!Gates

\* What a thread may become in a step that is not its own: it is overtaken.
LEMMA OvertakenKeeps ==
  ASSUME NobodyIsNoThread,
         NEW th, th = [t \in Threads |-> th[t]],
         \A t \in Threads : ThreadInv(th[t], t, current),
         Start!CancelStart(th), current \in Threads \union {NoThread}
  PROVE  StartInv' /\ \A t \in Threads : thread'[t].sent = th[t].sent
<1>1. ASSUME NEW t \in Threads
      PROVE  ThreadInv(thread'[t], t, NoThread) /\ thread'[t].sent = th[t].sent
  <2>1. CASE t = current /\ th[t].pc \in Start!BeforeExecutor
    <3>1. thread'[t] = [th[t] EXCEPT !.overtaken = TRUE]
      BY <2>1 DEF Start!CancelStart, Start!Overtaken
    <3>2. ThreadInv(th[t], t, current)
      BY <2>1
    <3>. QED
      BY <2>1, <3>1, <3>2 DEF ThreadInv, IsThread, NobodyIsNoThread
  <2>2. CASE ~(t = current /\ th[t].pc \in Start!BeforeExecutor)
    <3>1. thread'[t] = th[t]
      BY <2>2 DEF Start!CancelStart, Start!Overtaken
    <3>. QED
      BY <2>2, <3>1 DEF ThreadInv, NobodyIsNoThread
  <2>. QED
    BY <2>1, <2>2
<1>2. current' = NoThread /\ thread' = [t \in Threads |-> thread'[t]]
  BY DEF Start!CancelStart, Start!Overtaken
<1>. QED
  BY <1>1, <1>2 DEF StartInv, NobodyIsNoThread

\* A step of thread t alone, which publishes nothing.
LEMMA OwnStep ==
  ASSUME NobodyIsNoThread, StartInv, NEW t \in Threads,
         thread' = [u \in Threads |-> thread'[u]], UNCHANGED current,
         \A u \in Threads \ {t} : thread'[u] = thread[u],
         ThreadInv(thread'[t], t, current)
  PROVE  StartInv'
BY DEF StartInv

LEMMA Quits ==
  ASSUME NobodyIsNoThread, StartInv, NEW t \in Threads, Start!Ends(t)
  PROVE  StartInv' /\ \A u \in Threads : thread'[u].sent <= thread[u].sent
<1>1. ThreadInv(Start!Idle, t, current) /\ Start!Idle.sent = 0
  BY PcNames DEF Start!Idle, ThreadInv, IsThread, BeforePublishing
<1>2. /\ thread' = [u \in Threads |-> thread'[u]] /\ UNCHANGED current
      /\ \A u \in Threads \ {t} : thread'[u] = thread[u]
      /\ thread'[t] = Start!Idle
  BY DEF Start!Ends, StartInv
<1>3. StartInv'
  BY <1>1, <1>2, OwnStep
<1>4. \A u \in Threads : thread[u].sent \in Nat
  BY DEF StartInv, ThreadInv, IsThread
<1>. QED
  BY <1>1, <1>2, <1>3, <1>4

LEMMA Fails ==
  ASSUME NobodyIsNoThread, StartInv, NEW t \in Threads, Start!Fail(t)
  PROVE  StartInv' /\ \A u \in Threads : thread'[u].sent <= thread[u].sent
<1>1. CASE current # t
  BY <1>1, Quits DEF Start!Fail
<1>2. CASE current = t
  <2>. DEFINE left == Start!InOrder(IF kind = "checkpoint" THEN Start!Components
          ELSE Start!Processes)
              th == [thread EXCEPT ![t].pc = "sweep", ![t].left = left]
  <2>1. Start!CancelStart(th)
    BY <1>2 DEF Start!Fail
  <2>. HIDE DEF left
  <2>2. /\ th = [u \in Threads |-> th[u]]
        /\ \A u \in Threads \ {t} : th[u] = thread[u]
        /\ th[t] = [thread[t] EXCEPT !.pc = "sweep", !.left = left]
    BY DEF StartInv
  <2>. HIDE DEF th
  <2>3. IsThread(thread[t]) /\ ~thread[t].overtaken /\ thread[t].sent <= 2
    BY <1>2 DEF StartInv, ThreadInv
  <2>4. th[t] = [command |-> thread[t].command, pc |-> "sweep", left |-> left,
                 sent |-> thread[t].sent, overtaken |-> thread[t].overtaken]
    BY <2>2, <2>3 DEF IsThread
  <2>8. /\ IsThread(th[t]) /\ th[t].pc = "sweep" /\ ~th[t].overtaken
        /\ th[t].sent = thread[t].sent
    BY <2>3, <2>4 DEF IsThread
  <2>5. ThreadInv(th[t], t, current) /\ th[t].sent = thread[t].sent
    BY <2>3, <2>8, PcNames DEF ThreadInv, BeforePublishing
  <2>6. \A u \in Threads : ThreadInv(th[u], u, current) /\ th[u].sent = thread[u].sent
                            /\ thread[u].sent \in Nat
    <3>1. ASSUME NEW u \in Threads
          PROVE  ThreadInv(thread[u], u, current) /\ thread[u].sent \in Nat
      BY <3>1 DEF StartInv, ThreadInv, IsThread
    <3>2. ASSUME NEW u \in Threads, u # t
          PROVE  ThreadInv(th[u], u, current) /\ th[u].sent = thread[u].sent
      <4>1. th[u] = thread[u]
        BY <2>2, <3>2
      <4>. QED
        BY <3>1, <4>1
    <3>. QED
      BY <2>5, <3>1, <3>2
  <2>7. StartInv' /\ \A u \in Threads : thread'[u].sent = th[u].sent
    BY <2>1, <2>2, <2>6, OvertakenKeeps DEF StartInv
  <2>. QED
    BY <2>6, <2>7
<1>. QED
  BY <1>1, <1>2

\* A thread goes on: not into the transaction's publishing part unless it was
\* there already or is current.
LEMMA GoesOn ==
  ASSUME NobodyIsNoThread, StartInv, NEW t \in Threads, NEW pc, Start!Goes(t, pc),
         pc \in BeforePublishing => thread[t].pc \in BeforePublishing,
         pc \notin Start!BeforeExecutor => ~thread[t].overtaken,
         pc \in {"ack", "again"} => thread[t].pc \in {"ack", "again"}
  PROVE  StartInv' /\ \A u \in Threads : thread'[u].sent <= thread[u].sent
<1>1. /\ thread' = [u \in Threads |-> thread'[u]] /\ UNCHANGED current
      /\ \A u \in Threads \ {t} : thread'[u] = thread[u]
      /\ thread'[t] = [thread[t] EXCEPT !.pc = pc]
  BY DEF Start!Goes, StartInv
<1>2. IsThread(thread[t]) /\ ThreadInv(thread[t], t, current)
  BY DEF StartInv, ThreadInv
<1>3. ThreadInv(thread'[t], t, current)
  BY <1>1, <1>2 DEF ThreadInv, IsThread
<1>4. thread'[t].sent = thread[t].sent /\ \A u \in Threads : thread[u].sent \in Nat
  BY <1>1, <1>2 DEF StartInv, ThreadInv, IsThread
<1>5. StartInv'
  BY <1>1, <1>3, OwnStep
<1>6. \A u \in Threads \ {t} : thread'[u].sent = thread[u].sent
  BY <1>1
<1>. QED
  BY <1>4, <1>5, <1>6

\* The one kind of step that publishes.
LEMMA Publishes ==
  ASSUME NobodyIsNoThread, StartInv, NEW t \in Threads, UNCHANGED current,
         thread' = [u \in Threads |-> thread'[u]],
         \A u \in Threads \ {t} : thread'[u] = thread[u],
         IsThread(thread'[t]), thread'[t].pc \notin BeforePublishing, ~thread'[t].overtaken,
         thread'[t].sent <= 2, thread'[t].pc \in {"ack", "again"} => thread'[t].sent = 1
  PROVE  StartInv'
<1>1. ThreadInv(thread'[t], t, current)
  BY DEF ThreadInv
<1>. QED
  BY <1>1, OwnStep

LEMMA PublishesAs ==
  ASSUME NobodyIsNoThread, StartInv, NEW t \in Threads, ~thread[t].overtaken,
         NEW pc \in {"ack", "ack2"}, Start!Publish(t, pc), UNCHANGED current,
         pc = "ack" => thread[t].sent = 0, pc = "ack2" => thread[t].sent = 1
  PROVE  StartInv' /\ \A u \in Threads \ {t} : thread'[u] = thread[u]
<1>1. IsThread(thread[t])
  BY DEF StartInv, ThreadInv
<1>2. thread' = [u \in Threads |-> thread'[u]]
        /\ \A u \in Threads \ {t} : thread'[u] = thread[u]
  BY DEF Start!Publish, StartInv
<1>3. thread'[t] = [command |-> thread[t].command, pc |-> pc, left |-> thread[t].left,
                    sent |-> thread[t].sent + 1, overtaken |-> thread[t].overtaken]
  BY <1>1 DEF Start!Publish, StartInv, IsThread
<1>4. /\ IsThread(thread'[t]) /\ thread'[t].pc = pc
      /\ thread'[t].overtaken = thread[t].overtaken
  BY <1>1, <1>3 DEF IsThread
<1>5. pc \notin BeforePublishing /\ ~thread'[t].overtaken
  BY <1>1, <1>4, PcNames DEF BeforePublishing, IsThread
<1>6. thread'[t].sent <= 2 /\ (pc \in {"ack", "again"} => thread'[t].sent = 1)
  BY <1>3
<1>. QED
  BY <1>2, <1>4, <1>5, <1>6, Publishes

-----------------------------------------------------------------------------
(* The steps.                                                              *)

Dropped ==
  \A t \in Threads :
    thread'[t].sent > thread[t].sent
      => ~thread[t].overtaken /\ (thread[t].sent > 0 => current = t)

Silent == StartInv' /\ \A t \in Threads : thread'[t].sent <= thread[t].sent

LEMMA NothingPublished ==
  ASSUME StartInv, Silent PROVE StartInv' /\ Dropped
<1>1. \A t \in Threads : thread[t].sent \in Nat /\ thread'[t].sent \in Nat
  BY DEF StartInv, ThreadInv, IsThread, Silent
<1>. QED
  BY <1>1 DEF Dropped, Silent

\* The threads as a step has them before it overtakes a start.
Prepared(th) ==
  /\ th = [t \in Threads |-> th[t]]
  /\ \A t \in Threads : ThreadInv(th[t], t, current) /\ th[t].sent <= thread[t].sent

LEMMA ThreadsFit == ASSUME StartInv PROVE Prepared(thread)
BY DEF StartInv, ThreadInv, IsThread, Prepared

LEMMA Overtakes ==
  ASSUME NobodyIsNoThread, StartInv, NEW th, Prepared(th), Start!CancelStart(th)
  PROVE  Silent
<1>1. StartInv' /\ \A t \in Threads : thread'[t].sent = th[t].sent
  BY OvertakenKeeps DEF Prepared, StartInv
<1>. QED
  BY <1>1 DEF Prepared, Silent

LEMMA TakesDown ==
  ASSUME NobodyIsNoThread, StartInv, NEW th, Prepared(th), NEW name, Start!StopNext(name, th)
  PROVE  Silent
<1>1. CASE thread' = th /\ UNCHANGED current
  BY <1>1 DEF Silent, Prepared, StartInv
<1>2. CASE Start!CancelStart(th)
  BY <1>2, Overtakes
<1>. QED
  BY <1>1, <1>2 DEF Start!StopNext

LEMMA Begun ==
  ASSUME NobodyIsNoThread, StartInv, NEW t \in Threads, Start!StartPatrol(t)
  PROVE  Silent
<1>1. PICK c \in Start!Starts :
        thread' = [Start!Overtaken(thread) EXCEPT ![t] =
                     [Start!Idle EXCEPT !.command = c, !.pc = "bringup"]]
  BY DEF Start!StartPatrol, Start!Begins
<1>2. current' = t
  BY DEF Start!StartPatrol, Start!Begins
<1>3. /\ thread' = [u \in Threads |-> thread'[u]]
      /\ thread'[t] = [command |-> c, pc |-> "bringup", left |-> <<>>, sent |-> 0,
                       overtaken |-> FALSE]
      /\ \A u \in Threads \ {t} :
           thread'[u] = IF u = current /\ thread[u].pc \in Start!BeforeExecutor
                        THEN [thread[u] EXCEPT !.overtaken = TRUE] ELSE thread[u]
  BY <1>1 DEF Start!Overtaken, Start!Idle
<1>4. ThreadInv(thread'[t], t, t) /\ thread'[t].sent = 0
  BY <1>3 DEF ThreadInv, IsThread
<1>5. ASSUME NEW u \in Threads \ {t}
      PROVE  ThreadInv(thread'[u], u, t) /\ thread'[u].sent = thread[u].sent
  <2>1. ThreadInv(thread[u], u, current)
    BY DEF StartInv
  <2>. QED
    BY <1>3, <2>1 DEF ThreadInv, IsThread
<1>6. \A u \in Threads : thread[u].sent \in Nat
  BY DEF StartInv, ThreadInv, IsThread
<1>7. StartInv'
  BY <1>2, <1>3, <1>4, <1>5 DEF StartInv
<1>. QED
  BY <1>4, <1>5, <1>6, <1>7 DEF Silent

LEMMA StopsMode ==
  ASSUME NobodyIsNoThread, StartInv, NEW t \in Threads, Start!StopPatrolMode(t)
  PROVE  Silent
<1>. DEFINE th == [thread EXCEPT ![t] =
                     [Start!Idle EXCEPT !.command = "stop_patrol_mode", !.pc = "sweep",
                                        !.left = Start!ShutdownOrder]]
<1>1. /\ th = [u \in Threads |-> th[u]]
      /\ \A u \in Threads \ {t} : th[u] = thread[u]
      /\ th[t] = [command |-> "stop_patrol_mode", pc |-> "sweep", left |-> Start!ShutdownOrder,
                  sent |-> 0, overtaken |-> FALSE]
  BY DEF Start!Idle, StartInv
<1>. HIDE DEF th
<1>2. IsThread(th[t]) /\ th[t].sent = 0 /\ ~th[t].overtaken /\ th[t].pc = "sweep"
  <2>1. ASSUME NEW left,
               th[t] = [command |-> "stop_patrol_mode", pc |-> "sweep", left |-> left,
                        sent |-> 0, overtaken |-> FALSE]
        PROVE  IsThread(th[t]) /\ th[t].sent = 0 /\ ~th[t].overtaken /\ th[t].pc = "sweep"
    BY <2>1 DEF IsThread
  <2>. QED
    BY <1>1, <2>1
<1>3. ThreadInv(th[t], t, current) /\ th[t].sent = 0
  BY <1>2 DEF ThreadInv
<1>4. \A u \in Threads : thread[u].sent \in Nat
  BY DEF StartInv, ThreadInv, IsThread
<1>5. Start!CancelStart(th)
  BY DEF Start!StopPatrolMode, th
<1>6. Prepared(th)
  BY <1>1, <1>3, <1>4 DEF Prepared, StartInv
<1>. QED
  BY <1>5, <1>6, Overtakes

LEMMA Sweeps ==
  ASSUME NobodyIsNoThread, StartInv, NEW t \in Threads, Start!Sweep(t)
  PROVE  Silent
<1>. DEFINE rest == Tail(thread[t].left)
            th == [thread EXCEPT ![t].left = rest]
<1>1. Start!StopNext(Head(thread[t].left), th)
  BY DEF Start!Sweep
<1>. HIDE DEF rest
<1>2. /\ th = [u \in Threads |-> th[u]]
      /\ \A u \in Threads \ {t} : th[u] = thread[u]
      /\ th[t] = [thread[t] EXCEPT !.left = rest]
  BY DEF StartInv
<1>. HIDE DEF th
<1>3. ThreadInv(thread[t], t, current)
  BY DEF StartInv
<1>4. ThreadInv(th[t], t, current) /\ th[t].sent = thread[t].sent
  BY <1>2, <1>3 DEF ThreadInv, IsThread
<1>5. Prepared(th)
  BY <1>2, <1>4 DEF Prepared, StartInv, ThreadInv, IsThread
<1>. QED
  BY <1>1, <1>5, TakesDown

LEMMA TransactionSteps ==
  ASSUME NobodyIsNoThread, StartInv, NEW t \in Threads, Start!Transaction(t)
  PROVE  StartInv' /\ Dropped
<1>1. ThreadInv(thread[t], t, current)
  BY DEF StartInv
<1>2. CASE Start!StartComponent(t)
  <2>1. thread[t].pc \in {"bringup", "camera", "navigation"}
    BY <1>2 DEF Start!StartComponent
  <2>2. Start!Fail(t) \/ \E pc \in Start!BeforeExecutor : Start!Goes(t, pc)
    BY <1>2, <2>1, PcNames DEF Start!StartComponent
  <2>3. Silent
    BY <2>1, <2>2, Fails, GoesOn, PcNames DEF Silent, BeforePublishing
  <2>. QED
    BY <2>3, NothingPublished
<1>3. CASE Start!Gate(t)
  <2>1. thread[t].pc \in {"sensors", "localized"}
    BY <1>3 DEF Start!Gate, Start!Gates
  <2>2. \/ Start!Ends(t) \/ Start!Fail(t)
        \/ current = t /\ (Start!Goes(t, "camera") \/ Start!Goes(t, "executor"))
    BY <1>3, <2>1 DEF Start!Gate, Start!AfterGate
  <2>3. Silent
    BY <1>1, <2>1, <2>2, Quits, Fails, GoesOn, PcNames DEF Silent, BeforePublishing,
       ThreadInv
  <2>. QED
    BY <2>3, NothingPublished
<1>4. CASE Start!StartExecutor(t) \/ Start!ExecutorReady(t)
  <2>1. /\ thread[t].pc \in {"executor", "ready"}
        /\ Start!Fail(t) \/ Start!Goes(t, "ready") \/ Start!Goes(t, "publish")
    BY <1>4 DEF Start!StartExecutor, Start!ExecutorReady
  <2>2. ~thread[t].overtaken
    BY <1>1, <2>1, PcNames DEF ThreadInv
  <2>3. Silent
    BY <2>1, <2>2, Fails, GoesOn, PcNames DEF Silent, BeforePublishing
  <2>. QED
    BY <2>3, NothingPublished
<1>5. CASE Start!WaitForAck(t)
  <2>1. /\ thread[t].pc \in {"ack", "ack2"}
        /\ Start!Fail(t) \/ Start!Goes(t, "own") \/ (thread[t].pc = "ack"
             /\ Start!Goes(t, "again"))
    BY <1>5 DEF Start!WaitForAck
  <2>2. ~thread[t].overtaken
    BY <1>1, <2>1, PcNames DEF ThreadInv
  <2>3. Silent
    BY <2>1, <2>2, Fails, GoesOn, PcNames DEF Silent, BeforePublishing
  <2>. QED
    BY <2>3, NothingPublished
<1>6. CASE Start!PublishStart(t)
  <2>1. thread[t].pc = "publish" /\ ~thread[t].overtaken /\ thread[t].sent = 0
    BY <1>1, <1>6, PcNames DEF Start!PublishStart, ThreadInv, BeforePublishing
  <2>2. StartInv' /\ \A u \in Threads \ {t} : thread'[u] = thread[u]
    BY <1>6, <2>1, PublishesAs DEF Start!PublishStart
  <2>. QED
    BY <2>1, <2>2 DEF Dropped, StartInv, ThreadInv, IsThread
<1>7. CASE Start!PublishAgain(t)
  <2>1. thread[t].pc = "again" /\ ~thread[t].overtaken /\ thread[t].sent = 1
    BY <1>1, <1>7, PcNames DEF Start!PublishAgain, ThreadInv
  <2>2. CASE current = t
    <3>1. StartInv' /\ \A u \in Threads \ {t} : thread'[u] = thread[u]
      BY <1>7, <2>1, <2>2, PublishesAs DEF Start!PublishAgain
    <3>. QED
      BY <2>1, <2>2, <3>1 DEF Dropped, StartInv, ThreadInv, IsThread
  <2>3. CASE current # t
    <3>1. Start!Goes(t, "ack2")
      BY <1>7, <2>3 DEF Start!PublishAgain, Start!Goes
    <3>2. Silent
      BY <2>1, <3>1, GoesOn, PcNames DEF Silent, BeforePublishing
    <3>. QED
      BY <3>2, NothingPublished
  <2>. QED
    BY <2>2, <2>3
<1>8. CASE Start!Own(t) \/ Start!Swept(t)
  BY <1>8, Quits, NothingPublished DEF Start!Own, Start!Swept, Silent
<1>9. CASE Start!Sweep(t)
  BY <1>9, Sweeps, NothingPublished
<1>. QED
  BY <1>2, <1>3, <1>4, <1>5, <1>6, <1>7, <1>8, <1>9 DEF Start!Transaction

LEMMA StepDrops ==
  ASSUME NobodyIsNoThread, StartInv, [Start!Next]_Start!vars
  PROVE  StartInv' /\ Dropped
<1>1. ASSUME NEW t \in Threads, Start!StartPatrol(t) PROVE Silent
  BY <1>1, Begun
<1>2. ASSUME NEW t \in Threads, Start!CancelPatrol(t) \/ Start!EmergencyStop(t) PROVE Silent
  BY <1>2, ThreadsFit, Overtakes DEF Start!CancelPatrol, Start!EmergencyStop
<1>3. ASSUME NEW t \in Threads, Start!StopPatrolMode(t) PROVE Silent
  BY <1>3, StopsMode
<1>4. ASSUME NEW name, Start!StopByHand(name) PROVE Silent
  BY <1>4, ThreadsFit, TakesDown DEF Start!StopByHand
<1>5. ASSUME Start!StatusSweep PROVE Silent
  BY <1>5, ThreadsFit, TakesDown DEF Start!StatusSweep
<1>6. ASSUME UNCHANGED <<current, thread>> PROVE Silent
  BY <1>6, ThreadsFit DEF Silent, Prepared, StartInv
<1>7. ASSUME NEW name, Start!StartByHand(name) \/ Start!Exits(name) PROVE Silent
  BY <1>6, <1>7 DEF Start!StartByHand, Start!Exits
<1>8. ASSUME Start!PatrolStatus \/ Start!StatusSwept \/ Start!PatrolEnds \/ UNCHANGED Start!vars
    PROVE Silent
  BY <1>6, <1>8 DEF Start!PatrolStatus, Start!StatusSwept, Start!PatrolEnds, Start!vars
<1>. QED
  BY <1>1, <1>2, <1>3, <1>4, <1>5, <1>7, <1>8, NothingPublished,
     TransactionSteps DEF Start!Next

LEMMA StartBegins == Start!Init => StartInv
<1>. SUFFICES ASSUME Start!Init PROVE StartInv
  OBVIOUS
<1>1. \A t \in Threads : thread[t] = Start!Idle
  BY DEF Start!Init
<1>2. /\ ThreadInv(Start!Idle, NoThread, NoThread)
      /\ \A t \in Threads : ThreadInv(Start!Idle, t, current)
  BY PcNames DEF Start!Idle, ThreadInv, IsThread, BeforePublishing
<1>. QED
  BY <1>1, <1>2 DEF Start!Init, StartInv

\* The rest of the types; and what has been running since before the transaction
\* is known as such, and not owned by it.
RestOK ==
  /\ startActive \in BOOLEAN /\ kind \in {"none", "route", "checkpoint"}
  /\ preexisting \subseteq Start!Processes /\ owned \subseteq Start!Processes
  /\ running \subseteq Start!Processes /\ since \subseteq running
  /\ lastAck \in Threads \union {NoThread} /\ drive \in {"idle", "running", "ended"}
  /\ since \subseteq preexisting /\ since \cap owned = {}

LEMMA InOrderNamed ==
  ASSUME NEW names PROVE Start!InOrder(names) \in Seq(names)
<1>1. ASSUME NEW i \in 1 .. 4 PROVE Start!Only(i, names) \in Seq(names)
  BY DEF Start!Only
<1>2. \A s, u \in Seq(names) : s \o u \in Seq(names)
  OBVIOUS
<1>. HIDE DEF Start!Only
<1>3. /\ Start!Only(1, names) \in Seq(names) /\ Start!Only(2, names) \in Seq(names)
      /\ Start!Only(3, names) \in Seq(names) /\ Start!Only(4, names) \in Seq(names)
  BY <1>1
<1>. QED
  BY <1>2, <1>3 DEF Start!InOrder

LEMMA OutOfOrder ==
  ASSUME NEW names, NEW name, Start!Contains(Start!InOrder(names), name)
  PROVE  name \in names
BY InOrderNamed DEF Start!Contains

\* The two ways a step ends or cancels a start, as far as the flag goes.
FlagKept ==
  \/ UNCHANGED startActive
  \/ startActive' = FALSE
  \/ \E t \in Threads : startActive' = (startActive /\ current # t)

LEMMA FlagType == ASSUME startActive \in BOOLEAN, FlagKept PROVE startActive' \in BOOLEAN
<1>1. CASE UNCHANGED startActive
  BY <1>1, Zenon
<1>2. CASE startActive' = FALSE
  BY <1>2, Zenon
<1>3. CASE \E t \in Threads : startActive' = (startActive /\ current # t)
  <2>1. PICK t \in Threads : startActive' = (startActive /\ current # t)
    BY <1>3, Zenon
  <2>2. (startActive /\ current # t) = TRUE \/ (startActive /\ current # t) = FALSE
    BY Zenon
  <2>. QED
    BY <2>1, <2>2, Zenon
<1>. QED
  BY <1>1, <1>2, <1>3, Zenon DEF FlagKept

LEMMA FailFlag == ASSUME NEW t \in Threads, Start!Fail(t) PROVE FlagKept
<1>1. CASE current # t
  BY <1>1, Zenon DEF Start!Fail, Start!Ends, FlagKept
<1>2. CASE current = t
  BY <1>2, Zenon DEF Start!Fail, Start!CancelStart, FlagKept
<1>. QED
  BY <1>1, <1>2

\* What a step does to the components that run.
Runs ==
  \/ UNCHANGED <<running, since, drive>>
  \/ /\ UNCHANGED since /\ drive' \in {"idle", "running", "ended"}
     /\ UNCHANGED running \/ \E name \in Start!Processes : Start!Start(name)
  \/ \E names : Start!Stop(names)

LEMMA RunsKeep ==
  ASSUME RestOK, Runs
  PROVE  /\ running' \subseteq Start!Processes /\ since' \subseteq running'
         /\ since' \subseteq since /\ drive' \in {"idle", "running", "ended"}
BY DEF RestOK, Runs, Start!Start, Start!Stop

\* A step within a transaction that leaves what it lists alone.
LEMMA ListedStays ==
  ASSUME RestOK, Runs, FlagKept, UNCHANGED <<kind, preexisting>>,
         UNCHANGED owned \/ owned' = {}, lastAck' \in Threads \union {NoThread}
  PROVE  RestOK'
<1>1. startActive' \in BOOLEAN
  BY FlagType DEF RestOK
<1>. QED
  BY <1>1, RunsKeep DEF RestOK

LEMMA TransactionRest ==
  ASSUME RestOK, NEW t \in Threads, Start!Transaction(t)
  PROVE  RestOK'
<1>0. lastAck \in Threads \union {NoThread} /\ drive \in {"idle", "running", "ended"}
  BY DEF RestOK
<1>1. CASE Start!StartComponent(t)
  <2>1. /\ UNCHANGED <<kind, preexisting, owned, lastAck, drive, since>>
        /\ thread[t].pc \in {"bringup", "camera", "navigation"}
        /\ Start!Start(thread[t].pc) \/ UNCHANGED running
        /\ Start!Fail(t) \/ UNCHANGED startActive
    BY <1>1 DEF Start!StartComponent, Start!transactionUnchanged, Start!commandUnchanged,
       Start!Goes
  <2>2. Runs
    BY <1>0, <2>1 DEF Runs, Start!Processes
  <2>3. FlagKept
    BY <2>1, FailFlag DEF FlagKept
  <2>. QED
    BY <1>0, <2>1, <2>2, <2>3, ListedStays
<1>2. CASE Start!Gate(t) \/ Start!ExecutorReady(t) \/ Start!WaitForAck(t)
  <2>1. /\ UNCHANGED <<kind, preexisting, owned, lastAck, drive, running, since>>
        /\ Start!Fail(t) \/ UNCHANGED startActive \/ Start!Ends(t)
    BY <1>2 DEF Start!Gate, Start!ExecutorReady, Start!WaitForAck,
       Start!transactionUnchanged, Start!commandUnchanged, Start!Goes
  <2>2. Runs
    BY <2>1 DEF Runs
  <2>3. FlagKept
    BY <2>1, FailFlag, Zenon DEF FlagKept, Start!Ends
  <2>. QED
    BY <1>0, <2>1, <2>2, <2>3, ListedStays
<1>3. CASE Start!StartExecutor(t)
  <2>1. /\ UNCHANGED <<kind, preexisting, owned, lastAck, drive, since>>
        /\ Start!Start("patrol_executor") \/ UNCHANGED running
        /\ Start!Fail(t) \/ UNCHANGED startActive
    BY <1>3 DEF Start!StartExecutor, Start!transactionUnchanged, Start!commandUnchanged,
       Start!Goes
  <2>2. Runs
    BY <1>0, <2>1 DEF Runs, Start!Processes
  <2>3. FlagKept
    BY <2>1, FailFlag DEF FlagKept
  <2>. QED
    BY <1>0, <2>1, <2>2, <2>3, ListedStays
<1>4. CASE Start!PublishStart(t) \/ Start!PublishAgain(t)
  <2>1. /\ UNCHANGED <<kind, preexisting, owned, running, since, startActive>>
        /\ drive' \in {drive, "running"} /\ lastAck' \in {lastAck, t}
    BY <1>4 DEF Start!PublishStart, Start!PublishAgain, Start!Publish
  <2>2. Runs /\ FlagKept
    BY <1>0, <2>1 DEF Runs, FlagKept
  <2>. QED
    BY <1>0, <2>1, <2>2, ListedStays
<1>5. CASE Start!Own(t)
  <2>1. /\ UNCHANGED <<kind, preexisting, lastAck, running, drive, since>>
        /\ owned' = running \ preexisting
    BY <1>5 DEF Start!Own
  <2>2. FlagKept
    BY <1>5, Zenon DEF Start!Own, Start!Ends, FlagKept
  <2>3. startActive' \in BOOLEAN
    BY <2>2, FlagType DEF RestOK
  <2>. QED
    BY <2>1, <2>3 DEF RestOK
<1>6. CASE Start!Swept(t)
  <2>1. /\ UNCHANGED <<kind, preexisting, lastAck, running, drive, since>>
        /\ owned' = {} \/ UNCHANGED owned
    BY <1>6 DEF Start!Swept
  <2>2. FlagKept
    BY <1>6, Zenon DEF Start!Swept, Start!Ends, FlagKept
  <2>3. Runs
    BY <2>1 DEF Runs
  <2>. QED
    BY <1>0, <2>1, <2>2, <2>3, ListedStays
<1>7. CASE Start!Sweep(t)
  <2>1. /\ UNCHANGED <<kind, preexisting, owned, lastAck>>
        /\ Start!Stop({Head(thread[t].left)})
        /\ UNCHANGED startActive \/ startActive' = FALSE
    BY <1>7 DEF Start!Sweep, Start!StopNext, Start!CancelStart, Start!transactionUnchanged,
       Start!commandUnchanged
  <2>2. Runs /\ FlagKept
    BY <2>1 DEF Runs, FlagKept
  <2>. QED
    BY <1>0, <2>1, <2>2, ListedStays
<1>. QED
  BY <1>1, <1>2, <1>3, <1>4, <1>5, <1>6, <1>7 DEF Start!Transaction

LEMMA CommandRest ==
  ASSUME NobodyIsNoThread, HandsOnProcesses, RestOK,
         \/ \E t \in Threads : \/ Start!StartPatrol(t) \/ Start!CancelPatrol(t) \/
                                  Start!EmergencyStop(t)
                               \/ Start!StopPatrolMode(t)
         \/ \E name \in ByHand : Start!StartByHand(name) \/ Start!StopByHand(name)
  PROVE  RestOK'
<1>0. lastAck \in Threads \union {NoThread} /\ drive \in {"idle", "running", "ended"}
  BY DEF RestOK
<1>1. ASSUME NEW t \in Threads, Start!StartPatrol(t) PROVE RestOK'
  <2>1. /\ startActive' = TRUE /\ kind' \in {"checkpoint", "route"}
        /\ preexisting' = running /\ since' = running /\ owned' = {}
        /\ lastAck' = NoThread /\ UNCHANGED <<running, drive>>
    BY <1>1 DEF Start!StartPatrol, Start!Begins
  <2>. QED
    BY <2>1 DEF RestOK
<1>2. ASSUME NEW t \in Threads, Start!CancelPatrol(t) \/ Start!EmergencyStop(t) \/
      Start!StopPatrolMode(t)
      PROVE  RestOK'
  <2>1. /\ UNCHANGED <<kind, preexisting, owned, lastAck, running, since>>
        /\ startActive' = FALSE /\ drive' \in {drive, "ended"}
    BY <1>2 DEF Start!CancelPatrol, Start!EmergencyStop, Start!StopPatrolMode,
       Start!CancelStart, Start!commandUnchanged
  <2>2. Runs /\ FlagKept
    BY <1>0, <2>1 DEF Runs, FlagKept
  <2>. QED
    BY <1>0, <2>1, <2>2, ListedStays
<1>3. ASSUME NEW name \in ByHand, Start!StartByHand(name) PROVE RestOK'
  <2>1. /\ UNCHANGED <<kind, preexisting, owned, lastAck, since, drive, startActive>>
        /\ Start!Start(name) /\ name \in Start!Processes
    BY <1>3 DEF Start!StartByHand, Start!commandUnchanged, HandsOnProcesses
  <2>2. Runs /\ FlagKept
    BY <1>0, <2>1 DEF Runs, FlagKept
  <2>. QED
    BY <1>0, <2>1, <2>2, ListedStays
<1>4. ASSUME NEW name \in ByHand, Start!StopByHand(name) PROVE RestOK'
  <2>1. /\ UNCHANGED <<kind, preexisting, owned, lastAck>> /\ Start!Stop({name})
        /\ UNCHANGED startActive \/ startActive' = FALSE
    BY <1>4 DEF Start!StopByHand, Start!StopNext, Start!CancelStart, Start!commandUnchanged
  <2>2. Runs /\ FlagKept
    BY <2>1 DEF Runs, FlagKept
  <2>. QED
    BY <1>0, <2>1, <2>2, ListedStays
<1>. QED
  BY <1>1, <1>2, <1>3, <1>4

LEMMA OutsideRest ==
  ASSUME NobodyIsNoThread, RestOK,
         \/ \E name \in MayExit : Start!Exits(name)
         \/ Start!PatrolStatus \/ Start!StatusSweep \/ Start!StatusSwept \/
            Start!PatrolEnds \/ UNCHANGED Start!vars
  PROVE  RestOK'
<1>0. lastAck \in Threads \union {NoThread} /\ drive \in {"idle", "running", "ended"}
  BY DEF RestOK
<1>1. ASSUME NEW name, Start!Exits(name) PROVE RestOK'
  <2>1. UNCHANGED <<kind, preexisting, owned, lastAck, startActive>> /\ Start!Stop({name})
    BY <1>1 DEF Start!Exits, Start!commandUnchanged
  <2>2. Runs /\ FlagKept
    BY <2>1 DEF Runs, FlagKept
  <2>. QED
    BY <1>0, <2>1, <2>2, ListedStays
<1>2. CASE Start!PatrolStatus \/ UNCHANGED Start!vars
  <2>1. UNCHANGED <<kind, preexisting, owned, lastAck, startActive, running, since, drive>>
    BY <1>2 DEF Start!PatrolStatus, Start!vars
  <2>2. Runs /\ FlagKept
    BY <2>1 DEF Runs, FlagKept
  <2>. QED
    BY <1>0, <2>1, <2>2, ListedStays
<1>3. CASE Start!StatusSweep
  <2>1. /\ UNCHANGED <<kind, preexisting, owned, lastAck>> /\ Start!Stop({Head(ros.left)})
        /\ UNCHANGED startActive \/ startActive' = FALSE
    BY <1>3 DEF Start!StatusSweep, Start!StopNext, Start!CancelStart
  <2>2. Runs /\ FlagKept
    BY <2>1 DEF Runs, FlagKept
  <2>. QED
    BY <1>0, <2>1, <2>2, ListedStays
<1>4. CASE Start!StatusSwept
  <2>1. /\ owned' = {} /\ kind' = "none"
        /\ UNCHANGED <<preexisting, lastAck, startActive, running, since, drive>>
    BY <1>4 DEF Start!StatusSwept
  <2>. QED
    BY <2>1 DEF RestOK
<1>5. CASE Start!PatrolEnds
  <2>1. /\ UNCHANGED <<kind, preexisting, owned, lastAck, startActive, running, since>>
        /\ drive' \in {"idle", "ended"}
    BY <1>5 DEF Start!PatrolEnds, Start!transactionUnchanged, Start!commandUnchanged
  <2>2. Runs /\ FlagKept
    BY <1>0, <2>1 DEF Runs, FlagKept
  <2>. QED
    BY <1>0, <2>1, <2>2, ListedStays
<1>. QED
  BY <1>1, <1>2, <1>3, <1>4, <1>5

LEMMA SweepsWhatItStarted ==
  ASSUME RestOK, [Start!Next]_Start!vars PROVE Start!KeepsWhatWasThereStep
<1>1. ASSUME Start!PatrolStatus, NEW name \in since, ~ros.sweeping, ros'.sweeping,
             Start!Contains(ros'.left, name)
      PROVE  FALSE
  <2>1. ros' = [sweeping |-> TRUE, left |-> Start!InOrder(Start!Components)]
    BY <1>1 DEF Start!PatrolStatus
  <2>2. name \in Start!Components
    BY <1>1, <2>1, OutOfOrder
  <2>. QED
    BY <2>2 DEF Start!Components, RestOK
<1>2. ASSUME ~Start!PatrolStatus, ~ros.sweeping PROVE UNCHANGED ros
  BY <1>2
  DEF Start!Next, Start!Transaction, Start!StartPatrol, Start!Begins, Start!CancelPatrol,
     Start!EmergencyStop, Start!StopPatrolMode,
      Start!StartComponent, Start!Gate, Start!StartExecutor, Start!ExecutorReady,
         Start!PublishStart, Start!WaitForAck,
      Start!PublishAgain, Start!Own, Start!Sweep, Start!Swept, Start!StartByHand,
         Start!StopByHand, Start!Exits, Start!StatusSweep,
      Start!StatusSwept, Start!PatrolEnds, Start!vars, Start!transactionUnchanged,
         Start!commandUnchanged
<1>. QED
  BY <1>1, <1>2 DEF Start!KeepsWhatWasThereStep

LEMMA StartStep ==
  ASSUME NobodyIsNoThread, HandsOnProcesses, StartInv, RestOK, [Start!Next]_Start!vars
  PROVE  /\ StartInv' /\ RestOK' /\ [Start!CanceledStartIsDroppedStep]_Start!vars
         /\ Start!KeepsWhatWasThereStep
<1>1. StartInv' /\ Dropped
  BY StepDrops
<1>2. RestOK'
  BY TransactionRest, CommandRest, OutsideRest DEF Start!Next
<1>3. Start!KeepsWhatWasThereStep
  BY SweepsWhatItStarted
<1>. QED
  BY <1>1, <1>2, <1>3 DEF Dropped, Start!CanceledStartIsDroppedStep

LEMMA StartTypes == ASSUME StartInv, RestOK PROVE Start!TypeOK
<1>1. \A t \in Threads : thread[t].sent \in 0..2
  BY DEF StartInv, ThreadInv, IsThread
<1>. QED
  BY <1>1 DEF StartInv, RestOK, Start!TypeOK

\* A start that is cancelled, stopped or superseded before it sets out to start the
\* executor never publishes its command, and one overtaken later publishes at most the
\* command it was about to publish (_start_patrol_transaction, cancel_patrol_start),
\* for any number of command threads, commands and exits.
THEOREM OvertakenStartsAreDropped ==
  ASSUME NobodyIsNoThread
  PROVE  Start!Spec => Start!CanceledStartIsDropped
<1>1. StartInv /\ [Start!Next]_Start!vars => StartInv'
  BY StepDrops
<1>2. StartInv /\ [Start!Next]_Start!vars => [Start!CanceledStartIsDroppedStep]_Start!vars
  BY StepDrops DEF Dropped, Start!CanceledStartIsDroppedStep
<1>. QED
  BY <1>1, <1>2, StartBegins, PTL DEF Start!Spec, Start!CanceledStartIsDropped

\* What takes a transaction down when its patrol ends never reaches a component that
\* has been running since before the transaction began (patrol_status_callback,
\* cleanup_checkpoint_transaction), however commands, exits and starts by hand come in
\* between.
THEOREM StartsKeepWhatWasThere ==
  ASSUME NobodyIsNoThread, HandsOnProcesses
  PROVE  Start!Spec => []Start!TypeOK /\ Start!KeepsWhatWasThere
<1>1. Start!Init => StartInv /\ RestOK
  <2>1. Start!Init => RestOK
    BY DEF Start!Init, RestOK
  <2>. QED
    BY <2>1, StartBegins
<1>2. StartInv /\ RestOK /\ [Start!Next]_Start!vars => (StartInv /\ RestOK)'
        /\ [Start!KeepsWhatWasThereStep]_Start!vars
  BY StartStep
<1>3. StartInv /\ RestOK => Start!TypeOK
  BY StartTypes
<1>. QED
  BY <1>1, <1>2, <1>3, PTL DEF Start!Spec, Start!KeepsWhatWasThere

-----------------------------------------------------------------------------
(* Requests.  What is remembered has as many requests after it as stand behind it, *)
(* what is not has Memory of them (SeenInv).                                      *)

\* A series of initial poses has one at least, and nobody is no request.
BootAssumptions ==
  Memory \in Nat /\ PoseCount \in Nat \ {0} /\ MaxPatrols \in Nat /\ Nobody \notin Requests

\* A request that is not remembered has not been for Memory others, and one that is
\* has as many remembered after it as stand behind it.
SeenInv ==
  /\ \A r \in Requests : ~ Boot!Known(r) => others[r] = Memory
  /\ \A i \in 1 .. Len(seen) : others[seen[i]] = Len(seen) - i

BootInv == Boot!TypeOK /\ SeenInv

-----------------------------------------------------------------------------
\* Whoever starts it, a patrol is one more or the same.
Starting(by) ==
  \/ UNCHANGED patrol
  \/ patrol.n < MaxPatrols /\ patrol' = [n |-> patrol.n + 1, by |-> by]

LEMMA StartsOne ==
  ASSUME BootAssumptions, BootInv, NEW by \in Requests \cup {Nobody}, Starting(by)
  PROVE  /\ patrol' \in [n : 0 .. MaxPatrols, by : Requests \cup {Nobody}]
         /\ patrol' # patrol => patrol'.by = by
<1>1. patrol \in [n : 0 .. MaxPatrols, by : Requests \cup {Nobody}] /\ MaxPatrols \in Nat
  BY DEF BootAssumptions, BootInv, Boot!TypeOK
<1>2. CASE UNCHANGED patrol
  BY <1>1, <1>2
<1>3. CASE patrol.n < MaxPatrols /\ patrol' = [n |-> patrol.n + 1, by |-> by]
  <2>1. patrol.n \in 0 .. MaxPatrols
    BY <1>1
  <2>2. patrol.n + 1 \in 0 .. MaxPatrols
    BY <1>1, <1>3, <2>1
  <2>. QED
    BY <1>3, <2>2
<1>. QED
  BY <1>2, <1>3 DEF Starting

LEMMA RouteStarts ==
  ASSUME BootAssumptions, BootInv, NEW by \in Requests \cup {Nobody},
  Boot!StartRouteFromFile(by)
  PROVE  /\ Starting(by)
         /\ nodeState' \in {"idle", "waiting_schedule", "active", "terminal"}
         /\ loaded' \in BOOLEAN
BY DEF Boot!StartRouteFromFile, Boot!Begun, Boot!FailedToStart, Starting, BootInv,
   Boot!TypeOK

\* What does not start a patrol for a request.
LEMMA OthersKeep ==
  ASSUME BootAssumptions, BootInv, Starting(Nobody), UNCHANGED <<seen, others>>,
         nodeState' \in {"idle", "waiting_schedule", "active", "terminal"},
         {booting', autoStart', loaded', due'} \subseteq BOOLEAN,
         remaining' \in 0 .. PoseCount, shown' \in Requests \cup {Nobody}
  PROVE  BootInv' /\ Boot!RequestStartsOnceStep
<1>1. /\ patrol' \in [n : 0 .. MaxPatrols, by : Requests \cup {Nobody}]
      /\ patrol' # patrol => patrol'.by = Nobody
  BY StartsOne
<1>2. Boot!TypeOK'
  BY <1>1 DEF BootInv, Boot!TypeOK
<1>3. SeenInv'
  BY DEF BootInv, SeenInv, Boot!Known
<1>4. Boot!RequestStartsOnceStep
  BY <1>1 DEF Boot!RequestStartsOnceStep, BootAssumptions
<1>. QED
  BY <1>2, <1>3, <1>4 DEF BootInv

LEMMA Remembers ==
  ASSUME BootAssumptions, BootInv, NEW r \in Requests, ~ Boot!Known(r),
         seen' = Boot!Remember(r), others' = Boot!Count(r)
  PROVE  /\ seen' \in Seq(Requests) /\ Len(seen') <= Memory
         /\ others' \in [Requests -> 0 .. Memory] /\ SeenInv'
<1>. DEFINE s == Append(seen, r)
            n == Len(seen)
<1>1. /\ seen \in Seq(Requests) /\ n \in Nat /\ n <= Memory /\ Memory \in Nat
      /\ others \in [Requests -> 0 .. Memory]
  BY DEF BootAssumptions, BootInv, Boot!TypeOK
<1>2. /\ s \in Seq(Requests) /\ Len(s) = n + 1 /\ s[n + 1] = r
      /\ \A i \in 1 .. n : s[i] = seen[i]
  BY <1>1
<1>3. others' \in [Requests -> 0 .. Memory]
  <2>1. \A q \in Requests : (IF q = r THEN 0 ELSE IF others[q] < Memory THEN others[q] + 1
                             ELSE Memory) \in 0 .. Memory
    BY <1>1
  <2>. QED
    BY <2>1 DEF Boot!Count
<1>4. \A i \in 1 .. n : seen[i] \in Requests /\ seen[i] # r /\ others[seen[i]] = n - i
  <2>1. DOMAIN seen = 1 .. n
    BY <1>1
  <2>2. \A i \in 1 .. n : seen[i] \in Requests
    BY <1>1
  <2>. QED
    BY <2>1, <2>2 DEF Boot!Known, BootInv, SeenInv
<1>5. \A i \in 1 .. n + 1 : others'[s[i]] = n + 1 - i
  <2>1. ASSUME NEW i \in 1 .. n PROVE others'[s[i]] = n + 1 - i
    <3>1. others'[seen[i]] = IF others[seen[i]] < Memory THEN others[seen[i]] + 1 ELSE Memory
      BY <1>4 DEF Boot!Count
    <3>2. others[seen[i]] = n - i /\ n - i < Memory
      BY <1>1, <1>4
    <3>. QED
      BY <1>1, <1>2, <3>1, <3>2
  <2>2. others'[r] = 0
    BY DEF Boot!Count
  <2>. QED
    BY <1>1, <1>2, <2>1, <2>2
<1>6. \A q \in Requests : ~ Boot!Known(q) /\ q # r => others'[q] = Memory
  <2>1. ASSUME NEW q \in Requests, ~ Boot!Known(q), q # r PROVE others'[q] = Memory
    <3>1. others[q] = Memory
      BY <2>1 DEF BootInv, SeenInv
    <3>. QED
      BY <1>1, <2>1, <3>1 DEF Boot!Count
  <2>. QED
    BY <2>1
<1>7. \A q \in Requests : (\A i \in 1 .. n + 1 : s[i] # q) => ~ Boot!Known(q) /\ q # r
  BY <1>1, <1>2 DEF Boot!Known
<1>. HIDE DEF s
<1>8. CASE Len(s) <= Memory
  <2>1. seen' = s
    BY <1>2, <1>8, <1>1 DEF Boot!Remember, s
  <2>2. DOMAIN s = 1 .. n + 1
    <3>1. s \in Seq(Requests) /\ Len(s) = n + 1
      BY <1>2
    <3>. QED
      BY <3>1
  <2>3. SeenInv'
    <3>1. Len(seen') = n + 1
      BY <1>2, <2>1
    <3>2. ASSUME NEW q \in Requests, ~ Boot!Known(q)' PROVE others'[q] = Memory
      <4>1. \A i \in 1 .. n + 1 : s[i] # q
        BY <2>1, <2>2, <3>2 DEF Boot!Known
      <4>. QED
        BY <1>6, <1>7, <4>1
    <3>3. \A i \in 1 .. n + 1 : others'[seen'[i]] = n + 1 - i
      BY <1>5, <2>1
    <3>. QED
      BY <3>1, <3>2, <3>3 DEF SeenInv
  <2>. QED
    BY <1>2, <1>3, <1>8, <2>1, <2>3
<1>9. CASE Len(s) > Memory
  <2>1. seen' = Tail(s) /\ n = Memory
    BY <1>1, <1>2, <1>9 DEF Boot!Remember, s
  <2>2. /\ Tail(s) \in Seq(Requests) /\ Len(Tail(s)) = n
        /\ \A i \in 1 .. n : Tail(s)[i] = s[i + 1]
    BY <1>1, <1>2
  <2>3. DOMAIN seen' = 1 .. n /\ Len(seen') = n
    BY <1>1, <2>1, <2>2
  <2>4. \A i \in 1 .. n : others'[seen'[i]] = n - i
    <3>1. ASSUME NEW i \in 1 .. n PROVE others'[seen'[i]] = n - i
      <4>1. i + 1 \in 1 .. n + 1 /\ n + 1 - (i + 1) = n - i
        BY <1>1
      <4>2. seen'[i] = s[i + 1]
        BY <2>1, <2>2
      <4>. QED
        BY <1>5, <4>1, <4>2
    <3>. QED
      BY <3>1
  <2>5. ASSUME NEW q \in Requests, ~ Boot!Known(q)' PROVE others'[q] = Memory
    <3>1. \A i \in 1 .. n : seen'[i] # q
      BY <2>3, <2>5 DEF Boot!Known
    <3>2. \A i \in 2 .. n + 1 : s[i] # q
      <4>1. ASSUME NEW i \in 2 .. n + 1 PROVE s[i] # q
        <5>1. i - 1 \in 1 .. n /\ (i - 1) + 1 = i
          BY <1>1
        <5>2. seen'[i - 1] = s[i]
          BY <2>1, <2>2, <5>1
        <5>. QED
          BY <3>1, <5>1, <5>2
      <4>. QED
        BY <4>1
    <3>3. CASE s[1] = q
      <4>1. 1 \in 1 .. n + 1
        BY <1>1
      <4>2. others'[s[1]] = n + 1 - 1
        BY <1>5, <4>1
      <4>. QED
        BY <1>1, <2>1, <3>3, <4>2
    <3>4. CASE s[1] # q
      <4>1. \A i \in 1 .. n + 1 : s[i] # q
        BY <1>1, <3>2, <3>4
      <4>. QED
        BY <1>6, <1>7, <4>1
    <3>. QED
      BY <3>3, <3>4
  <2>6. SeenInv'
    BY <2>3, <2>4, <2>5 DEF SeenInv
  <2>. QED
    BY <1>1, <1>3, <2>1, <2>2, <2>6
<1>. QED
  BY <1>1, <1>2, <1>8, <1>9

LEMMA RequestKeeps ==
  ASSUME BootAssumptions, BootInv, NEW r \in Requests, Boot!Start(r)
  PROVE  BootInv' /\ Boot!RequestStartsOnceStep
<1>1. shown' = r /\ UNCHANGED <<booting, autoStart, remaining, due>>
  BY DEF Boot!Start
<1>2. CASE Boot!Known(r)
  <2>1. UNCHANGED <<nodeState, loaded, patrol, seen, others>>
    BY <1>2 DEF Boot!Start
  <2>. QED
    BY <1>1, <2>1 DEF BootInv, Boot!TypeOK, SeenInv, Boot!Known, Boot!RequestStartsOnceStep
<1>3. CASE ~ Boot!Known(r)
  <2>1. /\ Boot!StartRouteFromFile(r)
        /\ IF patrol' # patrol THEN seen' = Boot!Remember(r) /\ others' = Boot!Count(r)
           ELSE UNCHANGED <<seen, others>>
    BY <1>3 DEF Boot!Start
  <2>2. /\ Starting(r) /\ loaded' \in BOOLEAN
        /\ nodeState' \in {"idle", "waiting_schedule", "active", "terminal"}
    BY <2>1, RouteStarts
  <2>3. /\ patrol' \in [n : 0 .. MaxPatrols, by : Requests \cup {Nobody}]
        /\ patrol' # patrol => patrol'.by = r
    BY <2>2, StartsOne
  <2>4. Boot!RequestStartsOnceStep
    BY <1>3, <2>3 DEF Boot!RequestStartsOnceStep, BootInv, SeenInv
  <2>5. /\ seen' \in Seq(Requests) /\ Len(seen') <= Memory
        /\ others' \in [Requests -> 0 .. Memory] /\ SeenInv'
    <3>1. CASE patrol' # patrol
      BY <1>3, <2>1, <3>1, Remembers
    <3>2. CASE patrol' = patrol
      BY <2>1, <3>2 DEF BootInv, Boot!TypeOK, SeenInv, Boot!Known
    <3>. QED
      BY <3>1, <3>2
  <2>6. Boot!TypeOK'
    BY <1>1, <2>2, <2>3, <2>5 DEF BootInv, Boot!TypeOK
  <2>. QED
    BY <2>4, <2>5, <2>6 DEF BootInv
<1>. QED
  BY <1>2, <1>3

LEMMA PoseKeeps ==
  ASSUME BootAssumptions, BootInv, NEW left \in 0 .. PoseCount, NEW auto \in BOOLEAN,
         Boot!PoseSent(left, auto)
  PROVE  /\ Starting(Nobody) /\ remaining' \in 0 .. PoseCount
         /\ autoStart' \in BOOLEAN /\ loaded' \in BOOLEAN
         /\ nodeState' \in {"idle", "waiting_schedule", "active", "terminal"}
<1>1. CASE left = 0 /\ auto
  BY <1>1, RouteStarts DEF Boot!PoseSent
<1>2. CASE ~ (left = 0 /\ auto)
  BY <1>2 DEF Boot!PoseSent, Starting, BootInv, Boot!TypeOK
<1>. QED
  BY <1>1, <1>2

LEMMA BootStep ==
  ASSUME BootAssumptions, BootInv, [Boot!Next]_Boot!vars
  PROVE  BootInv' /\ [Boot!RequestStartsOnceStep]_Boot!vars
<1>1. /\ nodeState \in {"idle", "waiting_schedule", "active", "terminal"}
      /\ booting \in BOOLEAN /\ autoStart \in BOOLEAN /\ loaded \in BOOLEAN /\ due \in BOOLEAN
      /\ remaining \in 0 .. PoseCount /\ shown \in Requests \cup {Nobody}
      /\ PoseCount \in Nat /\ PoseCount - 1 \in 0 .. PoseCount
  BY DEF BootAssumptions, BootInv, Boot!TypeOK
<1>2. ASSUME NEW r \in Requests, Boot!Start(r) PROVE BootInv' /\ Boot!RequestStartsOnceStep
  BY <1>2, RequestKeeps
<1>3. CASE Boot!PlainStart
  BY <1>1, <1>3, RouteStarts, OthersKeep DEF Boot!PlainStart
<1>4. CASE Boot!PatrolEnds \/ Boot!ResetTerminalState \/ Boot!PeriodPasses
  BY <1>1, <1>4, OthersKeep DEF Boot!PatrolEnds, Boot!ResetTerminalState,
     Boot!PeriodPasses, Starting
<1>5. CASE Boot!OnStartupTimer
  <2>1. booting' = FALSE /\ UNCHANGED <<seen, shown, due, others>>
    BY <1>5 DEF Boot!OnStartupTimer
  <2>2. PICK auto \in BOOLEAN :
          \/ loaded /\ Boot!PoseSent(PoseCount - 1, auto)
          \/ /\ autoStart' = FALSE /\ UNCHANGED remaining
             /\ IF auto THEN Boot!StartRouteFromFile(Nobody) ELSE UNCHANGED <<nodeState,
                loaded, patrol>>
    BY <1>5 DEF Boot!OnStartupTimer
  <2>3. /\ Starting(Nobody) /\ remaining' \in 0 .. PoseCount
        /\ autoStart' \in BOOLEAN /\ loaded' \in BOOLEAN
        /\ nodeState' \in {"idle", "waiting_schedule", "active", "terminal"}
    BY <1>1, <2>2, PoseKeeps, RouteStarts DEF Starting
  <2>. QED
    BY <1>1, <2>1, <2>3, OthersKeep
<1>6. CASE Boot!PublishOneInitialPose
  <2>1. remaining - 1 \in 0 .. PoseCount
    BY <1>1, <1>6 DEF Boot!PublishOneInitialPose
  <2>2. Boot!PoseSent(remaining - 1, autoStart)
          /\ UNCHANGED <<booting, seen, shown, due, others>>
    BY <1>6 DEF Boot!PublishOneInitialPose
  <2>. QED
    BY <1>1, <2>1, <2>2, PoseKeeps, OthersKeep
<1>7. CASE Boot!Relocalize
  <2>1. UNCHANGED <<booting, seen, shown, due, others>>
    BY <1>7 DEF Boot!Relocalize
  <2>2. /\ Starting(Nobody) /\ remaining' \in 0 .. PoseCount
        /\ autoStart' \in BOOLEAN /\ loaded' \in BOOLEAN
        /\ nodeState' \in {"idle", "waiting_schedule", "active", "terminal"}
    BY <1>1, <1>7, PoseKeeps DEF Boot!Relocalize, Starting
  <2>. QED
    BY <1>1, <2>1, <2>2, OthersKeep
<1>8. CASE Boot!CheckSchedules
  BY <1>1, <1>8, RouteStarts, OthersKeep DEF Boot!CheckSchedules
<1>9. CASE UNCHANGED Boot!vars
  BY <1>9 DEF Boot!vars, BootInv, Boot!TypeOK, SeenInv, Boot!Known
<1>. QED
  BY <1>2, <1>3, <1>4, <1>5, <1>6, <1>7, <1>8, <1>9 DEF Boot!Next

LEMMA BootInitInv == ASSUME BootAssumptions, Boot!Init PROVE BootInv
<1>1. Memory \in Nat /\ PoseCount \in Nat /\ MaxPatrols \in Nat
  BY DEF BootAssumptions
<1>2. seen = <<>> /\ others = [r \in Requests |-> Memory] /\ patrol = [n |-> 0, by |-> Nobody]
  BY DEF Boot!Init
<1>3. seen \in Seq(Requests) /\ Len(seen) = 0 /\ others \in [Requests -> 0 .. Memory]
      /\ patrol \in [n : 0 .. MaxPatrols, by : Requests \cup {Nobody}]
  BY <1>1, <1>2
<1>4. Boot!TypeOK
  <2>1. {booting, autoStart, loaded, due} \subseteq BOOLEAN
    BY DEF Boot!Init
  <2>2. remaining \in 0 .. PoseCount /\ Len(seen) <= Memory
    BY <1>1, <1>3 DEF Boot!Init
  <2>3. nodeState \in {"idle", "waiting_schedule", "active", "terminal"}
        /\ shown \in Requests \cup {Nobody}
    BY DEF Boot!Init
  <2>. QED
    BY <1>3, <2>1, <2>2, <2>3 DEF Boot!TypeOK
<1>5. SeenInv
  BY <1>2, <1>3 DEF SeenInv
<1>. QED
  BY <1>4, <1>5 DEF BootInv

\* A start command delivered again starts no second patrol while the executor remembers
\* the request: fewer than Memory others have been heard since, for any requests, number
\* of remembered ones and initial poses (handle_command's deduplication).
THEOREM StartsAreNotRepeated ==
  ASSUME BootAssumptions
  PROVE  Boot!Spec => []Boot!TypeOK /\ Boot!RequestStartsOnce
<1>1. BootInv => Boot!TypeOK
  BY DEF BootInv
<1>2. BootInv /\ [Boot!Next]_Boot!vars => BootInv' /\ [Boot!RequestStartsOnceStep]_Boot!vars
  BY BootStep
<1>. QED
  BY BootInitInv, <1>1, <1>2, PTL DEF Boot!Spec, Boot!RequestStartsOnce

-----------------------------------------------------------------------------
(* The search for the position.  What was turned is at most what the attempts      *)
(* before this one may turn and this one's segments up to the present, less what  *)
(* is left of that (TurningInv).                                                  *)

\* There is a segment to turn, at least one attempt to do it in, and the numbers
\* of samples are positive.
RelocAssumptions ==
  /\ Segments \in Seq(Nat) /\ Len(Segments) >= 1 /\ MaxTotalRotation \in Nat
  /\ {MaxAttempts, SuspectSamples, TriggerSamples, HealthyRecoverySamples,
      VerificationSamples} \subseteq Nat \ {0}

\* f holds the sums of the first n segments.
Adds(f, n) == f[0] = 0 /\ \A k \in 1 .. n : f[k] = f[k - 1] + Segments[k]

LEMMA SmallestOf ==
  ASSUME NEW S \in SUBSET Nat, S # {}
  PROVE  \E n \in S : \A m \in S : n <= m
<1>1. \E n \in S : \A m \in S : ~ (<<m, n>> \in OpToRel(<, Nat))
  BY WFMin, NatLessThanWellFounded
<1>2. PICK n \in S : \A m \in S : ~ (m < n)
  BY <1>1 DEF OpToRel
<1>3. S \subseteq Nat
  OBVIOUS
<1>. QED
  BY <1>2, <1>3

LEMMA SumsExist ==
  ASSUME RelocAssumptions, NEW n \in 0 .. Len(Segments)
  PROVE  \E f \in [0 .. n -> Nat] : Adds(f, n)
<1>1. /\ Len(Segments) \in Nat /\ Segments \in Seq(Nat)
      /\ \A k \in 1 .. Len(Segments) : Segments[k] \in Nat
  BY DEF RelocAssumptions
<1>. DEFINE wrong == {i \in 0 .. Len(Segments) : ~ \E f \in [0 .. i -> Nat] : Adds(f, i)}
<1>2. CASE wrong = {}
  BY <1>2
<1>3. CASE wrong # {}
  <2>1. PICK m \in wrong : \A k \in wrong : m <= k
    <3>1. wrong \in SUBSET Nat
      BY <1>1
    <3>. QED
      BY <1>3, <3>1, SmallestOf
  <2>2. m \in 0 .. Len(Segments) /\ ~ \E f \in [0 .. m -> Nat] : Adds(f, m)
    OBVIOUS
  <2>3. m # 0
    <3>1. [k \in 0 .. 0 |-> 0] \in [0 .. 0 -> Nat] /\ Adds([k \in 0 .. 0 |-> 0], 0)
      BY DEF Adds
    <3>. QED
      BY <2>2, <3>1
  <2>4. m - 1 \in 0 .. Len(Segments) /\ m - 1 \notin wrong
    <3>. HIDE DEF wrong
    <3>1. m \in 0 .. Len(Segments) /\ Len(Segments) \in Nat
      BY <1>1, <2>2
    <3>. QED
      BY <2>1, <2>3, <3>1
  <2>5. PICK f \in [0 .. m - 1 -> Nat] : Adds(f, m - 1)
    BY <2>4
  <2>. DEFINE g == [k \in 0 .. m |-> IF k = m THEN f[m - 1] + Segments[m] ELSE f[k]]
  <2>6. g \in [0 .. m -> Nat]
    BY <1>1, <2>2, <2>3
  <2>7. Adds(g, m)
    <3>1. m \in Nat /\ m > 0 /\ g[0] = f[0] /\ f[0] = 0
      BY <1>1, <2>2, <2>3, <2>5 DEF Adds
    <3>2. ASSUME NEW k \in 1 .. m PROVE g[k] = g[k - 1] + Segments[k]
      <4>1. CASE k = m
        BY <3>1, <4>1
      <4>2. CASE k # m
        <5>1. k \in 1 .. m - 1 /\ k - 1 \in 0 .. m - 1
          BY <3>1, <4>2
        <5>2. g[k] = f[k] /\ g[k - 1] = f[k - 1]
          BY <3>1, <5>1
        <5>. QED
          BY <2>5, <5>1, <5>2 DEF Adds
      <4>. QED
        BY <4>1, <4>2
    <3>. QED
      BY <3>1, <3>2 DEF Adds
  <2>. QED
    BY <2>2, <2>6, <2>7
<1>. QED
  BY <1>2, <1>3

LEMMA SumIs ==
  ASSUME RelocAssumptions
  PROVE  Reloc!Total \in [0 .. Len(Segments) -> Nat] /\ Adds(Reloc!Total, Len(Segments))
<1>1. Len(Segments) \in Nat
  BY DEF RelocAssumptions
<1>2. PICK f \in [0 .. Len(Segments) -> Nat] : Adds(f, Len(Segments))
  BY <1>1, SumsExist
<1>3. f = [n \in 0 .. Len(Segments) |-> IF n = 0 THEN 0 ELSE f[n - 1] + Segments[n]]
  BY <1>1, <1>2 DEF Adds
<1>4. Reloc!Total = [n \in 0 .. Len(Segments) |-> IF n = 0 THEN 0
        ELSE Reloc!Total[n - 1] + Segments[n]]
  BY <1>3, Zenon DEF Reloc!Total
<1>5. Reloc!Total \in [0 .. Len(Segments) -> Nat]
  <2>. DEFINE wrong == {i \in 0 .. Len(Segments) : Reloc!Total[i] # f[i]}
  <2>1. CASE wrong = {}
    <3>1. \A i \in 0 .. Len(Segments) : Reloc!Total[i] = f[i]
      BY <2>1
    <3>2. /\ DOMAIN Reloc!Total = 0 .. Len(Segments)
          /\ Reloc!Total = [n \in 0 .. Len(Segments) |-> Reloc!Total[n]]
      BY <1>4
    <3>. QED
      BY <1>2, <3>1, <3>2
  <2>2. CASE wrong # {}
    <3>1. PICK m \in wrong : \A k \in wrong : m <= k
      <4>1. wrong \in SUBSET Nat
        BY <1>1
      <4>. QED
        BY <2>2, <4>1, SmallestOf
    <3>2. m \in 0 .. Len(Segments) /\ Reloc!Total[m] # f[m]
      OBVIOUS
    <3>3. Reloc!Total[m] = (IF m = 0 THEN 0 ELSE Reloc!Total[m - 1] + Segments[m])
      BY <1>4, <3>2, Zenon
    <3>4. m # 0
      BY <1>2, <3>2, <3>3 DEF Adds
    <3>5. m - 1 \in 0 .. Len(Segments) /\ m - 1 \notin wrong
      <4>. HIDE DEF wrong
      <4>. QED
        BY <1>1, <3>1, <3>2, <3>4
    <3>6. Reloc!Total[m - 1] = f[m - 1]
      BY <3>5
    <3>7. f[m] = f[m - 1] + Segments[m]
      BY <1>1, <1>2, <3>2, <3>4 DEF Adds
    <3>. QED
      BY <3>2, <3>3, <3>4, <3>6, <3>7
  <2>. QED
    BY <2>1, <2>2
<1>6. Adds(Reloc!Total, Len(Segments))
  <2>1. Reloc!Total[0] = 0
    BY <1>1, <1>4
  <2>2. ASSUME NEW k \in 1 .. Len(Segments)
      PROVE Reloc!Total[k] = Reloc!Total[k - 1] + Segments[k]
    <3>1. k \in 0 .. Len(Segments) /\ k # 0
      BY <1>1
    <3>. QED
      BY <1>4, <3>1, Zenon
  <2>. QED
    BY <2>1, <2>2 DEF Adds
<1>. QED
  BY <1>5, <1>6


\* The units that the attempts before this one may have turned.
Spent(a) == (a - 1) * Reloc!SumOfSegments

Searching == {"ACTIVE_SCAN", "WAITING_CANDIDATE", "VERIFYING"}

\* An attempt is counted before it turns.
AttemptInv ==
  /\ searchState \in {"NORMAL", "SUSPECTED", "TRIGGERED"} => attempt_id = 0
  /\ searchState = "STOPPING" => attempt_id < MaxAttempts
  /\ searchState \in Searching => attempt_id >= 1
  /\ attempt_id >= 1 => segment >= 1

\* This attempt has turned its segments up to the present one, less what is left
\* of that.
TurningInv ==
  /\ attempt_id = 0 => turned = 0
  /\ attempt_id >= 1 => turned <= Spent(attempt_id) + Reloc!Total[segment]
  /\ searchState = "ACTIVE_SCAN"
       => turned + unitsLeft <= Spent(attempt_id) + Reloc!Total[segment]

\* The rotation is that of the segments done, the present one being among them
\* once the robot settles.
RotationInv ==
  /\ searchState \in Searching => rotated <= Reloc!Total[segment]
  /\ searchState = "ACTIVE_SCAN" /\ ~ settling => rotated <= Reloc!Total[segment - 1]

\* A candidate answers a request; the samples counted were good ones in a row.
AnswerInv ==
  /\ candidate # "none" => requested
  /\ searchState = "VERIFYING" => /\ requested /\ steady = verified
                                  /\ verified < VerificationSamples
  /\ Reloc!RecoveredIsVerified

\* The types, in parts, but for the bound on the turning, which follows.
StreaksOK ==
  /\ bad \in 0 .. SuspectSamples /\ trigger \in 0 .. TriggerSamples
  /\ healthy \in 0 .. HealthyRecoverySamples
PlacesOK ==
  /\ searchState \in Reloc!States /\ attempt_id \in 0 .. MaxAttempts
  /\ segment \in 0 .. Len(Segments) /\ unitsLeft \in 0 .. Reloc!SumOfSegments
  /\ rotated \in 0 .. Reloc!SumOfSegments /\ turned \in Nat /\ settling \in BOOLEAN
AnswersOK ==
  /\ requested \in BOOLEAN /\ asked \in BOOLEAN /\ takeover \in BOOLEAN
  /\ candidate \in {"none", "good", "bad"} /\ inbox \in {"none", "good", "bad"}
  /\ verified \in 0 .. VerificationSamples /\ steady \in 0 .. VerificationSamples

RelocInv ==
  /\ StreaksOK /\ PlacesOK /\ AnswersOK
  /\ AttemptInv /\ TurningInv /\ RotationInv /\ AnswerInv

LEMMA SumFacts ==
  ASSUME RelocAssumptions
  PROVE  /\ Len(Segments) \in Nat /\ Len(Segments) >= 1 /\ Reloc!SumOfSegments \in Nat
         /\ Reloc!Total[0] = 0
         /\ \A k \in 0 .. Len(Segments) : Reloc!Total[k] \in Nat
              /\ Reloc!Total[k] <= Reloc!SumOfSegments
         /\ \A k \in 1 .. Len(Segments) : /\ Segments[k] \in Nat
                                         /\ Reloc!Total[k] = Reloc!Total[k - 1] + Segments[k]
                                         /\ Segments[k] <= Reloc!SumOfSegments
<1>1. /\ Len(Segments) \in Nat /\ Len(Segments) >= 1
      /\ \A k \in 1 .. Len(Segments) : Segments[k] \in Nat
  BY DEF RelocAssumptions
<1>2. Reloc!Total \in [0 .. Len(Segments) -> Nat] /\ Adds(Reloc!Total, Len(Segments))
  BY SumIs
<1>. HIDE DEF Reloc!Total
<1>3. \A k \in 0 .. Len(Segments) : Reloc!Total[k] \in Nat
  BY <1>2
<1>4. /\ Reloc!Total[0] = 0
      /\ \A k \in 1 .. Len(Segments) : Reloc!Total[k] = Reloc!Total[k - 1] + Segments[k]
  BY <1>2 DEF Adds
<1>5. Reloc!SumOfSegments \in Nat
  BY <1>1, <1>3 DEF Reloc!SumOfSegments
<1>. DEFINE over == {j \in 0 .. Len(Segments) : Reloc!Total[Len(Segments) - j] > Reloc!SumOfSegments}
<1>6. over = {}
  <2>1. SUFFICES ASSUME over # {} PROVE FALSE
    OBVIOUS
  <2>2. over \in SUBSET Nat
    BY <1>1
  <2>3. PICK m \in over : \A k \in over : m <= k
    <3>. HIDE DEF over
    <3>. QED
      BY <2>1, <2>2, SmallestOf
  <2>4. m \in 0 .. Len(Segments) /\ Reloc!Total[Len(Segments) - m] > Reloc!SumOfSegments
    OBVIOUS
  <2>5. m # 0
    BY <1>1, <1>5, <2>4 DEF Reloc!SumOfSegments
  <2>6. m - 1 \in 0 .. Len(Segments) /\ m - 1 \notin over
    <3>. HIDE DEF over
    <3>. QED
      BY <1>1, <2>3, <2>4, <2>5
  <2>7. Reloc!Total[Len(Segments) - (m - 1)] <= Reloc!SumOfSegments
    <3>1. Len(Segments) - (m - 1) \in 0 .. Len(Segments)
      BY <1>1, <2>6
    <3>. QED
      BY <1>3, <1>5, <2>6, <3>1
  <2>8. Len(Segments) - (m - 1) \in 1 .. Len(Segments)
        /\ (Len(Segments) - (m - 1)) - 1 = Len(Segments) - m
        /\ Len(Segments) - m \in 0 .. Len(Segments)
    BY <1>1, <2>4, <2>5
  <2>9. Reloc!Total[Len(Segments) - (m - 1)]
          = Reloc!Total[Len(Segments) - m] + Segments[Len(Segments) - (m - 1)]
    BY <1>4, <2>8
  <2>. QED
    BY <1>1, <1>3, <1>5, <2>4, <2>7, <2>8, <2>9
<1>7. ASSUME NEW k \in 0 .. Len(Segments) PROVE Reloc!Total[k] <= Reloc!SumOfSegments
  <2>1. Len(Segments) - k \in 0 .. Len(Segments) /\ Len(Segments) - (Len(Segments) - k) = k
    BY <1>1
  <2>2. ~ (Reloc!Total[k] > Reloc!SumOfSegments)
    BY <1>6, <2>1
  <2>. QED
    BY <1>3, <1>5, <2>2
<1>8. ASSUME NEW k \in 1 .. Len(Segments) PROVE Segments[k] <= Reloc!SumOfSegments
  <2>1. k \in 0 .. Len(Segments) /\ k - 1 \in 0 .. Len(Segments)
    BY <1>1
  <2>2. /\ Reloc!Total[k] = Reloc!Total[k - 1] + Segments[k]
        /\ Reloc!Total[k] <= Reloc!SumOfSegments
        /\ Reloc!Total[k] \in Nat /\ Reloc!Total[k - 1] \in Nat /\ Segments[k] \in Nat
    BY <1>1, <1>3, <1>4, <1>7, <2>1
  <2>. QED
    BY <1>5, <2>2
<1>. QED
  BY <1>1, <1>3, <1>4, <1>5, <1>7, <1>8

\* What the attempts may turn together.
LEMMA SpentFacts ==
  ASSUME RelocAssumptions, NEW a \in 1 .. MaxAttempts
  PROVE  /\ Spent(a) \in Nat
    /\ Spent(a) + Reloc!SumOfSegments <= MaxAttempts * Reloc!SumOfSegments
         /\ Spent(a + 1) = Spent(a) + Reloc!SumOfSegments
<1>1. Reloc!SumOfSegments \in Nat /\ MaxAttempts \in Nat
  BY SumFacts DEF RelocAssumptions
<1>2. \A s, m, n \in Nat : n >= 1 /\ n <= m =>
        /\ (n - 1) * s \in Nat /\ (n - 1) * s + s <= m * s
        /\ (n + 1 - 1) * s = (n - 1) * s + s
  OBVIOUS
<1>3. a \in Nat /\ a >= 1 /\ a <= MaxAttempts
  BY <1>1
<1>. QED
  BY <1>1, <1>2, <1>3 DEF Spent

-----------------------------------------------------------------------------
LEMMA RelocTypes == ASSUME RelocAssumptions, RelocInv PROVE Reloc!TypeOK
<1>1. turned \in 0 .. MaxAttempts * Reloc!SumOfSegments
  <2>1. /\ Reloc!SumOfSegments \in Nat /\ MaxAttempts \in Nat /\ turned \in Nat
        /\ attempt_id \in 0 .. MaxAttempts /\ segment \in 0 .. Len(Segments)
    BY SumFacts DEF RelocAssumptions, RelocInv, PlacesOK
  <2>2. CASE attempt_id = 0
    <3>1. \A m, s \in Nat : m * s \in Nat
      OBVIOUS
    <3>2. MaxAttempts * Reloc!SumOfSegments \in Nat /\ turned = 0
      BY <2>1, <2>2, <3>1 DEF RelocInv, TurningInv
    <3>. QED
      BY <3>2
  <2>3. CASE attempt_id # 0
    <3>1. attempt_id \in 1 .. MaxAttempts /\ attempt_id >= 1
      BY <2>1, <2>3
    <3>2. Spent(attempt_id) \in Nat
          /\ Spent(attempt_id) + Reloc!SumOfSegments <= MaxAttempts * Reloc!SumOfSegments
      BY <3>1, SpentFacts
    <3>3. Reloc!Total[segment] \in Nat /\ Reloc!Total[segment] <= Reloc!SumOfSegments
      BY <2>1, SumFacts
    <3>4. turned <= Spent(attempt_id) + Reloc!Total[segment]
      BY <3>1 DEF RelocInv, TurningInv
    <3>5. MaxAttempts * Reloc!SumOfSegments \in Int
      BY <2>1
    <3>. HIDE DEF Spent
    <3>. QED
      BY <2>1, <3>2, <3>3, <3>4, <3>5
  <2>. QED
    BY <2>2, <2>3
<1>. QED
  BY <1>1 DEF RelocInv, StreaksOK, PlacesOK, AnswersOK, Reloc!TypeOK

\* What is known of the constants and of the state when a step begins.
LEMMA RelocFacts ==
  ASSUME RelocAssumptions, RelocInv
  PROVE  /\ MaxAttempts \in Nat /\ MaxAttempts >= 1
         /\ VerificationSamples \in Nat /\ VerificationSamples >= 1
         /\ Len(Segments) \in Nat /\ Len(Segments) >= 1 /\ Reloc!SumOfSegments \in Nat
         /\ searchState \in Reloc!States /\ attempt_id \in Nat /\ attempt_id <= MaxAttempts
         /\ segment \in Nat /\ segment <= Len(Segments) /\ turned \in Nat
         /\ unitsLeft \in Nat /\ unitsLeft <= Reloc!SumOfSegments
         /\ rotated \in Nat /\ rotated <= Reloc!SumOfSegments
         /\ verified \in Nat /\ verified <= VerificationSamples
         /\ steady \in Nat /\ steady <= VerificationSamples
         /\ settling \in BOOLEAN /\ requested \in BOOLEAN /\ asked \in BOOLEAN
         /\ takeover \in BOOLEAN
         /\ candidate \in {"none", "good", "bad"} /\ inbox \in {"none", "good", "bad"}
<1>1. /\ MaxAttempts \in Nat /\ MaxAttempts >= 1
      /\ VerificationSamples \in Nat /\ VerificationSamples >= 1
  BY DEF RelocAssumptions
<1>2. Len(Segments) \in Nat /\ Len(Segments) >= 1 /\ Reloc!SumOfSegments \in Nat
  BY SumFacts
<1>. QED
  BY <1>1, <1>2 DEF RelocInv, PlacesOK, AnswersOK

\* A step that turns nothing and goes on to no other segment.
Rests ==
  /\ UNCHANGED <<attempt_id, segment, unitsLeft, rotated, turned>>
  /\ searchState' \in Reloc!States /\ settling' \in BOOLEAN
  /\ searchState' \in Searching => searchState \in Searching
  /\ searchState' = "ACTIVE_SCAN" => searchState = "ACTIVE_SCAN" /\ settling' = settling
  /\ searchState' = "STOPPING" => attempt_id < MaxAttempts
  /\ searchState' \in {"NORMAL", "SUSPECTED", "TRIGGERED"}
       => searchState \in {"NORMAL", "SUSPECTED", "TRIGGERED"}

LEMMA RestingKeeps ==
  ASSUME RelocAssumptions, RelocInv, Rests
  PROVE  PlacesOK' /\ AttemptInv' /\ TurningInv' /\ RotationInv'
<1>1. PlacesOK'
  BY DEF RelocInv, Rests, PlacesOK
<1>2. AttemptInv'
  BY DEF RelocInv, Rests, AttemptInv, Searching
<1>3. TurningInv'
  BY DEF RelocInv, Rests, TurningInv, Spent
<1>4. RotationInv'
  BY DEF RelocInv, Rests, RotationInv, Searching
<1>. QED
  BY <1>1, <1>2, <1>3, <1>4

\* A step that counts no sample.
Listens ==
  /\ candidate' \in {Reloc!Taken, "none"}
  /\ UNCHANGED <<requested, verified, steady, takeover>>
  /\ asked' \in BOOLEAN /\ inbox' \in {"none", "good", "bad"}
  /\ searchState' = "VERIFYING" => searchState = "VERIFYING"
  /\ searchState' = "RECOVERED" => searchState = "RECOVERED"

LEMMA ListeningKeeps ==
  ASSUME RelocAssumptions, RelocInv, Listens
  PROVE  AnswersOK' /\ AnswerInv'
<1>1. AnswersOK'
  BY DEF RelocInv, Listens, AnswersOK, Reloc!Taken
<1>2. AnswerInv'
  BY DEF RelocInv, Listens, AnswerInv, Reloc!Taken, Reloc!RecoveredIsVerified
<1>. QED
  BY <1>1, <1>2

LEMMA QuietStep ==
  ASSUME RelocAssumptions, RelocInv, Rests, Listens, UNCHANGED Reloc!streaks
  PROVE  RelocInv'
<1>1. StreaksOK'
  BY DEF RelocInv, StreaksOK, Reloc!streaks
<1>. QED
  BY <1>1, RestingKeeps, ListeningKeeps DEF RelocInv

\* An answer, a failure and the end of a wait do not turn the robot.
LEMMA FailingKeeps ==
  ASSUME RelocAssumptions, RelocInv, Reloc!Fail, candidate' = Reloc!Taken, inbox' = "none",
         UNCHANGED <<requested, asked, verified, turned, steady, takeover>>
  PROVE  RelocInv'
<1>1. Rests
  BY DEF Reloc!Fail, Rests, Reloc!States, Searching
<1>2. Listens
  BY RelocFacts DEF Reloc!Fail, Listens
<1>. QED
  BY <1>1, <1>2, QuietStep DEF Reloc!Fail

\* The next segment: it has all of its units left, and those before it are done
\* or not needed.
LEMMA AdvancingKeeps ==
  ASSUME RelocAssumptions, RelocInv, searchState \in Searching, segment < Len(Segments),
         Reloc!Advance, searchState' = "ACTIVE_SCAN", UNCHANGED <<attempt_id, rotated,
         settling, turned>>
  PROVE  PlacesOK' /\ AttemptInv' /\ TurningInv' /\ RotationInv'
<1>. HIDE DEF Reloc!Total
<1>1. segment >= 1 /\ attempt_id >= 1
  BY RelocFacts DEF RelocInv, AttemptInv
<1>2. /\ segment \in 0 .. Len(Segments) /\ segment + 1 \in 1 .. Len(Segments)
      /\ segment + 1 \in 0 .. Len(Segments) /\ (segment + 1) - 1 = segment
  BY RelocFacts
<1>3. /\ Reloc!Total[segment] \in Nat /\ Segments[segment + 1] \in Nat
      /\ Segments[segment + 1] <= Reloc!SumOfSegments
      /\ Reloc!Total[segment + 1] = Reloc!Total[segment] + Segments[segment + 1]
  BY <1>2, SumFacts
<1>4. segment' = segment + 1 /\ unitsLeft' = Segments[segment + 1]
  BY DEF Reloc!Advance
<1>5. unitsLeft' \in 0 .. Reloc!SumOfSegments
  BY <1>3, <1>4, RelocFacts
<1>6. PlacesOK'
  BY <1>2, <1>4, <1>5 DEF RelocInv, PlacesOK, Reloc!States
<1>7. AttemptInv'
  BY <1>1, <1>2, <1>4, RelocFacts DEF AttemptInv, Searching
<1>8. turned <= Spent(attempt_id) + Reloc!Total[segment] /\ rotated <= Reloc!Total[segment]
  BY <1>1 DEF RelocInv, TurningInv, RotationInv
<1>0. turned \in Nat /\ rotated \in Nat
  BY RelocFacts
<1>9. Spent(attempt_id) \in Nat
  <2>1. attempt_id \in 1 .. MaxAttempts
    BY <1>1, RelocFacts
  <2>. QED
    BY <2>1, SpentFacts
<1>10. TurningInv'
  <2>1. Spent(attempt_id)' = Spent(attempt_id)
    BY DEF Spent
  <2>2. Reloc!Total[segment]' = Reloc!Total[segment] + Segments[segment + 1]
    BY <1>3, <1>4
  <2>. HIDE DEF Spent
  <2>3. turned <= Spent(attempt_id) + (Reloc!Total[segment] + Segments[segment + 1])
    BY <1>0, <1>3, <1>8, <1>9
  <2>4. turned + Segments[segment + 1]
          <= Spent(attempt_id) + (Reloc!Total[segment] + Segments[segment + 1])
    BY <1>0, <1>3, <1>8, <1>9
  <2>. QED
    BY <1>1, <1>4, <2>1, <2>2, <2>3, <2>4 DEF TurningInv
<1>11. RotationInv'
  <2>1. Reloc!Total[segment]' = Reloc!Total[segment] + Segments[segment + 1]
        /\ Reloc!Total[segment - 1]' = Reloc!Total[segment]
    BY <1>2, <1>3, <1>4
  <2>. QED
    BY <1>3, <1>8, <2>1, RelocFacts DEF RotationInv
<1>. QED
  BY <1>6, <1>7, <1>10, <1>11

LEMMA CandidateFailedKeeps ==
  ASSUME RelocAssumptions, RelocInv, searchState \in Searching, Reloc!Taken = "bad",
         NEW ev \in Reloc!Event, Reloc!CandidateFailed(ev), inbox' = "none", UNCHANGED takeover
  PROVE  RelocInv'
<1>1. candidate' = "none" /\ steady' = 0 /\ UNCHANGED <<verified, turned, Reloc!streaks>>
  BY DEF Reloc!CandidateFailed, Reloc!Fail
<1>2. StreaksOK'
  BY <1>1 DEF RelocInv, StreaksOK, Reloc!streaks
<1>3. 0 \in 0 .. VerificationSamples
  BY RelocFacts
<1>4. searchState' \in {"ACTIVE_SCAN", "FAILED"} /\ requested' \in BOOLEAN /\ asked' \in BOOLEAN
  BY RelocFacts DEF Reloc!CandidateFailed, Reloc!Fail
<1>5. AnswersOK'
  BY <1>1, <1>3, <1>4 DEF RelocInv, AnswersOK
<1>6. AnswerInv'
  BY <1>1, <1>4 DEF AnswerInv, Reloc!RecoveredIsVerified
<1>7. PlacesOK' /\ AttemptInv' /\ TurningInv' /\ RotationInv'
  <2>1. CASE Reloc!Fail
    <3>1. Rests
      BY <1>1, <2>1 DEF Reloc!Fail, Rests, Reloc!States, Searching
    <3>. QED
      BY <3>1, RestingKeeps
  <2>2. CASE ~ Reloc!Fail
    BY <1>1, <2>2, AdvancingKeeps DEF Reloc!CandidateFailed
  <2>. QED
    BY <2>1, <2>2
<1>. QED
  BY <1>2, <1>5, <1>6, <1>7 DEF RelocInv

LEMMA JudgingKeeps ==
  ASSUME RelocAssumptions, RelocInv, searchState \in Searching,
         NEW ev \in Reloc!Event, Reloc!JudgeCandidate(ev), inbox' = "none", UNCHANGED takeover
  PROVE  RelocInv'
<1>1. CASE Reloc!Taken = "bad" /\ Reloc!CandidateFailed(ev)
  BY <1>1, CandidateFailedKeeps
<1>2. CASE /\ Reloc!Taken = "good"
           /\ searchState' = "VERIFYING" /\ candidate' = Reloc!Taken /\ verified' = 0
           /\ steady' = 0
           /\ UNCHANGED <<attempt_id, Reloc!streaks, Reloc!motion, requested, asked, turned>>
  <2>1. Rests
    BY <1>2, RelocFacts DEF Rests, Reloc!motion, Reloc!States, Searching
  <2>2. StreaksOK'
    BY <1>2 DEF RelocInv, StreaksOK, Reloc!streaks
  <2>3. 0 \in 0 .. VerificationSamples /\ 0 < VerificationSamples
    BY RelocFacts
  <2>4. AnswersOK'
    BY <1>2, <2>3, RelocFacts DEF RelocInv, AnswersOK
  <2>5. requested
    BY <1>2 DEF Reloc!Taken, RelocInv, AnswerInv
  <2>6. AnswerInv'
    BY <1>2, <2>3, <2>5 DEF AnswerInv, Reloc!RecoveredIsVerified
  <2>. QED
    BY <2>1, <2>2, <2>4, <2>6, RestingKeeps DEF RelocInv
<1>. QED
  BY <1>1, <1>2 DEF Reloc!JudgeCandidate

LEMMA VerifyingKeeps ==
  ASSUME RelocAssumptions, RelocInv, searchState = "VERIFYING", NEW ev \in Reloc!Event,
  Reloc!Verifying(ev),
         inbox' = "none", UNCHANGED takeover
  PROVE  RelocInv'
<1>0. searchState \in Searching /\ requested /\ steady = verified
        /\ verified < VerificationSamples
  BY DEF Searching, RelocInv, AnswerInv
<1>1. CASE /\ ev.late /\ Reloc!Fail /\ candidate' = Reloc!Taken
           /\ UNCHANGED <<requested, asked, verified, turned, steady>>
  BY <1>1, FailingKeeps
<1>2. CASE Reloc!VerificationFailed(ev)
  <2>1. /\ verified' = 0 /\ candidate' = "none" /\ steady' = 0
        /\ UNCHANGED <<requested, turned, Reloc!streaks>>
    BY <1>2 DEF Reloc!VerificationFailed
  <2>2. StreaksOK'
    BY <2>1 DEF RelocInv, StreaksOK, Reloc!streaks
  <2>3. 0 \in 0 .. VerificationSamples
    BY RelocFacts
  <2>4. searchState' \in {"ACTIVE_SCAN", "FAILED"} /\ asked' \in BOOLEAN
    BY <1>2, RelocFacts DEF Reloc!VerificationFailed
  <2>5. AnswersOK' /\ AnswerInv'
    BY <2>1, <2>3, <2>4, RelocFacts DEF AnswersOK, AnswerInv, Reloc!RecoveredIsVerified
  <2>6. CASE segment < Len(Segments) /\ ev.yaw
    <3>1. PlacesOK' /\ AttemptInv' /\ TurningInv' /\ RotationInv'
      BY <1>0, <1>2, <2>1, <2>6, AdvancingKeeps DEF Reloc!VerificationFailed
    <3>. QED
      BY <2>2, <2>5, <3>1 DEF RelocInv
  <2>7. CASE ~ (segment < Len(Segments) /\ ev.yaw)
    <3>1. /\ searchState' = "FAILED" /\ settling' = FALSE
          /\ segment' = Reloc!CapTo(segment + 1, Len(Segments))
          /\ UNCHANGED <<attempt_id, unitsLeft, rotated>>
      BY <1>2, <2>7 DEF Reloc!VerificationFailed
    <3>2. /\ segment \in 0 .. Len(Segments) /\ segment' \in 0 .. Len(Segments)
          /\ segment' >= 1 /\ attempt_id >= 1
          /\ segment' = segment \/ segment' = segment + 1
      BY <1>0, <3>1, RelocFacts DEF Reloc!CapTo, RelocInv, AttemptInv
    <3>3. /\ Reloc!Total[segment] \in Nat /\ Reloc!Total[segment'] \in Nat
          /\ Reloc!Total[segment] <= Reloc!Total[segment']
      <4>1. segment + 1 \in 0 .. Len(Segments) => segment + 1 \in 1 .. Len(Segments)
                                                  /\ (segment + 1) - 1 = segment
        BY <3>2
      <4>. HIDE DEF Reloc!Total
      <4>. QED
        BY <3>2, <4>1, SumFacts
    <3>4. PlacesOK' /\ AttemptInv' /\ RotationInv'
      <4>1. PlacesOK'
        BY <2>1, <3>1, <3>2 DEF RelocInv, PlacesOK, Reloc!States
      <4>2. AttemptInv' /\ RotationInv'
        BY <3>1, <3>2 DEF AttemptInv, RotationInv, Searching
      <4>. QED
        BY <4>1, <4>2
    <3>5. TurningInv'
      <4>1. turned <= Spent(attempt_id) + Reloc!Total[segment] /\ Spent(attempt_id) \in Nat
            /\ Spent(attempt_id)' = Spent(attempt_id)
        <5>1. attempt_id \in 1 .. MaxAttempts
          BY <3>2, RelocFacts
        <5>. QED
          BY <3>1, <3>2, <5>1, SpentFacts DEF RelocInv, TurningInv, Spent
      <4>. HIDE DEF Reloc!Total, Spent
      <4>0. turned \in Nat
        BY RelocFacts
      <4>2. turned <= Spent(attempt_id) + Reloc!Total[segment']
        BY <3>3, <4>0, <4>1
      <4>. QED
        BY <2>1, <3>1, <3>2, <4>1, <4>2 DEF TurningInv
    <3>. QED
      BY <2>2, <2>5, <3>4, <3>5 DEF RelocInv
  <2>. QED
    BY <2>6, <2>7
<1>3. CASE /\ verified' = verified + 1 /\ candidate' = Reloc!Taken
           /\ steady' = Reloc!CapTo(steady + 1, VerificationSamples)
           /\ searchState' = IF verified + 1 >= VerificationSamples
                             THEN "RECOVERED" ELSE searchState
           /\ UNCHANGED <<attempt_id, Reloc!streaks, Reloc!motion, requested, asked, turned>>
  <2>1. Rests
    BY <1>0, <1>3, RelocFacts DEF Rests, Reloc!motion, Reloc!States, Searching
  <2>2. StreaksOK'
    BY <1>3 DEF RelocInv, StreaksOK, Reloc!streaks
  <2>3. /\ steady' = verified + 1 /\ verified' \in 0 .. VerificationSamples
        /\ verified + 1 >= VerificationSamples => verified + 1 = VerificationSamples
        /\ ~ (verified + 1 >= VerificationSamples) => verified + 1 < VerificationSamples
    BY <1>0, <1>3, RelocFacts DEF Reloc!CapTo
  <2>4. AnswersOK'
    BY <1>3, <2>3, RelocFacts DEF RelocInv, AnswersOK, Reloc!Taken
  <2>5. AnswerInv'
    BY <1>0, <1>3, <2>3 DEF AnswerInv, Reloc!RecoveredIsVerified
  <2>. QED
    BY <2>1, <2>2, <2>4, <2>5, RestingKeeps DEF RelocInv
<1>. QED
  BY <1>1, <1>2, <1>3 DEF Reloc!Verifying

LEMMA BeginningKeeps ==
  ASSUME RelocAssumptions, RelocInv, searchState = "STOPPING", Reloc!BeginAttempt,
         inbox' = "none", UNCHANGED takeover
  PROVE  RelocInv'
<1>. HIDE DEF Reloc!Total
<1>1. /\ Segments[1] \in Nat /\ Segments[1] <= Reloc!SumOfSegments
           /\ Reloc!Total[1] = Segments[1]
      /\ Reloc!Total[0] = 0
  <2>1. 1 \in 1 .. Len(Segments) /\ 1 - 1 = 0
    BY RelocFacts
  <2>. QED
    BY <2>1, SumFacts
<1>2. attempt_id < MaxAttempts
  BY DEF RelocInv, AttemptInv
<1>3. /\ attempt_id' \in 0 .. MaxAttempts /\ attempt_id' >= 1
      /\ unitsLeft' \in 0 .. Reloc!SumOfSegments /\ 1 \in 0 .. Len(Segments)
      /\ 0 \in 0 .. Reloc!SumOfSegments
      /\ 0 \in 0 .. VerificationSamples
  <2>1. attempt_id' = attempt_id + 1 /\ unitsLeft' = Segments[1]
    BY DEF Reloc!BeginAttempt
  <2>2. attempt_id \in Nat /\ MaxAttempts \in Nat
    BY RelocFacts
  <2>3. attempt_id + 1 \in 0 .. MaxAttempts /\ attempt_id + 1 >= 1
    BY <1>2, <2>2
  <2>4. Len(Segments) \in Nat /\ Len(Segments) >= 1 /\ Reloc!SumOfSegments \in Nat
        /\ VerificationSamples \in Nat
    BY RelocFacts
  <2>. QED
    BY <1>1, <2>1, <2>3, <2>4
<1>4. StreaksOK'
  BY DEF Reloc!BeginAttempt, RelocInv, StreaksOK, Reloc!streaks
<1>5. PlacesOK' /\ AnswersOK'
  BY <1>3, RelocFacts DEF Reloc!BeginAttempt, RelocInv, PlacesOK, AnswersOK, Reloc!States
<1>6. AttemptInv' /\ AnswerInv'
  BY <1>3 DEF Reloc!BeginAttempt, AttemptInv, AnswerInv, Searching,
     Reloc!RecoveredIsVerified
<1>7. RotationInv'
  BY <1>1 DEF Reloc!BeginAttempt, RotationInv
<1>8. turned <= Spent(attempt_id + 1) /\ Spent(attempt_id + 1) \in Nat
  <2>1. attempt_id + 1 \in 1 .. MaxAttempts
    BY <1>2, RelocFacts
  <2>2. Spent(attempt_id + 1) \in Nat
    BY <2>1, SpentFacts
  <2>3. CASE attempt_id = 0
    BY <2>2, <2>3, RelocFacts DEF RelocInv, TurningInv
  <2>4. CASE attempt_id # 0
    <3>1. attempt_id \in 1 .. MaxAttempts /\ attempt_id >= 1 /\ segment \in 0 .. Len(Segments)
      BY <2>4, RelocFacts
    <3>2. /\ Spent(attempt_id + 1) = Spent(attempt_id) + Reloc!SumOfSegments
          /\ Spent(attempt_id) \in Nat
      BY <3>1, SpentFacts
    <3>3. turned <= Spent(attempt_id) + Reloc!Total[segment]
      BY <3>1 DEF RelocInv, TurningInv
    <3>4. Reloc!Total[segment] \in Nat /\ Reloc!Total[segment] <= Reloc!SumOfSegments
      BY <3>1, SumFacts
    <3>5. turned \in Int /\ Reloc!SumOfSegments \in Int
      BY RelocFacts, SumFacts
    <3>. HIDE DEF Spent
    <3>6. turned <= Spent(attempt_id + 1)
      BY <3>2, <3>3, <3>4, <3>5
    <3>. QED
      BY <2>2, <3>6
  <2>. QED
    BY <2>3, <2>4
<1>9. TurningInv'
  <2>1. Spent(attempt_id)' = Spent(attempt_id + 1) /\ segment' = 1 /\ unitsLeft' = Segments[1]
        /\ turned' = turned
    BY DEF Reloc!BeginAttempt, Spent
  <2>. HIDE DEF Spent
  <2>2. /\ turned <= Spent(attempt_id + 1) + Segments[1]
        /\ turned + Segments[1] <= Spent(attempt_id + 1) + Segments[1]
    <3>1. turned \in Nat
      BY RelocFacts
    <3>. QED
      BY <1>1, <1>8, <3>1
  <2>. QED
    BY <1>1, <1>3, <2>1, <2>2 DEF TurningInv
<1>. QED
  BY <1>4, <1>5, <1>6, <1>7, <1>9 DEF RelocInv

LEMMA RotatingKeeps ==
  ASSUME RelocAssumptions, RelocInv, searchState = "ACTIVE_SCAN", Reloc!Taken = "none",
         NEW ev \in Reloc!Event, Reloc!Rotate(ev), inbox' = "none", UNCHANGED takeover,
         UNCHANGED <<attempt_id, Reloc!streaks, segment, verified, steady>>
  PROVE  RelocInv'
<1>. HIDE DEF Reloc!Total
<1>1. StreaksOK'
  BY DEF RelocInv, StreaksOK, Reloc!streaks
<1>2. /\ segment >= 1 /\ attempt_id >= 1 /\ segment \in 1 .. Len(Segments)
      /\ segment \in 0 .. Len(Segments) /\ segment - 1 \in 0 .. Len(Segments)
      /\ attempt_id \in 1 .. MaxAttempts
  BY RelocFacts DEF RelocInv, AttemptInv, Searching
<1>3. /\ Reloc!Total[segment] \in Nat /\ Segments[segment] \in Nat
      /\ Reloc!Total[segment - 1] \in Nat
      /\ Reloc!Total[segment] = Reloc!Total[segment - 1] + Segments[segment]
      /\ Reloc!Total[segment] <= Reloc!SumOfSegments
  BY <1>2, SumFacts
<1>8. turned \in Nat /\ rotated \in Nat /\ unitsLeft \in Nat /\ unitsLeft <= Reloc!SumOfSegments
      /\ Reloc!SumOfSegments \in Nat
  BY RelocFacts
<1>4. CASE settling
  <2>1. /\ searchState' \in {"ACTIVE_SCAN", "WAITING_CANDIDATE"} /\ settling' \in BOOLEAN
        /\ searchState' = "ACTIVE_SCAN" => settling' = settling
        /\ UNCHANGED <<unitsLeft, rotated, turned>>
    BY <1>4, RelocFacts DEF Reloc!Rotate
  <2>2. Rests
    BY <2>1 DEF Rests, Reloc!States, Searching
  <2>3. candidate' = "none" /\ requested' \in BOOLEAN /\ asked' \in BOOLEAN
    BY <1>4, RelocFacts DEF Reloc!Rotate, Reloc!Request
  <2>4. AnswersOK' /\ AnswerInv'
    BY <2>1, <2>3 DEF RelocInv, AnswersOK, AnswerInv, Reloc!RecoveredIsVerified
  <2>. QED
    BY <1>1, <2>2, <2>4, RestingKeeps DEF RelocInv
<1>5. CASE ~ settling
  <2>1. candidate' = Reloc!Taken /\ UNCHANGED <<searchState, requested, asked>>
    BY <1>5 DEF Reloc!Rotate
  <2>2. AnswersOK' /\ AnswerInv'
    BY <2>1 DEF RelocInv, AnswersOK, AnswerInv, Reloc!RecoveredIsVerified
  <2>3. rotated <= Reloc!Total[segment - 1]
    BY <1>5 DEF RelocInv, RotationInv
  <2>4. CASE unitsLeft = 0 /\ rotated' = rotated + Segments[segment] /\ settling' = TRUE
             /\ UNCHANGED <<unitsLeft, turned>>
    <3>1. rotated' <= Reloc!Total[segment] /\ rotated' \in 0 .. Reloc!SumOfSegments
      BY <1>3, <1>8, <2>3, <2>4
    <3>2. PlacesOK'
      BY <2>1, <2>4, <3>1 DEF RelocInv, PlacesOK
    <3>3. AttemptInv' /\ RotationInv'
      BY <2>1, <2>4, <3>1 DEF RelocInv, AttemptInv, RotationInv
    <3>4. TurningInv'
      BY <2>1, <2>4 DEF RelocInv, TurningInv, Spent
    <3>. QED
      BY <1>1, <2>2, <3>2, <3>3, <3>4 DEF RelocInv
  <2>5. CASE unitsLeft > 0 /\ unitsLeft' \in {unitsLeft, unitsLeft - 1}
          /\ turned' = turned + unitsLeft - unitsLeft'
             /\ UNCHANGED <<rotated, settling>>
    <3>1. /\ unitsLeft' \in 0 .. Reloc!SumOfSegments /\ turned' \in Nat
          /\ turned' + unitsLeft' = turned + unitsLeft
      <4>1. unitsLeft' = unitsLeft \/ unitsLeft' = unitsLeft - 1
        BY <2>5, Zenon
      <4>2. \A w, l, k, s \in Nat : l > 0 /\ l <= s /\ (k = l \/ k = l - 1)
              => k \in 0 .. s /\ w + l - k \in Nat /\ (w + l - k) + k = w + l
        OBVIOUS
      <4>3. unitsLeft' \in Nat
        BY <1>8, <2>5, <4>1
      <4>. QED
        BY <1>8, <2>5, <4>1, <4>2, <4>3
    <3>2. PlacesOK'
      BY <2>1, <2>5, <3>1 DEF RelocInv, PlacesOK
    <3>3. AttemptInv' /\ RotationInv'
      BY <2>1, <2>5 DEF RelocInv, AttemptInv, RotationInv
    <3>4. TurningInv'
      <4>1. Spent(attempt_id)' = Spent(attempt_id) /\ Spent(attempt_id) \in Nat
            /\ turned + unitsLeft <= Spent(attempt_id) + Reloc!Total[segment]
        BY <1>2, SpentFacts DEF RelocInv, TurningInv, Spent
      <4>. HIDE DEF Spent
      <4>2. turned' <= Spent(attempt_id) + Reloc!Total[segment]
            /\ turned' + unitsLeft' <= Spent(attempt_id) + Reloc!Total[segment]
        <5>1. unitsLeft' \in Nat
          BY <1>8, <3>1
        <5>4. \A w, l, v, k \in Nat : v + k = w + l => v <= w + l
          OBVIOUS
        <5>2. turned' <= turned + unitsLeft
          BY <1>8, <3>1, <5>1, <5>4
        <5>3. turned + unitsLeft \in Nat /\ Spent(attempt_id) + Reloc!Total[segment] \in Nat
          BY <1>3, <1>8, <4>1
        <5>. QED
          BY <3>1, <4>1, <5>2, <5>3
      <4>. QED
        BY <1>2, <4>1, <4>2 DEF TurningInv
    <3>. QED
      BY <1>1, <2>2, <3>2, <3>3, <3>4 DEF RelocInv
  <2>. QED
    BY <1>5, <2>4, <2>5 DEF Reloc!Rotate
<1>. QED
  BY <1>4, <1>5, RelocFacts

LEMMA ScanningKeeps ==
  ASSUME RelocAssumptions, RelocInv, NEW ev \in Reloc!Event, inbox' = "none",
  UNCHANGED takeover,
         \/ searchState = "ACTIVE_SCAN" /\ Reloc!ActiveScan(ev)
         \/ searchState = "WAITING_CANDIDATE" /\ Reloc!WaitingCandidate(ev)
  PROVE  RelocInv'
<1>0. searchState \in Searching
  BY DEF Searching
<1>1. CASE /\ Reloc!Fail /\ candidate' = Reloc!Taken
           /\ UNCHANGED <<requested, asked, verified, turned, steady>>
  BY <1>1, FailingKeeps
<1>2. CASE Reloc!JudgeCandidate(ev)
  BY <1>0, <1>2, JudgingKeeps
<1>3. CASE /\ searchState = "ACTIVE_SCAN" /\ Reloc!Taken = "none" /\ Reloc!Rotate(ev)
           /\ UNCHANGED <<attempt_id, Reloc!streaks, segment, verified, steady>>
  BY <1>3, RotatingKeeps
<1>4. CASE /\ Reloc!Taken = "none" /\ candidate' = "none" /\ requested' \in BOOLEAN
           /\ asked' \in BOOLEAN /\ searchState = "WAITING_CANDIDATE"
           /\ UNCHANGED <<searchState, attempt_id, Reloc!streaks, Reloc!motion, verified,
              turned, steady>>
  <2>1. Rests
    BY <1>4, RelocFacts DEF Rests, Reloc!motion
  <2>2. StreaksOK' /\ AnswersOK' /\ AnswerInv'
    BY <1>4
    DEF RelocInv, StreaksOK, Reloc!streaks, AnswersOK, AnswerInv, Reloc!RecoveredIsVerified
  <2>. QED
    BY <2>1, <2>2, RestingKeeps DEF RelocInv
<1>5. CASE searchState = "ACTIVE_SCAN" /\ Reloc!ActiveScan(ev)
  BY <1>1, <1>2, <1>3, <1>5 DEF Reloc!ActiveScan
<1>6. CASE searchState = "WAITING_CANDIDATE" /\ Reloc!WaitingCandidate(ev)
  <2>1. CASE /\ Reloc!Taken = "none"
             /\ IF ev.updated /\ ~ asked THEN Reloc!Request
                ELSE candidate' = Reloc!Taken /\ UNCHANGED <<requested, asked>>
             /\ UNCHANGED <<searchState, attempt_id, Reloc!streaks, Reloc!motion, verified,
                turned, steady>>
    BY <1>4, <1>6, <2>1, RelocFacts DEF Reloc!Request
  <2>. QED
    BY <1>1, <1>2, <1>6, <2>1 DEF Reloc!WaitingCandidate
<1>. QED
  BY <1>5, <1>6

LEMMA StoppingKeeps ==
  ASSUME RelocAssumptions, RelocInv, NEW ev \in Reloc!Event, searchState = "STOPPING",
  Reloc!Stopping(ev),
         inbox' = "none", UNCHANGED takeover
  PROVE  RelocInv'
<1>1. CASE /\ Reloc!Fail /\ candidate' = Reloc!Taken
           /\ UNCHANGED <<requested, asked, verified, turned, steady>>
  BY <1>1, FailingKeeps
<1>2. CASE /\ candidate' = Reloc!Taken
           /\ UNCHANGED <<searchState, attempt_id, Reloc!streaks, Reloc!motion, requested,
              asked,
                          verified, turned, steady>>
  <2>1. Rests /\ Listens
    BY <1>2, RelocFacts DEF Rests, Listens, Reloc!motion, RelocInv, AttemptInv
  <2>. QED
    BY <1>2, <2>1, QuietStep
<1>3. CASE Reloc!BeginAttempt
  BY <1>3, BeginningKeeps
<1>. QED
  BY <1>1, <1>2, <1>3 DEF Reloc!Stopping

LEMMA TriggeringKeeps ==
  ASSUME RelocAssumptions, RelocInv, NEW ev \in [health : Reloc!Assessments],
         searchState \in {"NORMAL", "SUSPECTED"}, Reloc!UpdateTriggerState(ev),
         inbox' = "none", UNCHANGED takeover
  PROVE  RelocInv'
<1>1. /\ UNCHANGED <<attempt_id, Reloc!motion, requested, asked, verified, turned, steady>>
      /\ candidate' = Reloc!Taken
  BY DEF Reloc!UpdateTriggerState
<1>2. searchState' \in {"NORMAL", "SUSPECTED", "TRIGGERED"}
  BY DEF Reloc!UpdateTriggerState
<1>3. Rests /\ Listens
  BY <1>1, <1>2, RelocFacts DEF Rests, Listens, Reloc!motion, Reloc!States, Searching
<1>4. /\ \A n \in {SuspectSamples, TriggerSamples, HealthyRecoverySamples} :
              n \in Nat /\ n >= 1
      /\ bad \in 0 .. SuspectSamples /\ trigger \in 0 .. TriggerSamples
      /\ healthy \in 0 .. HealthyRecoverySamples
  BY DEF RelocAssumptions, RelocInv, StreaksOK
<1>5. bad' \in 0 .. SuspectSamples
  BY <1>4 DEF Reloc!UpdateTriggerState, Reloc!CapTo
<1>6. trigger' \in 0 .. TriggerSamples
  BY <1>4 DEF Reloc!UpdateTriggerState, Reloc!CapTo
<1>7. healthy' \in 0 .. HealthyRecoverySamples
  BY <1>4 DEF Reloc!UpdateTriggerState, Reloc!CapTo
<1>. QED
  BY <1>3, <1>5, <1>6, <1>7, RestingKeeps, ListeningKeeps DEF RelocInv, StreaksOK

LEMMA RelocStep ==
  ASSUME RelocAssumptions, RelocInv, [Reloc!Next]_Reloc!vars
  PROVE  RelocInv' /\ (takeover => turned' = turned)
<1>0. /\ UNCHANGED <<attempt_id, Reloc!streaks, Reloc!motion, requested, asked, verified,
         turned, steady>>
      /\ candidate' = Reloc!Taken /\ inbox' = "none" /\ takeover' \in BOOLEAN
      /\ searchState' \in Reloc!States \ {"ACTIVE_SCAN", "VERIFYING", "WAITING_CANDIDATE"}
      /\ searchState' = "STOPPING" => attempt_id < MaxAttempts
      /\ searchState' \in {"NORMAL", "SUSPECTED", "TRIGGERED"} => searchState' = searchState
      /\ searchState' = "RECOVERED" => searchState' = searchState
      => RelocInv'
  <2>1. SUFFICES
          ASSUME UNCHANGED <<attempt_id, Reloc!streaks, Reloc!motion, requested, asked,
          verified, turned,
                             steady>>,
                 candidate' = Reloc!Taken, inbox' = "none", takeover' \in BOOLEAN,
                 searchState' \in Reloc!States \ {"ACTIVE_SCAN", "VERIFYING",
                 "WAITING_CANDIDATE"},
                 searchState' = "STOPPING" => attempt_id < MaxAttempts,
                 searchState' \in {"NORMAL", "SUSPECTED", "TRIGGERED"}
                   => searchState' = searchState,
                 searchState' = "RECOVERED" => searchState' = searchState
          PROVE  RelocInv'
    BY Zenon
  <2>2. Rests
    BY <2>1, RelocFacts DEF Rests, Reloc!motion, Searching
  <2>3. StreaksOK' /\ AnswersOK' /\ AnswerInv'
    BY <2>1, RelocFacts
    DEF RelocInv, StreaksOK, Reloc!streaks, AnswersOK, AnswerInv,
       Reloc!RecoveredIsVerified, Reloc!Taken
  <2>. QED
    BY <2>2, <2>3, RestingKeeps DEF RelocInv
<1>1. CASE Reloc!Tick /\ takeover
  <2>1. searchState' = "MANUAL_REQUIRED" /\ inbox' = "none" /\ UNCHANGED <<takeover, turned>>
    BY <1>1 DEF Reloc!Tick
  <2>2. RelocInv'
    BY <1>0, <1>1, <2>1, RelocFacts DEF Reloc!Tick, Reloc!States
  <2>. QED
    BY <2>1, <2>2
<1>2. CASE Reloc!OnManualTakeover
  <2>1. RelocInv'
    BY <1>0, <1>2 DEF Reloc!OnManualTakeover, Reloc!States
  <2>. QED
    BY <1>2, <2>1 DEF Reloc!OnManualTakeover
<1>3. CASE Reloc!OnMatchQuality
  <2>1. UNCHANGED <<searchState, attempt_id, Reloc!streaks, Reloc!motion, Reloc!answers,
        takeover, turned, steady>>
        /\ inbox' \in {"none", "good", "bad"}
    BY <1>3 DEF Reloc!OnMatchQuality
  <2>2. Rests
    BY <2>1, RelocFacts DEF Rests, Reloc!motion, RelocInv, AttemptInv
  <2>3. StreaksOK' /\ AnswersOK' /\ AnswerInv'
    BY <2>1
    DEF RelocInv, StreaksOK, Reloc!streaks, AnswersOK, AnswerInv,
       Reloc!RecoveredIsVerified, Reloc!answers
  <2>. QED
    BY <2>1, <2>2, <2>3, RestingKeeps DEF RelocInv
<1>4. CASE UNCHANGED Reloc!vars
  <2>1. UNCHANGED <<searchState, attempt_id, Reloc!streaks, Reloc!motion, Reloc!answers,
        inbox, takeover, turned, steady>>
    BY <1>4 DEF Reloc!vars
  <2>2. Rests
    BY <2>1, RelocFacts DEF Rests, Reloc!motion, RelocInv, AttemptInv
  <2>3. StreaksOK' /\ AnswersOK' /\ AnswerInv'
    BY <2>1
    DEF RelocInv, StreaksOK, Reloc!streaks, AnswersOK, AnswerInv,
       Reloc!RecoveredIsVerified, Reloc!answers
  <2>. QED
    BY <2>1, <2>2, <2>3, RestingKeeps DEF RelocInv
<1>5. CASE Reloc!Tick /\ ~ takeover
  <2>1. inbox' = "none" /\ UNCHANGED takeover
    BY <1>5 DEF Reloc!Tick
  <2>2. ASSUME NEW ev \in [health : Reloc!Assessments], searchState \in {"NORMAL", "SUSPECTED"},
               Reloc!UpdateTriggerState(ev)
        PROVE  RelocInv'
    BY <2>1, <2>2, TriggeringKeeps
  <2>3. ASSUME searchState = "TRIGGERED", Reloc!Triggered PROVE RelocInv'
    <3>1. attempt_id < MaxAttempts
      BY <2>3, RelocFacts DEF RelocInv, AttemptInv
    <3>. QED
      BY <1>0, <2>1, <2>3, <3>1, RelocFacts DEF Reloc!Triggered, Reloc!States
  <2>4. ASSUME NEW ev \in Reloc!Event, searchState = "STOPPING", Reloc!Stopping(ev)
      PROVE RelocInv'
    BY <2>1, <2>4, StoppingKeeps
  <2>5. ASSUME NEW ev \in Reloc!Event,
               \/ searchState = "ACTIVE_SCAN" /\ Reloc!ActiveScan(ev)
               \/ searchState = "WAITING_CANDIDATE" /\ Reloc!WaitingCandidate(ev)
        PROVE  RelocInv'
    BY <2>1, <2>5, ScanningKeeps
  <2>6. ASSUME NEW ev \in Reloc!Event, searchState = "VERIFYING", Reloc!Verifying(ev)
      PROVE RelocInv'
    BY <2>1, <2>6, VerifyingKeeps
  <2>7. ASSUME searchState = "FAILED", Reloc!Failed PROVE RelocInv'
    BY <1>0, <2>1, <2>7, RelocFacts DEF Reloc!Failed, Reloc!States
  <2>8. ASSUME searchState \in {"RECOVERED", "MANUAL_REQUIRED"}, Reloc!Stay PROVE RelocInv'
    BY <1>0, <2>1, <2>8, RelocFacts DEF Reloc!Stay, Reloc!States
  <2>9. RelocInv'
    BY <1>5, <2>2, <2>3, <2>4, <2>5, <2>6, <2>7, <2>8 DEF Reloc!Tick
  <2>. QED
    BY <1>5, <2>9
<1>. QED
  BY <1>1, <1>2, <1>3, <1>4, <1>5 DEF Reloc!Next

LEMMA RelocInit == ASSUME RelocAssumptions, Reloc!Init PROVE RelocInv
<1>1. /\ MaxAttempts \in Nat /\ MaxAttempts >= 1 /\ VerificationSamples \in Nat
      /\ SuspectSamples \in Nat /\ TriggerSamples \in Nat /\ HealthyRecoverySamples \in Nat
      /\ Len(Segments) \in Nat /\ Reloc!SumOfSegments \in Nat
  BY SumFacts DEF RelocAssumptions
<1>2. \A n \in Nat : 0 \in 0 .. n
  OBVIOUS
<1>3. StreaksOK /\ PlacesOK
  BY <1>1, <1>2 DEF Reloc!Init, StreaksOK, PlacesOK, Reloc!States
<1>4. AnswersOK
  BY <1>1, <1>2 DEF Reloc!Init, AnswersOK
<1>5. AttemptInv /\ TurningInv /\ RotationInv /\ AnswerInv
  BY <1>1 DEF Reloc!Init, AttemptInv, TurningInv, RotationInv, AnswerInv, Searching,
     Reloc!RecoveredIsVerified
<1>. QED
  BY <1>3, <1>4, <1>5 DEF RelocInv

\* In its whole life the relocalization turns the robot by no more than MaxAttempts
\* times its segments, never after a takeover, and it calls the robot recovered only
\* after VerificationSamples good samples in a row since the request that was answered
\* (ActiveRelocalizationController.process), for any segments and thresholds.
THEOREM SearchesAreBounded ==
  ASSUME RelocAssumptions
  PROVE  Reloc!Spec => [](Reloc!TypeOK /\ Reloc!RecoveredIsVerified) /\ Reloc!TurningIsBounded
<1>1. RelocInv => Reloc!TypeOK /\ Reloc!RecoveredIsVerified
  BY RelocTypes DEF RelocInv, AnswerInv
<1>2. Reloc!Init => RelocInv
  BY RelocInit
<1>3. RelocInv /\ [Reloc!Next]_Reloc!vars => RelocInv' /\ (takeover => turned' = turned)
  BY RelocStep
<1>4. Reloc!TypeOK' /\ (takeover => turned' = turned) => Reloc!TurningIsBoundedStep
  <2>1. MaxAttempts \in Nat /\ Reloc!SumOfSegments \in Nat
    BY SumFacts DEF RelocAssumptions
  <2>2. \A m, s \in Nat : m * s \in Nat
    OBVIOUS
  <2>3. MaxAttempts * Reloc!SumOfSegments \in Nat
    BY <2>1, <2>2
  <2>4. turned' \in 0 .. MaxAttempts * Reloc!SumOfSegments
          => turned' <= MaxAttempts * Reloc!SumOfSegments
    BY <2>3
  <2>. QED
    BY <2>4 DEF Reloc!TypeOK, Reloc!TurningIsBoundedStep
<1>. QED
  BY <1>1, <1>2, <1>3, <1>4, PTL DEF Reloc!Spec, Reloc!TurningIsBounded

-----------------------------------------------------------------------------
(* The receiver.  The count of a recovery is one of good fixes in a row.           *)

\* The bounds are numbers, and trust has to be won back by a good fix at least.
GnssAssumptions ==
  /\ Span \in Nat /\ MaxJump \in Nat /\ MaxSpeed \in Nat \ {0} /\ StatusTimeout \in Nat
  /\ RecoveryGoodSamples \in Nat \ {0}

\* Only what is held is passed on, and the good fixes counted since a rejection
\* came in a row.
GnssInv ==
  /\ Gnss!TypeOK
  /\ passed => gateState \in {"GOOD", "DEGRADED"}
  /\ gateState = "RECOVERING" => recovery_count <= streak

-----------------------------------------------------------------------------
LEMMA FixKeeps ==
  ASSUME GnssAssumptions, GnssInv, NEW p \in 0 .. Span, NEW fixed \in BOOLEAN,
         Gnss!OnFix(p, fixed)
  PROVE  GnssInv' /\ Gnss!TrustIsWonBackStep
<1>. DEFINE grade == Gnss!Grade(p, fixed)
            n == RecoveryGoodSamples
<1>1. grade \in {"hard", "degraded", "good"}
  BY DEF Gnss!Grade
<1>2. /\ IF gateState \in {"REJECTED", "RECOVERING"} THEN Gnss!Recover(grade)
           ELSE Gnss!Judge(grade)
      /\ passed' = (gateState' \in {"GOOD", "DEGRADED"})
      /\ IF grade = "hard" THEN UNCHANGED <<trusted, gap>>
         ELSE trusted' = {p} /\ gap' = 0
      /\ streak' = IF grade = "good" THEN Gnss!CountUp(streak) ELSE 0
      /\ UNCHANGED <<fixStatus, statusAge>>
  BY DEF Gnss!OnFix
<1>. HIDE DEF grade
<1>3. n \in Nat /\ n > 0 /\ recovery_count \in 0 .. n /\ streak \in 0 .. n
  BY DEF GnssAssumptions, GnssInv, Gnss!TypeOK
<1>4. streak' \in 0 .. n
  BY <1>2, <1>3 DEF Gnss!CountUp
<1>5. trusted' \in {{}} \cup {{q} : q \in 0 .. Span} /\ gap' \in 0 .. Gnss!MaxGap
  <2>1. trusted \in {{}} \cup {{q} : q \in 0 .. Span} /\ gap \in 0 .. Gnss!MaxGap
    BY DEF GnssInv, Gnss!TypeOK
  <2>2. Gnss!MaxGap \in Nat
    BY DEF GnssAssumptions, Gnss!MaxGap
  <2>. QED
    BY <1>2, <2>1, <2>2
<1>6. CASE gateState \in {"REJECTED", "RECOVERING"}
  <2>1. Gnss!Recover(grade)
    BY <1>2, <1>6
  <2>2. /\ recovery_count' \in 0 .. n
        /\ gateState' \in {"REJECTED", "RECOVERING", "GOOD"}
        /\ gateState' = "RECOVERING" => recovery_count' <= streak'
        /\ gateState' = "GOOD" => streak' = n
    <3>1. CASE grade = "hard" \/ grade = "degraded"
      BY <1>2, <1>3, <2>1, <3>1 DEF Gnss!Recover
    <3>2. CASE grade = "good" /\ gateState = "REJECTED"
      <4>1. streak' >= 1
        BY <1>2, <1>3, <3>2 DEF Gnss!CountUp
      <4>2. recovery_count' = 1 /\ gateState' = IF 1 >= n THEN "GOOD" ELSE "RECOVERING"
        BY <2>1, <3>2 DEF Gnss!Recover
      <4>. QED
        BY <1>3, <1>4, <4>1, <4>2
    <3>3. CASE grade = "good" /\ gateState = "RECOVERING"
      <4>1. recovery_count <= streak
        BY <3>3 DEF GnssInv
      <4>2. /\ recovery_count' = Gnss!CountUp(recovery_count)
            /\ gateState' = IF Gnss!CountUp(recovery_count) >= n THEN "GOOD" ELSE "RECOVERING"
            /\ streak' = Gnss!CountUp(streak)
        BY <1>2, <2>1, <3>3 DEF Gnss!Recover
      <4>. QED
        BY <1>3, <4>1, <4>2 DEF Gnss!CountUp
    <3>. QED
      BY <1>1, <1>6, <3>1, <3>2, <3>3
  <2>3. passed' => gateState' = "GOOD"
    BY <1>2, <2>2
  <2>4. Gnss!TypeOK'
    BY <1>2, <1>4, <1>5, <2>2 DEF GnssInv, Gnss!TypeOK
  <2>5. Gnss!TrustIsWonBackStep
    BY <1>3, <2>2, <2>3 DEF Gnss!TrustIsWonBackStep
  <2>. QED
    BY <2>2, <2>3, <2>4, <2>5 DEF GnssInv
<1>7. CASE gateState \notin {"REJECTED", "RECOVERING"}
  <2>1. Gnss!Judge(grade)
    BY <1>2, <1>7
  <2>2. recovery_count' \in 0 .. n /\ gateState' \in {"REJECTED", "DEGRADED", "GOOD"}
    BY <1>1, <1>3, <2>1 DEF Gnss!Judge
  <2>3. Gnss!TypeOK'
    BY <1>2, <1>4, <1>5, <2>2 DEF GnssInv, Gnss!TypeOK
  <2>. QED
    BY <1>2, <1>7, <2>2, <2>3 DEF GnssInv, Gnss!TrustIsWonBackStep
<1>. QED
  BY <1>6, <1>7

LEMMA GnssStep ==
  ASSUME GnssAssumptions, GnssInv, [Gnss!Next]_Gnss!vars
  PROVE  GnssInv' /\ [Gnss!TrustIsWonBackStep]_Gnss!vars
<1>1. ASSUME NEW p \in 0 .. Span, NEW fixed \in BOOLEAN, Gnss!OnFix(p, fixed)
      PROVE  GnssInv' /\ [Gnss!TrustIsWonBackStep]_Gnss!vars
  BY <1>1, FixKeeps
<1>2. CASE Gnss!OnStatus \/ Gnss!Time
  <2>1. Gnss!MaxGap \in Nat /\ StatusTimeout \in Nat
    BY DEF GnssAssumptions, Gnss!MaxGap
  <2>2. UNCHANGED <<gateState, recovery_count, trusted, passed, streak>>
    BY <1>2 DEF Gnss!OnStatus, Gnss!Time
  <2>3. gap' \in 0 .. Gnss!MaxGap /\ statusAge' \in 0 .. StatusTimeout + 1
        /\ fixStatus' \in {"none", "good", "weak", "bad"}
    BY <1>2, <2>1 DEF Gnss!OnStatus, Gnss!Time, GnssInv, Gnss!TypeOK
  <2>. QED
    BY <2>2, <2>3 DEF GnssInv, Gnss!TypeOK, Gnss!TrustIsWonBackStep
<1>3. CASE UNCHANGED Gnss!vars
  BY <1>3 DEF Gnss!vars, GnssInv, Gnss!TypeOK
<1>. QED
  BY <1>1, <1>2, <1>3 DEF Gnss!Next

LEMMA GnssInitInv == ASSUME GnssAssumptions, Gnss!Init PROVE GnssInv
<1>1. Gnss!MaxGap \in Nat
  BY DEF GnssAssumptions, Gnss!MaxGap
<1>2. RecoveryGoodSamples \in Nat /\ StatusTimeout \in Nat
  BY DEF GnssAssumptions
<1>3. /\ gateState = "INITIAL" /\ recovery_count = 0 /\ trusted = {} /\ gap = 0
      /\ fixStatus = "none" /\ statusAge = 0 /\ passed = FALSE /\ streak = 0
  BY DEF Gnss!Init
<1>4. 0 \in 0 .. Gnss!MaxGap /\ 0 \in 0 .. StatusTimeout + 1 /\ 0 \in 0 .. RecoveryGoodSamples
  BY <1>1, <1>2
<1>5. Gnss!TypeOK
  BY <1>3, <1>4 DEF Gnss!TypeOK
<1>. QED
  BY <1>3, <1>5 DEF GnssInv

\* A receiver that was rejected is trusted again only after RecoveryGoodSamples good
\* fixes in a row (the GNSS gate), for any jumps, speeds and thresholds.
THEOREM TrustIsAlwaysWonBack ==
  ASSUME GnssAssumptions
  PROVE  Gnss!Spec => []Gnss!TypeOK /\ Gnss!TrustIsWonBack
<1>1. GnssInv => Gnss!TypeOK
  BY DEF GnssInv
<1>2. GnssInv /\ [Gnss!Next]_Gnss!vars => GnssInv' /\ [Gnss!TrustIsWonBackStep]_Gnss!vars
  BY GnssStep
<1>. QED
  BY GnssInitInv, <1>1, <1>2, PTL DEF Gnss!Spec, Gnss!TrustIsWonBack

-----------------------------------------------------------------------------
(* The health.  A tick that passes a silence over would have to find every source  *)
(* fresh.                                                                         *)

\* The time-out is a number of ticks, and what is required is a source.
HealthAssumptions == Timeout \in Nat /\ Required \subseteq Health!Sources

HealthInv == Health!TypeOK /\ Health!SilenceIsNoticed

-----------------------------------------------------------------------------
LEMMA HealthTypes ==
  ASSUME HealthAssumptions, Health!TypeOK
  PROVE  /\ Health!Silent = Timeout + 2 /\ Health!Never = Timeout + 3 /\ Timeout \in Nat
         /\ \A s \in Health!Sources : sampleAge[s] \in 0 .. Health!Never
BY DEF HealthAssumptions, Health!TypeOK, Health!Silent, Health!Never

LEMMA HearingKeeps ==
  ASSUME HealthAssumptions, HealthInv, NEW s \in Health!Sources, Health!Heard(s),
  UNCHANGED overall,
         quality' \in [Quality -> {"GOOD", "DEGRADED", "REJECTED", "UNKNOWN"}],
         amcl' \in {"none", "GOOD", "REJECTED"}, reloc' \in Health!Relocalizations
  PROVE  HealthInv'
<1>1. /\ sampleAge \in [Health!Sources -> 0 .. Health!Never] /\ Health!Silent \in Nat
      /\ Health!Never \in Nat /\ Health!Silent # 0
  BY HealthTypes DEF HealthInv, Health!TypeOK, HealthAssumptions, Health!Silent,
     Health!Never
<1>2. sampleAge' \in [Health!Sources -> 0 .. Health!Never]
  BY <1>1 DEF Health!Heard
<1>3. \A r : sampleAge'[r] = Health!Silent => r # s
  BY <1>1 DEF Health!Heard
<1>4. \A r \in Health!Sources : r # s => sampleAge'[r] = sampleAge[r]
  BY <1>1 DEF Health!Heard
<1>5. Health!TypeOK'
  BY <1>2 DEF HealthInv, Health!TypeOK
<1>6. \A r \in Health!Sources : sampleAge'[r] = Health!Silent => sampleAge[r] = Health!Silent
  BY <1>3, <1>4
<1>. QED
  <2>1. Required \cup {"amcl", "relocalization"} \subseteq Health!Sources
    BY DEF HealthAssumptions, Health!Sources
  <2>. QED
    BY <1>5, <1>6, <2>1 DEF HealthInv, Health!SilenceIsNoticed

LEMMA TickNotices ==
  ASSUME HealthAssumptions, HealthInv, Health!Tick
  PROVE  HealthInv'
<1>1. sampleAge \in [Health!Sources -> 0 .. Health!Never] /\ Health!Silent \in Nat
        /\ Health!Never \in Nat
      /\ Health!Silent = Timeout + 2 /\ Health!Never = Timeout + 3 /\ Timeout \in Nat
  BY HealthTypes DEF HealthInv, Health!TypeOK, HealthAssumptions, Health!Silent,
     Health!Never
<1>2. sampleAge' = [s \in Health!Sources |-> IF sampleAge[s] < Health!Silent THEN sampleAge[s] + 1 ELSE sampleAge[s]]
  BY DEF Health!Tick
<1>3. sampleAge' \in [Health!Sources -> 0 .. Health!Never]
  BY <1>1, <1>2
<1>4. /\ overall' \in Health!Overalls /\ overall' = Health!Overall
      /\ UNCHANGED <<quality, amcl, reloc>>
  <2>1. overall' = Health!Overall /\ UNCHANGED <<quality, amcl, reloc>>
    BY DEF Health!Tick
  <2>. QED
    BY <2>1 DEF Health!Overall, Health!Overalls
<1>5. Health!TypeOK'
  BY <1>3, <1>4 DEF HealthInv, Health!TypeOK
<1>6. \A s \in Health!Sources : sampleAge'[s] = Health!Silent => Health!Stale(s)
  <2>1. ASSUME NEW s \in Health!Sources, sampleAge'[s] = Health!Silent PROVE Health!Stale(s)
    <3>1. sampleAge[s] \in 0 .. Health!Never
      BY <1>1
    <3>2. sampleAge[s] = Health!Silent \/ sampleAge[s] + 1 = Health!Silent
      BY <1>2, <2>1
    <3>. QED
      BY <1>1, <3>1, <3>2 DEF Health!Stale
  <2>. QED
    BY <2>1
<1>7. Health!Overall = "NOMINAL" => \A s \in Health!Sources : ~ Health!Stale(s)
  <2>. SUFFICES ASSUME Health!Overall = "NOMINAL", NEW s \in Health!Sources, Health!Stale(s)
      PROVE FALSE
    OBVIOUS
  <2>1. s \in Health!Reasons
    BY DEF Health!Reasons, Health!Shown
  <2>. QED
    BY <2>1 DEF Health!Overall
<1>8. Health!Overall = "RECOVERED" =>
        \A s \in Required \cup {"amcl", "relocalization"} : ~ Health!Stale(s)
  BY DEF Health!Overall
<1>9. Required \cup {"amcl", "relocalization"} \subseteq Health!Sources
  BY DEF HealthAssumptions, Health!Sources
<1>10. Health!SilenceIsNoticed'
  BY <1>4, <1>6, <1>7, <1>8, <1>9 DEF Health!SilenceIsNoticed, Health!Silent
<1>. QED
  BY <1>5, <1>10 DEF HealthInv

LEMMA HealthNextInv ==
  ASSUME HealthAssumptions, HealthInv, [Health!Next]_Health!vars
  PROVE  HealthInv'
<1>1. ASSUME NEW s \in Quality, NEW state \in {"GOOD", "DEGRADED", "REJECTED", "UNKNOWN"},
             Health!OnQuality(s, state)
      PROVE  HealthInv'
  BY <1>1, HearingKeeps DEF Health!OnQuality, HealthInv, Health!TypeOK, Health!Sources
<1>2. ASSUME NEW state \in Health!Relocalizations, Health!OnRelocalization(state)
    PROVE HealthInv'
  BY <1>2, HearingKeeps DEF Health!OnRelocalization, HealthInv, Health!TypeOK,
     Health!Sources
<1>3. ASSUME NEW state \in {"none", "GOOD", "REJECTED"}, Health!OnAmcl(state) PROVE HealthInv'
  BY <1>3, HearingKeeps DEF Health!OnAmcl, HealthInv, Health!TypeOK, Health!Sources
<1>4. ASSUME NEW s \in Plain, Health!OnPlain(s) PROVE HealthInv'
  BY <1>4, HearingKeeps DEF Health!OnPlain, HealthInv, Health!TypeOK, Health!Sources
<1>5. CASE Health!Tick
  BY <1>5, TickNotices
<1>6. CASE UNCHANGED Health!vars
  BY <1>6 DEF Health!vars, HealthInv, Health!TypeOK, Health!SilenceIsNoticed
<1>. QED
  BY <1>1, <1>2, <1>3, <1>4, <1>5, <1>6 DEF Health!Next

LEMMA HealthInitInv == ASSUME HealthAssumptions, Health!Init PROVE HealthInv
<1>1. Health!Never \in Nat
  BY DEF HealthAssumptions, Health!Never
<1>2. Health!TypeOK
  BY <1>1 DEF Health!Init, Health!TypeOK, Health!Relocalizations
<1>3. Health!SilenceIsNoticed
  BY DEF Health!Init, Health!SilenceIsNoticed
<1>. QED
  BY <1>2, <1>3 DEF HealthInv

\* The overall quality is not nominal while a required source, AMCL or the
\* relocalization has been silent for longer than the time-out and a tick, for any
\* sources and time-out (NavigationHealthNode).
THEOREM SilenceIsAlwaysNoticed ==
  ASSUME HealthAssumptions
  PROVE  Health!Spec => [](Health!TypeOK /\ Health!SilenceIsNoticed)
<1>1. HealthInv => Health!TypeOK /\ Health!SilenceIsNoticed
  BY DEF HealthInv
<1>2. HealthInv /\ [Health!Next]_Health!vars => HealthInv'
  BY HealthNextInv
<1>. QED
  BY HealthInitInv, <1>1, <1>2, PTL DEF Health!Spec

-----------------------------------------------------------------------------
(* The walls.  The metadata count the cells of the route they were drawn from      *)
(* (WallsInv), and the masks are of one drawing with them as long as no drawing    *)
(* was torn (DrawnTogether).                                                       *)

\* A map has a name of its own.
WallsAssumptions == "none" \notin Maps

\* What a generator has replaced is of its drawing; masks that none is replacing
\* are of the metadata's drawing unless the last was torn.
DrawnTogether ==
  LET replaced == IF step = "replace" THEN drawing.next - 1 ELSE 0
  IN /\ replaced = 0 => torn \/ (global = metadata.drawn_from /\ local = metadata.drawn_from)
     /\ replaced > 0 => global = drawing.source
     /\ replaced > 1 => local = drawing.source
     /\ replaced > 2 => metadata.drawn_from = drawing.source /\ torn = FALSE

\* The metadata count the cells of the route they were drawn from, a generator that
\* replaces files has read a route and a map, and a preparation that is not over has
\* no answer.
WallsInv ==
  /\ Walls!TypeOK
  /\ drawing = [source |-> drawing.source, next |-> drawing.next]
  /\ metadata.global_cells = Walls!Cells(metadata.drawn_from)
  /\ step = "replace" => drawing.source \in Walls!Sources
  /\ step # "idle" => reply = "none"
  /\ DrawnTogether

-----------------------------------------------------------------------------
LEMMA SoundMasksAreTheRoutes ==
  ASSUME WallsAssumptions, WallsInv, Walls!SetupOK, HardCells[route] > 0, step # "replace"
  PROVE  /\ global = local /\ global.map = map /\ Walls!Cells(global) = HardCells[route]
         /\ metadata.drawn_from = Walls!Here
         /\ torn \/ global = Walls!Here
<1>1. /\ global.map = map /\ metadata.drawn_from = Walls!Here
      /\ metadata.global_cells = Walls!Cells(global) /\ global = local
  BY DEF Walls!SetupOK
<1>2. Walls!Here # Walls!Nothing /\ Walls!Here.route = route
  BY DEF WallsInv, Walls!TypeOK, Walls!Here, Walls!Sources, Walls!Nothing, WallsAssumptions
<1>3. Walls!Cells(Walls!Here) = HardCells[route]
  BY <1>2 DEF Walls!Cells
<1>4. torn \/ global = metadata.drawn_from
  BY DEF WallsInv, DrawnTogether
<1>. QED
  BY <1>1, <1>3, <1>4 DEF WallsInv

LEMMA ReplaceKeeps ==
  ASSUME WallsAssumptions, WallsInv, Walls!Replace
  PROVE  WallsInv' /\ Walls!WallsAreTheRoutesStep
<1>1. /\ step = "replace" /\ drawing.source \in Walls!Sources /\ drawing.next \in 1 .. 3
      /\ drawing = [source |-> drawing.source, next |-> drawing.next]
      /\ reply = "none"
  BY DEF Walls!Replace, WallsInv, Walls!TypeOK
<1>2. drawing' = [source |-> drawing.source, next |-> drawing.next + 1]
  BY <1>1 DEF Walls!Replace
<1>3. UNCHANGED <<profile, route, map, step, mode, reply>>
  BY DEF Walls!Replace
<1>4. {global', local'} \subseteq Walls!Sources \cup {Walls!Nothing}
  BY <1>1 DEF Walls!Replace, WallsInv, Walls!TypeOK
<1>5. metadata'.drawn_from \in Walls!Sources \cup {Walls!Nothing}
      /\ metadata'.global_cells = Walls!Cells(metadata'.drawn_from)
  <2>1. CASE metadata' = metadata
    BY <2>1 DEF WallsInv, Walls!TypeOK
  <2>2. CASE metadata' = [drawn_from |-> drawing.source,
                          global_cells |-> HardCells[drawing.source.route],
                          local_cells |-> HardCells[drawing.source.route]]
    <3>1. drawing.source # Walls!Nothing
      BY <1>1 DEF Walls!Sources, Walls!Nothing, WallsAssumptions
    <3>. QED
      BY <1>1, <2>2, <3>1 DEF Walls!Cells
  <2>. QED
    BY <2>1, <2>2 DEF Walls!Replace
<1>6. drawing'.next \in 1 .. 4 /\ drawing'.source = drawing.source
  BY <1>1, <1>2
<1>7. (Walls!Here \in Walls!Sources)'
        /\ metadata'.drawn_from \in Walls!Sources \cup {Walls!Nothing}
  BY <1>3, <1>5 DEF WallsInv, Walls!TypeOK, Walls!Here
<1>11. torn' \in BOOLEAN
  BY DEF Walls!Replace, WallsInv, Walls!TypeOK
<1>8. Walls!TypeOK'
  BY <1>1, <1>3, <1>4, <1>6, <1>7, <1>11 DEF WallsInv, Walls!TypeOK, Walls!Here
<1>10. DrawnTogether'
  <2>1. CASE drawing.next = 1
    <3>1. global' = drawing.source /\ drawing'.next = 2
      BY <1>1, <1>2, <2>1 DEF Walls!Replace, Walls!Order
    <3>. QED
      BY <1>1, <1>3, <1>6, <3>1 DEF DrawnTogether
  <2>2. CASE drawing.next = 2
    <3>1. global' = global /\ local' = drawing.source /\ drawing'.next = 3
      BY <1>1, <1>2, <2>2 DEF Walls!Replace, Walls!Order
    <3>. QED
      BY <1>1, <1>3, <1>6, <2>2, <3>1 DEF DrawnTogether, WallsInv
  <2>3. CASE drawing.next = 3
    <3>1. /\ global' = global /\ local' = local /\ drawing'.next = 4
          /\ metadata'.drawn_from = drawing.source
      BY <1>1, <1>2, <2>3 DEF Walls!Replace, Walls!Order
    <3>2. torn' = FALSE
      <4>1. Walls!Order[drawing.next] = "metadata"
        BY <2>3 DEF Walls!Order
      <4>2. torn' = (Walls!Order[drawing.next] # "metadata" /\ torn)
        BY DEF Walls!Replace
      <4>. QED
        BY <4>1, <4>2
    <3>3. (IF step = "replace" THEN drawing.next - 1 ELSE 0) = 2
      BY <1>1, <2>3
    <3>4. global = drawing.source /\ local = drawing.source
      BY <3>3 DEF DrawnTogether, WallsInv
    <3>5. (IF step = "replace" THEN drawing.next - 1 ELSE 0)' = 3
      BY <1>1, <1>3, <3>1
    <3>. QED
      BY <1>6, <3>1, <3>2, <3>4, <3>5 DEF DrawnTogether
  <2>. QED
    BY <1>1, <2>1, <2>2, <2>3
<1>9. WallsInv'
  BY <1>1, <1>2, <1>3, <1>5, <1>6, <1>8, <1>10 DEF WallsInv, Walls!Cells
<1>. QED
  BY <1>1, <1>3, <1>9 DEF Walls!WallsAreTheRoutesStep

LEMMA WallsStep ==
  ASSUME WallsAssumptions, WallsInv, [Walls!Next]_Walls!vars
  PROVE  WallsInv' /\ [Walls!WallsAreTheRoutesStep]_Walls!vars
<1>1. CASE Walls!Replaced
  BY <1>1 DEF Walls!Replaced, Walls!files, WallsInv, DrawnTogether, Walls!TypeOK, Walls!Here,
     Walls!Sources, Walls!Cells, Walls!WallsAreTheRoutesStep
<1>2. CASE Walls!Prepare
  <2>1. step = "idle" /\ UNCHANGED <<profile, route, map, Walls!files, drawing, torn>>
    BY <1>2 DEF Walls!Prepare
  <2>2. /\ step' = "idle" \/ (step' = "safety" /\ reply' = "none")
        /\ reply' \in {"none", "refused"} /\ mode' \in {"normal", "keepout"}
    <3>1. CASE Walls!Answers("refused") /\ UNCHANGED mode
      BY <3>1 DEF Walls!Answers, WallsInv, Walls!TypeOK
    <3>2. CASE /\ mode' \in Walls!ModeFor(profile, HardCells[route] > 0)
               /\ step' = "safety" /\ reply' = "none"
      BY <3>2 DEF Walls!ModeFor, WallsInv, Walls!TypeOK
    <3>. QED
      BY <1>2, <3>1, <3>2 DEF Walls!Prepare
  <2>. QED
    BY <2>1, <2>2 DEF Walls!files, WallsInv, DrawnTogether, Walls!TypeOK, Walls!Here, Walls!Cells,
       Walls!WallsAreTheRoutesStep
<1>3. CASE Walls!RouteSafety
  <2>1. step = "safety" /\ UNCHANGED <<profile, route, map, Walls!files, mode, drawing, torn>>
    BY <1>3 DEF Walls!RouteSafety
  <2>2. \/ step' = "idle" /\ reply' = "refused"
        \/ step' = "idle" /\ reply' = "ready" /\ mode = "normal"
        \/ step' = "check" /\ reply' = reply
    BY <1>3 DEF Walls!RouteSafety, Walls!Answers
  <2>. QED
    BY <2>1, <2>2 DEF Walls!files, WallsInv, DrawnTogether, Walls!TypeOK, Walls!Here, Walls!Cells,
       Walls!WallsAreTheRoutesStep
<1>4. CASE Walls!CheckSetup \/ Walls!CheckAgain
  <2>1. /\ step \in {"check", "checkAgain"}
        /\ UNCHANGED <<profile, route, map, Walls!files, mode, drawing, torn>>
    BY <1>4 DEF Walls!CheckSetup, Walls!CheckAgain
  <2>2. \/ Walls!SetupOK /\ step' = "idle" /\ reply' = "ready"
        \/ step' = "draw" /\ reply' = reply
        \/ step' = "idle" /\ reply' = "refused"
    BY <1>4 DEF Walls!CheckSetup, Walls!CheckAgain, Walls!Answers
  <2>3. WallsInv'
    BY <2>1, <2>2 DEF Walls!files, WallsInv, DrawnTogether, Walls!TypeOK, Walls!Here, Walls!Cells
  <2>4. reply = "none"
    BY <2>1 DEF WallsInv
  <2>5. Walls!WallsAreTheRoutesStep
    BY <2>1, <2>2, <2>4, SoundMasksAreTheRoutes DEF Walls!WallsAreTheRoutesStep
  <2>. QED
    BY <2>3, <2>5
<1>5. CASE Walls!Draw
  <2>1. step = "draw" /\ UNCHANGED <<profile, route, map, Walls!files, mode, torn>>
    BY <1>5 DEF Walls!Draw
  <2>2. \/ drawing' = [source |-> Walls!Here, next |-> 1] /\ step' = "replace" /\ reply' = reply
        \/ step' = "idle" /\ reply' = "refused" /\ drawing' = drawing
    BY <1>5 DEF Walls!Draw, Walls!Answers
  <2>3. Walls!Here \in Walls!Sources
    BY DEF WallsInv, Walls!TypeOK
  <2>. QED
    BY <2>1, <2>2, <2>3 DEF Walls!files, WallsInv, DrawnTogether, Walls!TypeOK, Walls!Here, Walls!Cells,
       Walls!WallsAreTheRoutesStep
<1>6. CASE Walls!Replace
  BY <1>6, ReplaceKeeps
<1>7. CASE Walls!Drawn
  <2>1. /\ step = "replace" /\ UNCHANGED <<profile, route, map, Walls!files, mode>>
        /\ drawing' = [source |-> Walls!Nothing, next |-> 1]
        /\ torn' = (torn \/ drawing.next \in 2 .. 3)
    BY <1>7 DEF Walls!Drawn
  <2>3. drawing.next \in 1 .. 4
    BY DEF WallsInv, Walls!TypeOK
  <2>4. torn' \in BOOLEAN /\ DrawnTogether'
    <3>1. step' # "replace"
      BY <1>7 DEF Walls!Drawn, Walls!Answers
    <3>2. torn' \/ (global = metadata.drawn_from /\ local = metadata.drawn_from)
      <4>1. CASE drawing.next \in 2 .. 3
        BY <2>1, <4>1
      <4>2. CASE drawing.next = 1
        <5>1. (IF step = "replace" THEN drawing.next - 1 ELSE 0) = 0
          BY <2>1, <4>2
        <5>2. torn \/ (global = metadata.drawn_from /\ local = metadata.drawn_from)
          BY <5>1 DEF WallsInv, DrawnTogether
        <5>. QED
          BY <2>1, <5>2
      <4>3. CASE drawing.next = 4
        <5>1. (IF step = "replace" THEN drawing.next - 1 ELSE 0) = 3
          BY <2>1, <4>3
        <5>. QED
          BY <5>1 DEF WallsInv, DrawnTogether
      <4>. QED
        BY <2>3, <4>1, <4>2, <4>3
    <3>3. torn' \in BOOLEAN
      BY <2>1
    <3>. QED
      BY <2>1, <3>1, <3>2, <3>3 DEF DrawnTogether, Walls!files
  <2>2. \/ step' = "checkAgain" /\ reply' = reply
        \/ step' = "idle" /\ reply' = "refused"
    BY <1>7 DEF Walls!Drawn, Walls!Answers
  <2>. QED
    BY <2>1, <2>2, <2>4 DEF Walls!files, WallsInv, Walls!TypeOK, Walls!Here, Walls!Cells,
       Walls!WallsAreTheRoutesStep
<1>8. CASE UNCHANGED Walls!vars
  BY <1>8 DEF Walls!vars, Walls!files, WallsInv, DrawnTogether, Walls!TypeOK, Walls!Here, Walls!Cells
<1>. QED
  BY <1>1, <1>2, <1>3, <1>4, <1>5, <1>6, <1>7, <1>8 DEF Walls!Next

LEMMA WallsInitInv == ASSUME WallsAssumptions, Walls!Init PROVE WallsInv
<1>1. /\ step = "idle" /\ global = Walls!Nothing /\ local = Walls!Nothing
      /\ metadata = [drawn_from |-> Walls!Nothing, global_cells |-> 0, local_cells |-> 0]
      /\ drawing = [source |-> Walls!Nothing, next |-> 1]
  BY DEF Walls!Init
<1>2. DrawnTogether
  <2>1. (IF step = "replace" THEN drawing.next - 1 ELSE 0) = 0
    BY <1>1
  <2>2. global = metadata.drawn_from /\ local = metadata.drawn_from
    BY <1>1
  <2>. QED
    BY <2>1, <2>2 DEF DrawnTogether
<1>3. Walls!TypeOK
  <2>1. Walls!Here \in Walls!Sources
    BY DEF Walls!Init, Walls!Here, Walls!Sources
  <2>2. {global, local} \subseteq Walls!Sources \cup {Walls!Nothing}
    BY <1>1
  <2>3. metadata.drawn_from = Walls!Nothing /\ drawing.source = Walls!Nothing
        /\ drawing.next \in 1 .. 4
    BY <1>1
  <2>4. /\ profile \in {"auto", "normal", "keepout"} /\ mode = "normal" /\ reply = "none"
        /\ torn \in BOOLEAN
    BY DEF Walls!Init
  <2>. QED
    BY <1>1, <2>1, <2>2, <2>3, <2>4 DEF Walls!TypeOK
<1>. QED
  BY <1>1, <1>2, <1>3 DEF WallsInv, Walls!Cells

\* Navigation that starts with virtual walls has masks that are alike, as large as the
\* map's and of as many cells as the route's walls cover, with metadata of this route
\* and map, and the walls are the route's own unless the last drawing was torn: for any
\* routes, also those whose walls cover equally many cells (check_keepout_setup.py,
\* generate_keepout_mask.py).
THEOREM WallsAreAlwaysTheRoutes ==
  ASSUME WallsAssumptions
  PROVE  Walls!Spec => []Walls!TypeOK /\ Walls!WallsAreTheRoutes
<1>1. WallsInv => Walls!TypeOK
  BY DEF WallsInv
<1>2. WallsInv /\ [Walls!Next]_Walls!vars => WallsInv'
        /\ [Walls!WallsAreTheRoutesStep]_Walls!vars
  BY WallsStep
<1>. QED
  BY WallsInitInv, <1>1, <1>2, PTL DEF Walls!Spec, Walls!WallsAreTheRoutes

-----------------------------------------------------------------------------
(* The recording.  A result stands for the recording last begun (RecordingInv).     *)

\* No thread is called 0, which is nobody.
CaptureAssumptions == MaxSessions \in Nat /\ 0 \notin CaptureThreads

\* A result stands for the recording last begun, which has left its loop with its
\* files written; and the camera has one user.
RecordingInv ==
  /\ capture # "off" \/ recordingStatus = "succeeded" => begun >= 1
  /\ recordingStatus = "succeeded" => /\ capture \in {"exit", "off"}
                                      /\ sessions[begun] \in {"complete", "trash", "hollow"}
  /\ capture = "off" \/ build = "off"

\* The threads and the lock.
OpsType == [op : {"none", "start", "stop", "build"}, arg : 0 .. MaxSessions,
            at : {"idle", "lock", "wait"}]
OpsOK == ops \in [CaptureThreads -> OpsType] /\ lock \in CaptureThreads \cup {0}

\* The recording node's part of the types.
RecorderOK ==
  /\ recordingStatus \in {"none", "recording", "failed", "succeeded"}
  /\ capture \in {"off", "open", "record", "save", "exit"} /\ halt \in BOOLEAN
  /\ sessions \in [Capture!Ids -> {"none", "recording", "partial", "complete", "trash",
     "hollow"}]
  /\ begun \in 0 .. MaxSessions /\ latest \in 0 .. MaxSessions
BuilderOK == build \in {"off", "resolve", "read"} /\ source \in 0 .. MaxSessions

CaptureInv ==
  /\ OpsOK /\ RecorderOK /\ BuilderOK /\ stopping \in BOOLEAN /\ busy \in BOOLEAN
  /\ answer \in {"none", "saved", "killed", "failed"}
  /\ RecordingInv

-----------------------------------------------------------------------------
LEMMA NewestIsASession ==
  ASSUME CaptureAssumptions, NEW ss
  PROVE  Capture!Newest(ss) \in 0 .. MaxSessions
<1>. DEFINE H == Capture!HasFile(ss)
            back == {n \in 0 .. MaxSessions : MaxSessions - n \in H}
<1>1. MaxSessions \in Nat /\ H \subseteq 1 .. MaxSessions
  BY DEF CaptureAssumptions, Capture!HasFile, Capture!Ids
<1>2. CASE H = {}
  BY <1>1, <1>2 DEF Capture!Newest
<1>3. CASE H # {}
  <2>. HIDE DEF H
  <2>1. back # {} /\ back \in SUBSET Nat
    <3>1. PICK s \in H : TRUE
      BY <1>3
    <3>2. s \in 1 .. MaxSessions /\ MaxSessions - s \in 0 .. MaxSessions
          /\ MaxSessions - (MaxSessions - s) = s
      BY <1>1, <3>1
    <3>3. MaxSessions - s \in back
      BY <3>1, <3>2
    <3>. QED
      BY <1>1, <3>3
  <2>2. PICK n \in back : \A m \in back : n <= m
    <3>. HIDE DEF back
    <3>. QED
      BY <2>1, SmallestOf
  <2>3. n \in 0 .. MaxSessions /\ MaxSessions - n \in H
    OBVIOUS
  <2>4. ASSUME NEW x \in H PROVE x <= MaxSessions - n
    <3>1. x \in 1 .. MaxSessions /\ MaxSessions - x \in 0 .. MaxSessions
          /\ MaxSessions - (MaxSessions - x) = x
      BY <1>1
    <3>2. n <= MaxSessions - x
      BY <2>2, <3>1
    <3>. QED
      BY <1>1, <2>3, <3>1, <3>2
  <2>5. \E s \in H : \A x \in H : x <= s
    BY <2>3, <2>4
  <2>6. (CHOOSE s \in H : \A x \in H : x <= s) \in H
    BY <2>5, Zenon
  <2>7. Capture!Newest(ss) = CHOOSE s \in H : \A x \in H : x <= s
    BY <1>3 DEF Capture!Newest, H
  <2>8. Capture!Newest(ss) \in 1 .. MaxSessions
    BY <1>1, <2>6, <2>7
  <2>9. 1 .. MaxSessions \subseteq 0 .. MaxSessions
    BY <1>1
  <2>. QED
    BY <2>8, <2>9
<1>. QED
  BY <1>2, <1>3

LEMMA ThreadsGoOn ==
  ASSUME CaptureAssumptions, OpsOK, NEW t \in CaptureThreads, Capture!Waits(t) \/
  Capture!Done(t)
  PROVE  OpsOK'
<1>1. Capture!Idle \in OpsType
  BY DEF Capture!Idle, OpsType, CaptureAssumptions
<1>2. ops[t] \in OpsType
  BY DEF OpsOK
<1>3. [ops[t] EXCEPT !.at = "wait"] \in OpsType
  BY <1>2 DEF OpsType
<1>4. CASE Capture!Waits(t)
  BY <1>3, <1>4 DEF Capture!Waits, OpsOK
<1>5. CASE Capture!Done(t)
  BY <1>1, <1>5 DEF Capture!Done, OpsOK
<1>. QED
  BY <1>4, <1>5

\* What the threads do to one another does not end anybody's wait.
Answered == answer' = "saved" /\ \E t \in CaptureThreads : ops[t].at = "wait"
  /\ ops'[t] = Capture!Idle
Good == CaptureInv' /\ Capture!StopSpeaksOfItsCaptureStep

LEMMA NobodyAnswered ==
  ASSUME CaptureAssumptions, CaptureInv, CaptureInv', ~ Answered
  PROVE  Good
BY DEF Good, Capture!StopSpeaksOfItsCaptureStep, CaptureInv, RecordingInv, Answered

LEMMA CommandKeeps ==
  ASSUME CaptureAssumptions, CaptureInv, NEW t \in CaptureThreads, Capture!Command(t)
  PROVE  Good
<1>1. OpsOK /\ MaxSessions \in Nat /\ begun \in 0 .. MaxSessions
  BY DEF CaptureInv, CaptureAssumptions, RecorderOK
<1>2. UNCHANGED <<lock, Capture!recorder, Capture!builder, busy, answer>>
        /\ ops[t] = Capture!Idle
  BY DEF Capture!Command
<1>3. \E x \in OpsType : x.at = "lock" /\ ops' = [ops EXCEPT ![t] = x]
  <2>1. ASSUME NEW op \in {"start", "stop", "build"}, NEW s \in 0 .. MaxSessions
        PROVE  /\ [op |-> op, arg |-> s, at |-> "lock"] \in OpsType
               /\ [op |-> op, arg |-> s, at |-> "lock"].at = "lock"
    BY DEF OpsType
  <2>2. 0 \in 0 .. MaxSessions /\ 0 .. begun \subseteq 0 .. MaxSessions
    BY <1>1
  <2>. QED
    BY <2>1, <2>2 DEF Capture!Command
<1>4. OpsOK'
  BY <1>1, <1>2, <1>3 DEF OpsOK
<1>5. stopping' \in BOOLEAN
  BY DEF Capture!Command, CaptureInv
<1>6. CaptureInv'
  BY <1>2, <1>4, <1>5
  DEF CaptureInv, RecordingInv, Capture!recorder, Capture!builder, OpsOK, OpsType,
     RecorderOK, BuilderOK
<1>7. ~ Answered
  BY <1>1, <1>2, <1>3 DEF Answered, Capture!Idle, OpsOK
<1>. QED
  BY <1>6, <1>7, NobodyAnswered

LEMMA LockKeeps ==
  ASSUME CaptureAssumptions, CaptureInv, NEW t \in CaptureThreads,
         Capture!Start3dMapping(t) \/ Capture!StopAsks(t) \/ Capture!StopFindsNothing(t)
           \/ Capture!Build3dMap(t)
  PROVE  Good
<1>1. /\ OpsOK /\ RecorderOK /\ BuilderOK /\ stopping \in BOOLEAN /\ busy \in BOOLEAN
      /\ answer \in {"none", "saved", "killed", "failed"} /\ MaxSessions \in Nat
      /\ ops[t] \in OpsType
  BY DEF CaptureInv, CaptureAssumptions, OpsOK
<1>2. Capture!Waits(t) \/ Capture!Done(t)
  BY DEF Capture!Start3dMapping, Capture!StopAsks, Capture!StopFindsNothing,
     Capture!Build3dMap
<1>3. OpsOK'
  BY <1>1, <1>2, ThreadsGoOn
<1>4. ops[t].at = "lock" /\ \A u \in CaptureThreads \ {t} : ops'[u] = ops[u]
  BY <1>1, <1>2 DEF Capture!Waits, Capture!Done, OpsOK, Capture!Start3dMapping,
     Capture!StopAsks, Capture!StopFindsNothing, Capture!Build3dMap,
     Capture!HasLock
<1>5. ~ Answered
  BY <1>4 DEF Answered, Capture!Idle
<1>6. CASE Capture!Start3dMapping(t)
  <2>1. UNCHANGED <<stopping, Capture!builder, busy, answer>>
    BY <1>6 DEF Capture!Start3dMapping
  <2>2. CASE UNCHANGED Capture!recorder
    BY <1>1, <1>3, <2>1, <2>2, <1>5, NobodyAnswered
    DEF CaptureInv, RecordingInv, Capture!recorder, Capture!builder, RecorderOK, BuilderOK
  <2>3. CASE /\ capture = "off" /\ build = "off" /\ begun < MaxSessions
             /\ capture' = "open" /\ halt' = FALSE /\ begun' = begun + 1
             /\ sessions' = [sessions EXCEPT ![begun + 1] = "recording"]
             /\ recordingStatus' = "recording" /\ UNCHANGED latest
    <3>1. begun' \in 1 .. MaxSessions
      BY <1>1, <2>3 DEF RecorderOK
    <3>2. sessions' \in [Capture!Ids -> {"none", "recording", "partial", "complete",
          "trash", "hollow"}]
      BY <1>1, <2>3 DEF RecorderOK
    <3>0. begun' \in 0 .. MaxSessions
      BY <1>1, <3>1
    <3>5. RecorderOK'
      BY <1>1, <2>3, <3>0, <3>2 DEF RecorderOK
    <3>3. RecordingInv'
      BY <2>1, <2>3, <3>1 DEF RecordingInv, Capture!builder
    <3>4. CaptureInv'
      BY <1>1, <1>3, <2>1, <3>5, <3>3 DEF CaptureInv, Capture!builder, BuilderOK
    <3>. QED
      BY <1>5, <3>4, NobodyAnswered
  <2>. QED
    BY <1>6, <2>2, <2>3 DEF Capture!Start3dMapping
<1>7. CASE Capture!StopAsks(t)
  <2>1. /\ recordingStatus' = "none" /\ halt' = TRUE
        /\ UNCHANGED <<stopping, capture, sessions, begun, latest, Capture!builder, busy,
           answer>>
    BY <1>7 DEF Capture!StopAsks
  <2>2. CaptureInv'
    <3>1. RecorderOK'
      BY <1>1, <2>1 DEF RecorderOK
    <3>2. BuilderOK' /\ stopping' \in BOOLEAN /\ busy' \in BOOLEAN
          /\ answer' \in {"none", "saved", "killed", "failed"}
      BY <1>1, <2>1 DEF Capture!builder, BuilderOK
    <3>3. RecordingInv'
      BY <2>1 DEF CaptureInv, RecordingInv, Capture!builder
    <3>. QED
      BY <1>3, <3>1, <3>2, <3>3 DEF CaptureInv
  <2>. QED
    BY <1>5, <2>2, NobodyAnswered
<1>8. CASE Capture!StopFindsNothing(t)
  <2>1. stopping' = FALSE /\ UNCHANGED <<Capture!recorder, Capture!builder, busy, answer>>
    BY <1>8 DEF Capture!StopFindsNothing
  <2>2. CaptureInv'
    <3>1. RecorderOK' /\ BuilderOK' /\ stopping' \in BOOLEAN /\ busy' \in BOOLEAN
          /\ answer' \in {"none", "saved", "killed", "failed"}
      BY <1>1, <2>1 DEF Capture!recorder, Capture!builder, RecorderOK, BuilderOK
    <3>2. RecordingInv'
      BY <2>1 DEF CaptureInv, RecordingInv, Capture!recorder, Capture!builder
    <3>. QED
      BY <1>3, <3>1, <3>2 DEF CaptureInv
  <2>. QED
    BY <1>5, <2>2, NobodyAnswered
<1>9. CASE Capture!Build3dMap(t)
  <2>1. UNCHANGED <<stopping, Capture!recorder, busy, answer>>
    BY <1>9 DEF Capture!Build3dMap
  <2>2. \/ UNCHANGED Capture!builder
        \/ capture = "off" /\ build' = "resolve" /\ source' = ops[t].arg
    BY <1>9 DEF Capture!Build3dMap
  <2>3. BuilderOK'
    BY <1>1, <2>2 DEF BuilderOK, Capture!builder, OpsType
  <2>4. RecordingInv'
    BY <2>1, <2>2 DEF CaptureInv, RecordingInv, Capture!recorder, Capture!builder
  <2>5. CaptureInv'
    BY <1>1, <1>3, <2>1, <2>3, <2>4 DEF CaptureInv, Capture!recorder, RecorderOK
  <2>. QED
    BY <1>5, <2>5, NobodyAnswered
<1>. QED
  BY <1>6, <1>7, <1>8, <1>9

LEMMA AnswerIsOfItsCapture ==
  ASSUME CaptureAssumptions, CaptureInv, NEW t \in CaptureThreads, Capture!StopAnswered(t)
  PROVE  Good
<1>1. /\ OpsOK /\ RecorderOK /\ BuilderOK /\ busy \in BOOLEAN
      /\ answer \in {"none", "saved", "killed", "failed"} /\ MaxSessions \in Nat
  BY DEF CaptureInv, CaptureAssumptions
<1>2. Capture!Done(t) /\ stopping' = FALSE /\ UNCHANGED <<Capture!builder, busy>>
  BY DEF Capture!StopAnswered
<1>3. OpsOK'
  BY <1>1, <1>2, ThreadsGoOn
<1>4. CASE /\ recordingStatus \in {"succeeded", "failed"}
           /\ answer' = IF recordingStatus = "succeeded" THEN "saved" ELSE "failed"
           /\ UNCHANGED <<recordingStatus, capture, halt, sessions, begun, latest>>
  <2>1. CaptureInv'
    BY <1>1, <1>2, <1>3, <1>4
    DEF CaptureInv, RecordingInv, Capture!builder, RecorderOK, BuilderOK
  <2>2. answer' = "saved" => /\ capture \in {"exit", "off"}
                             /\ sessions[begun] \in {"complete", "trash", "hollow"}
    BY <1>4 DEF CaptureInv, RecordingInv
  <2>. QED
    BY <2>1, <2>2 DEF Good, Capture!StopSpeaksOfItsCaptureStep, CaptureInv, RecordingInv
<1>5. CASE /\ recordingStatus \in {"none", "recording"}
           /\ answer' = IF recordingStatus = "none" THEN "killed" ELSE "failed"
           /\ capture' = "off"
           /\ sessions' = [sessions EXCEPT ![begun] =
                IF @ = "recording" THEN "partial" ELSE @]
           /\ UNCHANGED <<recordingStatus, halt, begun, latest>>
  <2>1. RecorderOK'
    BY <1>1, <1>5 DEF RecorderOK
  <2>2. RecordingInv'
    BY <1>2, <1>5 DEF RecordingInv
  <2>3. CaptureInv' /\ answer' # "saved"
    BY <1>1, <1>2, <1>3, <1>5, <2>1, <2>2 DEF CaptureInv, Capture!builder, BuilderOK
  <2>. QED
    BY <2>3, NobodyAnswered DEF Answered
<1>. QED
  BY <1>4, <1>5 DEF Capture!StopAnswered

\* A step of none of the threads.
LEMMA OutsideKeeps ==
  ASSUME CaptureAssumptions, CaptureInv, UNCHANGED <<ops, lock, stopping, answer>>,
         RecorderOK', BuilderOK', busy' \in BOOLEAN, RecordingInv'
  PROVE  Good
<1>1. CaptureInv'
  BY DEF CaptureInv, OpsOK
<1>2. ~ Answered
  <2>1. \A t \in CaptureThreads : ops[t].at = "wait" => ops[t] # Capture!Idle
    BY DEF Capture!Idle
  <2>. QED
    BY <2>1 DEF Answered
<1>. QED
  BY <1>1, <1>2, NobodyAnswered

LEMMA RecorderKeeps ==
  ASSUME CaptureAssumptions, CaptureInv,
         Capture!CameraOpens \/ Capture!Reports \/ Capture!Breaks \/ Capture!LeavesLoop
           \/ Capture!Saves \/ Capture!Exits
  PROVE  Good
<1>1. /\ RecorderOK /\ BuilderOK /\ busy \in BOOLEAN /\ MaxSessions \in Nat
      /\ UNCHANGED <<ops, lock, stopping, Capture!builder, busy, answer>>
  BY DEF CaptureInv, CaptureAssumptions, Capture!CameraOpens, Capture!Reports,
     Capture!Breaks, Capture!LeavesLoop, Capture!Saves, Capture!Exits
<1>2. BuilderOK'
  BY <1>1 DEF BuilderOK, Capture!builder
<1>3. RecorderOK'
  <2>1. CASE Capture!Breaks \/ Capture!Saves
    <3>1. sessions' \in [Capture!Ids -> {"none", "recording", "partial", "complete",
          "trash", "hollow"}]
      BY <1>1, <2>1 DEF Capture!Breaks, Capture!Saves, RecorderOK
    <3>. QED
      BY <1>1, <2>1, <3>1 DEF Capture!Breaks, Capture!Saves, RecorderOK
  <2>2. CASE Capture!CameraOpens \/ Capture!Reports \/ Capture!LeavesLoop \/ Capture!Exits
    BY <1>1, <2>2 DEF Capture!CameraOpens, Capture!Reports, Capture!LeavesLoop,
       Capture!Exits, RecorderOK
  <2>. QED
    BY <2>1, <2>2
<1>4. RecordingInv'
  <2>1. CASE Capture!Saves
    <3>1. begun \in Capture!Ids /\ begun' = begun
      BY <1>1, <2>1 DEF Capture!Saves, CaptureInv, RecordingInv, RecorderOK, Capture!Ids
    <3>2. sessions'[begun] \in {"complete", "hollow"}
      BY <1>1, <2>1, <3>1 DEF Capture!Saves, RecorderOK
    <3>. QED
      BY <1>1, <2>1, <3>1, <3>2 DEF Capture!Saves, CaptureInv, RecordingInv, Capture!builder
  <2>2. CASE Capture!Breaks \/ Capture!CameraOpens \/ Capture!Reports \/
        Capture!LeavesLoop \/ Capture!Exits
    BY <1>1, <2>2
    DEF Capture!Breaks, Capture!CameraOpens, Capture!Reports, Capture!LeavesLoop,
       Capture!Exits, CaptureInv, RecordingInv, Capture!builder
  <2>. QED
    BY <2>1, <2>2
<1>. QED
  BY <1>1, <1>2, <1>3, <1>4, OutsideKeeps

LEMMA BuilderKeeps ==
  ASSUME CaptureAssumptions, CaptureInv, Capture!Resolve \/ Capture!BuildEnds
  PROVE  Good
<1>1. /\ RecorderOK /\ BuilderOK /\ busy \in BOOLEAN /\ MaxSessions \in Nat
      /\ UNCHANGED <<ops, lock, stopping, Capture!recorder, busy, answer>>
  BY DEF CaptureInv, CaptureAssumptions, Capture!Resolve, Capture!BuildEnds
<1>2. BuilderOK' /\ (build # "off")
  BY <1>1 DEF BuilderOK, RecorderOK, Capture!Resolve, Capture!BuildEnds
<1>3. RecorderOK'
  BY <1>1 DEF RecorderOK, Capture!recorder
<1>4. RecordingInv'
  BY <1>1, <1>2 DEF CaptureInv, RecordingInv, Capture!recorder
<1>. QED
  BY <1>1, <1>2, <1>3, <1>4, OutsideKeeps

LEMMA AssetsKeep ==
  ASSUME CaptureAssumptions, CaptureInv, NEW s \in Capture!Ids, Capture!DeleteAsset(s)
    \/ Capture!SetLatest(s)
  PROVE  Good
<1>1. /\ RecorderOK /\ BuilderOK /\ busy \in BOOLEAN /\ MaxSessions \in Nat
      /\ UNCHANGED <<ops, lock, stopping, recordingStatus, capture, halt, begun,
         Capture!builder, busy, answer>>
  BY DEF CaptureInv, CaptureAssumptions, Capture!DeleteAsset, Capture!SetLatest
<1>2. BuilderOK'
  BY <1>1 DEF BuilderOK, Capture!builder
<1>3. /\ sessions' \in [Capture!Ids -> {"none", "recording", "partial", "complete", "trash",
         "hollow"}]
      /\ latest' \in 0 .. MaxSessions
  <2>1. CASE Capture!SetLatest(s)
    BY <1>1, <2>1 DEF Capture!SetLatest, RecorderOK, Capture!Ids
  <2>2. CASE Capture!DeleteAsset(s)
    <3>1. sessions' \in [Capture!Ids -> {"none", "recording", "partial", "complete",
          "trash", "hollow"}]
      BY <1>1, <2>2 DEF Capture!DeleteAsset, RecorderOK
    <3>2. latest' = latest \/ latest' = Capture!Newest(sessions')
      BY <2>2 DEF Capture!DeleteAsset
    <3>. QED
      BY <1>1, <3>1, <3>2, NewestIsASession DEF RecorderOK
  <2>. QED
    BY <2>1, <2>2
<1>4. RecorderOK'
  BY <1>1, <1>3 DEF RecorderOK
<1>5. begun \in 0 .. MaxSessions
  BY <1>1 DEF RecorderOK
<1>6. (capture # "off" \/ recordingStatus = "succeeded")
        => sessions'[begun] \in {sessions[begun], "trash"}
  <2>1. begun >= 1 => begun \in Capture!Ids
    BY <1>1, <1>5 DEF Capture!Ids
  <2>2. begun \in Capture!Ids => sessions'[begun] \in {sessions[begun], "trash"}
    BY <1>1 DEF Capture!DeleteAsset, Capture!SetLatest, RecorderOK
  <2>. QED
    BY <2>1, <2>2 DEF CaptureInv, RecordingInv
<1>7. RecordingInv'
  BY <1>1, <1>6 DEF CaptureInv, RecordingInv, Capture!builder
<1>. QED
  BY <1>1, <1>2, <1>4, <1>7, OutsideKeeps

LEMMA CaptureStep ==
  ASSUME CaptureAssumptions, CaptureInv, [Capture!Next]_Capture!vars
  PROVE  CaptureInv' /\ [Capture!StopSpeaksOfItsCaptureStep]_Capture!vars
<1>1. CASE Capture!Others
  <2>1. RecorderOK /\ BuilderOK /\ busy' \in BOOLEAN
        /\ UNCHANGED <<ops, lock, stopping, Capture!recorder, Capture!builder, answer>>
    BY <1>1 DEF Capture!Others, CaptureInv
  <2>2. RecorderOK' /\ BuilderOK' /\ RecordingInv'
    BY <2>1 DEF CaptureInv, RecorderOK, BuilderOK, RecordingInv, Capture!recorder,
       Capture!builder
  <2>3. Good
    BY <2>1, <2>2, OutsideKeeps
  <2>. QED
    BY <2>3 DEF Good
<1>2. CASE UNCHANGED Capture!vars
  BY <1>2
  DEF Capture!vars, Capture!recorder, Capture!builder, CaptureInv, OpsOK, RecorderOK,
     BuilderOK, RecordingInv
<1>3. CASE Capture!Next /\ ~ Capture!Others
  <2>1. Good
    BY <1>3, CommandKeeps, LockKeeps, AnswerIsOfItsCapture, RecorderKeeps, BuilderKeeps,
       AssetsKeep DEF Capture!Next
  <2>. QED
    BY <2>1 DEF Good
<1>. QED
  BY <1>1, <1>2, <1>3 DEF Capture!Next

LEMMA CaptureInitInv == ASSUME CaptureAssumptions, Capture!Init PROVE CaptureInv
<1>1. MaxSessions \in Nat
  BY DEF CaptureAssumptions
<1>2. OpsOK
  <2>1. 0 \in 0 .. MaxSessions
    BY <1>1
  <2>2. Capture!Idle \in OpsType
    BY <2>1 DEF OpsType, Capture!Idle
  <2>. QED
    BY <2>2 DEF Capture!Init, OpsOK
<1>3. RecorderOK /\ BuilderOK
  <2>1. 0 \in 0 .. MaxSessions
    BY <1>1
  <2>. QED
    BY <2>1 DEF Capture!Init, RecorderOK, BuilderOK
<1>. QED
  BY <1>2, <1>3 DEF Capture!Init, CaptureInv, RecordingInv

\* A stop that reports a saved recording speaks of the recording it stopped, which has
\* left its loop with its files written, and recording and building never share the
\* camera, for any number of command threads and recordings (stop_3d_mapping,
\* wait_for_mapping3d_terminal).
THEOREM StopsSpeakOfTheirCapture ==
  ASSUME CaptureAssumptions
  PROVE  Capture!Spec => []Capture!TypeOK /\ Capture!StopSpeaksOfItsCapture
<1>1. CaptureInv => Capture!TypeOK
  BY DEF CaptureInv, OpsOK, OpsType, RecorderOK, BuilderOK, Capture!TypeOK
<1>2. CaptureInv /\ [Capture!Next]_Capture!vars => CaptureInv'
        /\ [Capture!StopSpeaksOfItsCaptureStep]_Capture!vars
  BY CaptureStep
<1>. QED
  BY CaptureInitInv, <1>1, <1>2, PTL DEF Capture!Spec, Capture!StopSpeaksOfItsCapture
===============================================================================
