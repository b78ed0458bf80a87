-------------------------- MODULE AgentOperations --------------------------
(***************************************************************************)
(* The inspection agent: its ledger of operations                          *)
(* (agent_operation_manager.py), the turn that waits for one of them       *)
(* (inspection_agent_runtime.py), the tools that send them                 *)
(* (agent_tools.py, agent_policy.py) and the node that brings feedback     *)
(* back to the turn (inspection_agent_node.py).                            *)
(*                                                                         *)
(* Two threads share this state.  The worker takes requests and feedback   *)
(* from a queue and runs turns; a turn asks the planner (an LLM, external) *)
(* what to do next, and each planner call is a step during which the other *)
(* thread runs.  The ROS thread runs one callback at a time: it queues     *)
(* requests, applies the robot's reports to the ledger, polls the pending  *)
(* operation and reaps the runtime lease.                                  *)
(***************************************************************************)
EXTENDS Naturals, Sequences, FiniteSets

CONSTANTS
  Kinds,        \* what the planner may ask for, a subset of Actions
  MaxOps,       \* bound: operations created (the ledger itself evicts at 128)
  MaxRequests,  \* bound: requests of the user
  MaxSteps      \* max_agent_steps of one turn (24)

Actions == {"motion", "navigate", "prepare", "voice"}

VARIABLES
  ops,       \* the ledger: state, kind and target of each operation
  late,      \* external: operations whose deadline has passed
  robot,     \* external: what the robot does with each published operation
  reports,   \* external: the reports of each operation on their way
  queue,     \* request_queue: 0 is a request, n is feedback of operation n
  pending,   \* pending_turn: the operation the suspended turn waits for, 0 = none
  context,   \* pending_turn_context: the operation the node looks after, 0 = none
  known,     \* history: the node was asked to look after what the turn waits for
  worker,    \* where the worker is
  lease,     \* runtime_lease
  reaping,   \* reap_runtime_lease found the runtime idle and goes on to release it
  stops,     \* operations the robot was told to stop
  requests   \* history: requests received, for the bound

vars == <<ops, late, robot, reports, queue, pending, context, known, worker, lease,
          reaping, stops, requests>>
waited == <<context, known>>   \* what the node knows of the wait
ledger   == <<ops, late>>
outside  == <<robot, reports>>

Ids == 1 .. MaxOps
Terminal == {"succeeded", "failed", "canceled", "timeout"}

\* OPERATION_TRANSITIONS
After(state) ==
  CASE state = "created"  -> {"sent", "failed"}
    [] state = "sent"     -> {"accepted", "running"} \cup Terminal
    [] state = "accepted" -> {"running"} \cup Terminal
    [] state = "running"  -> Terminal
    [] OTHER              -> {}

Group(kind) ==  \* conflict_group of the tools
  CASE kind = "motion" -> "robot_motion"
    [] kind = "navigate" -> "robot_navigation"
    [] kind \in {"prepare", "release"} -> "robot_runtime"
    [] OTHER -> "none"

Idle == [pc |-> "idle", op |-> 0, resumed |-> FALSE, steps |-> 0]

TypeOK ==
  /\ ops \in [Ids -> [state : {"absent", "created", "sent", "accepted", "running"}
                               \cup Terminal,
                      kind : Actions \cup {"none", "stop", "release"},
                      target : 0 .. MaxOps]]
  /\ late \subseteq Ids /\ stops \subseteq Ids
  /\ robot \in [Ids -> {"none", "given", "busy", "done"}]
  /\ reports \in [Ids -> Seq({"running"} \cup Terminal)]
  /\ queue \in Seq(0 .. MaxOps)
  /\ pending \in 0 .. MaxOps /\ context \in 0 .. MaxOps /\ known \in BOOLEAN
  /\ worker \in [pc : {"idle", "planning", "published", "waiting",
                       "interrupting", "interrupted"},
                 op : 0 .. MaxOps, resumed : BOOLEAN, steps : 0 .. MaxSteps]
  /\ lease \in {"none", "active", "release_requested"}
  /\ reaping \in BOOLEAN /\ requests \in 0 .. MaxRequests

Init ==
  /\ ops = [o \in Ids |-> [state |-> "absent", kind |-> "none", target |-> 0]]
  /\ late = {} /\ stops = {}
  /\ robot = [o \in Ids |-> "none"] /\ reports = [o \in Ids |-> << >>]
  /\ queue = << >> /\ pending = 0 /\ context = 0 /\ known = FALSE
  /\ worker = Idle
  /\ lease = "none" /\ reaping = FALSE /\ requests = 0

----------------------------------------------------------------------------
(* The ledger.                                                             *)

\* _expire, which every reading of an operation goes through.
Expired(l, o) ==
  IF l[o].state \notin Terminal /\ o \in late
  THEN [l EXCEPT ![o].state = "timeout"] ELSE l

\* update: a terminal operation keeps its state, and a transition outside the
\* table raises a ValueError that leaves it as it was.
Updated(l, o, state) ==
  IF state = l[o].state \/ state \in After(l[o].state)
  THEN [l EXCEPT ![o].state = state] ELSE l

\* list_active: reading it expires whatever is late.
AllExpired(l) == [o \in Ids |-> Expired(l, o)[o]]
Active(l) == {o \in Ids : l[o].state \notin Terminal \cup {"absent"}}

Free == {o \in Ids : ops[o].state = "absent"}
NextId == CHOOSE o \in Free : \A p \in Free : o <= p
Recorded(l, kind, target) ==
  [l EXCEPT ![NextId] = [state |-> "created", kind |-> kind, target |-> target]]

\* authorize: an active operation of the same conflict group refuses the call.
Authorized(l, kind) ==
  Group(kind) = "none" \/ \A o \in Active(l) : Group(l[o].kind) # Group(kind)

\* AgentTools.execute up to the publication of the command: the operation is
\* created before the handler publishes it, and marked as sent after.
Publish(kind, target) ==
  /\ Free # {}
  /\ Authorized(AllExpired(ops), kind)
  /\ ops' = Recorded(AllExpired(ops), kind, target)
  /\ robot' = [robot EXCEPT ![NextId] = "given"]
  /\ UNCHANGED <<late, reports>>

----------------------------------------------------------------------------
(* The worker.                                                             *)

\* Mutant of TakeRequest: a request starts a turn of its own over the waiting one.
TakeRequestAnyway ==
  /\ worker.pc = "idle" /\ queue # << >> /\ Head(queue) = 0
  /\ queue' = Tail(queue)
  /\ worker' = [Idle EXCEPT !.pc = "planning", !.steps = MaxSteps]
  /\ UNCHANGED <<ledger, outside, pending, waited, lease, reaping, stops, requests>>

\* run_turn of a request.  While a turn waits, the request only decides
\* whether to interrupt it, which takes a planner call of its own.
TakeRequest ==
  /\ worker.pc = "idle" /\ queue # << >> /\ Head(queue) = 0
  /\ queue' = Tail(queue)
  /\ worker' = IF pending # 0
               THEN [Idle EXCEPT !.pc = "interrupting"]
               ELSE [Idle EXCEPT !.pc = "planning", !.steps = MaxSteps]
  /\ UNCHANGED <<ledger, outside, pending, waited, lease, reaping, stops, requests>>

\* resume_turn: feedback of another operation than the one the turn waits for
\* raises, and process_request reports the error and leaves the rest alone.
\* The end of a voice session releases the lease whether the runtime is busy
\* or not; that operation is published and marked within this step.
TakeFeedback ==
  /\ worker.pc = "idle" /\ queue # << >> /\ Head(queue) # 0
  /\ queue' = Tail(queue)
  /\ LET o == Head(queue)
         kind == ops[o].kind
         released == kind = "voice" /\ lease = "active" /\ Free # {}
                     /\ Authorized(AllExpired(ops), "release")
     IN IF o = pending
        THEN /\ pending' = 0 /\ known' = FALSE
             /\ worker' = [Idle EXCEPT !.pc = "planning", !.resumed = TRUE,
                                       !.steps = MaxSteps]
             /\ lease' = IF kind = "prepare" /\ ops[o].state = "succeeded"
                         THEN "active"
                         ELSE IF kind = "voice" /\ lease = "active"
                              THEN "release_requested" ELSE lease
             /\ ops' = IF released
                       THEN [Recorded(AllExpired(ops), "release", 0)
                               EXCEPT ![NextId].state = "sent"]
                       ELSE ops
             /\ robot' = IF released THEN [robot EXCEPT ![NextId] = "given"] ELSE robot
        ELSE UNCHANGED <<pending, known, worker, lease, ops, robot>>
  /\ UNCHANGED <<late, reports, context, reaping, stops, requests>>

\* One round of _continue_turn whose call has no effect outside: a read-only
\* tool, a call the policy or the schema rejects, a repeated call that is
\* blocked, a final answer that breaks the protocol.
Observe ==
  /\ worker.pc = "planning" /\ worker.steps > 1
  /\ worker' = [worker EXCEPT !.steps = @ - 1]
  /\ UNCHANGED <<ledger, outside, queue, pending, waited, lease, reaping, stops, requests>>

\* A round that publishes a side effect.  prepare_robot_runtime is not offered
\* while the lease is active.
Act ==
  /\ worker.pc = "planning"
  /\ \E kind \in Kinds :
       /\ ~(kind = "prepare" /\ lease = "active")
       /\ Publish(kind, 0)
  /\ worker' = [worker EXCEPT !.pc = "published", !.op = NextId, !.steps = @ - 1]
  /\ UNCHANGED <<queue, pending, waited, lease, reaping, stops, requests>>

\* mark_sent, and the turn is suspended on the operation.
Suspend ==
  /\ worker.pc = "published"
  /\ ops' = Updated(ops, worker.op, "sent")
  /\ pending' = worker.op
  /\ worker' = [worker EXCEPT !.pc = "waiting"]
  /\ UNCHANGED <<late, outside, queue, waited, lease, reaping, stops, requests>>

\* The calls that follow in the same reply are parsed once the turn is pending.
\* One that cannot be parsed raises, _continue_safely answers with a failure, and
\* process_request takes that for the end of the turn: the node is told nothing.
SuspendBroken ==
  /\ worker.pc = "published"
  /\ ops' = Updated(ops, worker.op, "sent")
  /\ pending' = worker.op
  /\ context' = IF worker.resumed THEN 0 ELSE context
  /\ worker' = Idle
  /\ UNCHANGED <<late, outside, queue, known, lease, reaping, stops, requests>>

\* Mutant of Wait: a context that is already there is kept.
WaitKeepingTheOld ==
  /\ worker.pc = "waiting"
  /\ context' = IF context = 0 THEN worker.op ELSE context
  /\ known' = TRUE
  /\ worker' = Idle
  /\ UNCHANGED <<ledger, outside, queue, pending, lease, reaping, stops, requests>>

\* process_request tells the node which operation to look after.
Wait ==
  /\ worker.pc = "waiting"
  /\ context' = worker.op
  /\ known' = TRUE
  /\ worker' = Idle
  /\ UNCHANGED <<ledger, outside, queue, pending, lease, reaping, stops, requests>>

\* A final answer, an error or the last of the steps ends the turn; a resumed
\* one clears the context.
Finish ==
  /\ worker.pc = "planning"
  /\ context' = IF worker.resumed THEN 0 ELSE context
  /\ worker' = Idle
  /\ UNCHANGED <<ledger, outside, queue, pending, known, lease, reaping, stops, requests>>

\* _interrupt_pending: the planner names a stop of the pending operation,
\* emergency_stop included, or nothing.
Interrupt ==
  /\ worker.pc = "interrupting"
  /\ Publish("stop", pending)
  /\ stops' = stops \cup {pending}
  /\ worker' = [worker EXCEPT !.pc = "interrupted", !.op = NextId]
  /\ UNCHANGED <<queue, pending, waited, lease, reaping, requests>>

Interrupted ==
  /\ worker.pc = "interrupted"
  /\ ops' = Updated(ops, worker.op, "sent")
  /\ worker' = Idle
  /\ UNCHANGED <<late, outside, queue, pending, waited, lease, reaping, stops, requests>>

\* Nothing to interrupt: the waiting turn answers again.
NotInterrupted ==
  /\ worker.pc = "interrupting"
  /\ worker' = [worker EXCEPT !.pc = "waiting", !.op = pending]
  /\ UNCHANGED <<ledger, outside, queue, pending, waited, lease, reaping, stops, requests>>

Worker ==
  \/ TakeRequest \/ TakeFeedback \/ Observe \/ Act
  \/ Suspend \/ SuspendBroken \/ Wait \/ Finish
  \/ Interrupt \/ Interrupted \/ NotInterrupted

----------------------------------------------------------------------------
(* The ROS thread.                                                         *)

Request ==
  /\ requests < MaxRequests
  /\ requests' = requests + 1
  /\ queue' = Append(queue, 0)
  /\ UNCHANGED <<ledger, outside, pending, waited, worker, lease, reaping, stops>>

\* enqueue_operation_feedback takes what has ended and the node looks after.
Handed(l, o) == context = o /\ l[o].state \in Terminal

\* update_operation_from_feedback.  A stop that ends well cancels its target,
\* and whichever of the two the turn waits for resumes it.
Feedback(o) ==
  /\ reports[o] # << >>
  /\ reports' = [reports EXCEPT ![o] = Tail(@)]
  /\ LET told == Updated(Expired(ops, o), o, Head(reports[o]))
         target == told[o].target
         stopped == target # 0 /\ told[o].state \in Terminal
         after == IF stopped THEN Updated(told, target, "canceled") ELSE told
         over == IF Handed(after, o) THEN o
                 ELSE IF stopped /\ Handed(after, target) THEN target ELSE 0
     IN /\ ops' = after
        /\ context' = IF over # 0 THEN 0 ELSE context
        /\ queue' = IF over # 0 THEN Append(queue, over) ELSE queue
  /\ UNCHANGED <<late, robot, pending, known, worker, lease, reaping, stops, requests>>

\* poll_pending_operation, with cancel_timed_out_operation.
Poll ==
  /\ context # 0
  /\ LET seen == Expired(ops, context)
     IN /\ ops' = seen
        /\ IF seen[context].state \in Terminal
           THEN /\ queue' = Append(queue, context)
                /\ context' = 0
                /\ stops' = IF seen[context].state = "timeout"
                               /\ seen[context].kind \in {"motion", "navigate"}
                            THEN stops \cup {context} ELSE stops
           ELSE UNCHANGED <<queue, context, stops>>
  /\ UNCHANGED <<late, outside, pending, known, worker, lease, reaping, requests>>

\* reap_runtime_lease: an idle lease is released, a busy one extended.  The
\* worker may act between the look at the operations and the release.
Reap ==
  /\ lease = "active" /\ ~reaping
  /\ ops' = AllExpired(ops)
  /\ reaping' = (Active(ops') = {})
  /\ UNCHANGED <<late, outside, queue, pending, waited, worker, lease, stops, requests>>

Release ==
  /\ reaping
  /\ reaping' = FALSE
  /\ lease' = "release_requested"
  /\ \/ /\ Free # {} /\ Authorized(AllExpired(ops), "release")
        /\ ops' = [Recorded(AllExpired(ops), "release", 0) EXCEPT ![NextId].state = "sent"]
        /\ robot' = [robot EXCEPT ![NextId] = "given"]
     \/ /\ Free = {} \/ ~Authorized(AllExpired(ops), "release")
        /\ ops' = AllExpired(ops)
        /\ UNCHANGED robot
  /\ UNCHANGED <<late, reports, queue, pending, waited, worker, stops, requests>>

----------------------------------------------------------------------------
(* External: the robot and the clock.                                      *)

\* The robot takes a command up, and reports that it runs.
Begin(o) ==
  /\ robot[o] = "given"
  /\ robot' = [robot EXCEPT ![o] = "busy"]
  /\ reports' = [reports EXCEPT ![o] = Append(@, "running")]
  /\ UNCHANGED <<ledger, queue, pending, waited, worker, lease, reaping, stops, requests>>

\* It ends, and reports how; the report may be lost.
End(o) ==
  /\ robot[o] \in {"given", "busy"}
  /\ robot' = [robot EXCEPT ![o] = "done"]
  /\ \/ UNCHANGED reports
     \/ \E how \in {"succeeded", "failed"} \cup (IF o \in stops THEN {"canceled"} ELSE {}) :
          reports' = [reports EXCEPT ![o] = Append(@, how)]
  /\ UNCHANGED <<ledger, queue, pending, waited, worker, lease, reaping, stops, requests>>

Deadline(o) ==
  /\ ops[o].state \notin Terminal \cup {"absent"} /\ o \notin late
  /\ late' = late \cup {o}
  /\ UNCHANGED <<ops, outside, queue, pending, waited, worker, lease, reaping, stops, requests>>

Next ==
  \/ Worker
  \/ Request \/ Poll \/ Reap \/ Release
  \/ \E o \in Ids : Feedback(o) \/ Begin(o) \/ End(o) \/ Deadline(o)

Spec == Init /\ [][Next]_vars

----------------------------------------------------------------------------
(* What the node was asked to look after is not lost: as long as a turn     *)
(* waits for it, the node looks after it, or its feedback is queued, or    *)
(* the worker is about to ask again.  Feedback that comes before the node  *)
(* knows, feedback during the planner call of a second request, an         *)
(* interrupt and a stop of the target must not leave it waiting for ever.  *)
LookedAfter(o) ==
  \/ context = o
  \/ \E i \in 1 .. Len(queue) : queue[i] = o
  \/ worker.pc = "waiting" /\ worker.op = o

WaitIsNeverForgotten == pending # 0 /\ known => LookedAfter(pending)

(* Every suspended turn is looked after.  TLC refutes it: a turn suspended *)
(* by SuspendBroken waits, and neither the end of its operation nor its    *)
(* timeout wakes it; only a further request brings it back.                *)
EveryWaitIsLookedAfter == pending # 0 => LookedAfter(pending)

(* Side effects are serial across requests, turns and threads: the ledger  *)
(* never holds two of the planner's own operations that have not ended,    *)
(* even of different conflict groups.                                      *)
OneActionAtATime ==
  \A o, p \in Active(ops) :
    ops[o].kind \in Actions /\ ops[p].kind \in Actions => o = p
=============================================================================
