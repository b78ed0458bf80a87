---------------------------- MODULE VoiceOutput ----------------------------
(***************************************************************************)
(* Speech output (voice_output_node.py): requests queue by priority, one   *)
(* worker synthesises and plays them in segments, and a request that       *)
(* interrupts empties the queue, raises the playback generation and ends   *)
(* what is being played.  The ROS thread takes requests; the steps of an   *)
(* interrupt interleave with those of the worker, which checks its         *)
(* generation again after everything that takes time.                      *)
(***************************************************************************)
EXTENDS Naturals, Sequences, FiniteSets

CONSTANTS
  Keys,         \* (task_id, text) of a request
  Priorities,   \* of a request
  MaxSegments,  \* bound: segments a long text is split into
  MaxRequests,  \* bound: requests queued at a time
  MaxInterrupts \* bound: interrupts

NoRequest == [key |-> CHOOSE k \in Keys : TRUE, prio |-> 0]
Requests == [key : Keys, prio : Priorities \cup {0}]

VARIABLES
  queue,       \* the requests, in the order they came
  keys,        \* _queued_say_keys
  ros,         \* the interrupt under way on the ROS thread, and its request
  generation,  \* playback_generation
  worker,      \* the worker, its request, the generation it took, segments left
  expired,     \* external: the request's max_delay_sec has passed
  playing      \* generation of the audio process that runs, 0 = none

vars == <<queue, keys, ros, generation, worker, expired, playing>>

Idle == [pc |-> "idle", req |-> NoRequest, gen |-> 0, left |-> 0]
Quiet == [pc |-> "quiet", req |-> NoRequest]

TypeOK ==
  /\ queue \in Seq(Requests) /\ Len(queue) <= MaxRequests
  /\ keys \subseteq Keys
  /\ ros \in [pc : {"quiet", "cleared", "raised", "ended"}, req : Requests]
  /\ generation \in 1 .. MaxInterrupts + 1
  /\ worker \in [pc : {"idle", "taken", "begun", "audio", "playing", "played"},
                 req : Requests, gen : 0 .. MaxInterrupts + 1, left : 0 .. MaxSegments]
  /\ expired \in BOOLEAN
  /\ playing \in 0 .. MaxInterrupts + 1

Init ==
  /\ queue = << >> /\ keys = {} /\ ros = Quiet /\ generation = 1
  /\ worker = Idle /\ expired = FALSE /\ playing = 0

\* playback_request_valid
Valid == worker.gen = generation /\ ~expired

----------------------------------------------------------------------------
(* The ROS thread: enqueue_request.                                        *)

Put(req) ==
  IF req.key \in keys THEN UNCHANGED <<queue, keys>>
  ELSE /\ Len(queue) < MaxRequests
       /\ queue' = Append(queue, req) /\ keys' = keys \cup {req.key}

Enqueue(req) ==
  /\ ros = Quiet
  /\ Put(req)
  /\ UNCHANGED <<ros, generation, worker, expired, playing>>

\* Mutant of Clear: the queue is emptied and its keys are kept.
ClearKeepsKeys(req) ==
  /\ ros = Quiet /\ generation <= MaxInterrupts
  /\ queue' = << >>
  /\ ros' = [pc |-> "cleared", req |-> req]
  /\ UNCHANGED <<keys, generation, worker, expired, playing>>

\* clear_queue
Clear(req) ==
  /\ ros = Quiet /\ generation <= MaxInterrupts
  /\ queue' = << >> /\ keys' = {}
  /\ ros' = [pc |-> "cleared", req |-> req]
  /\ UNCHANGED <<generation, worker, expired, playing>>

\* interrupt_playback: the generation is raised under the playback lock, which
\* the worker holds from its last check to the start of the process.
Raise ==
  /\ ros.pc = "cleared"
  /\ generation' = generation + 1
  /\ ros' = [ros EXCEPT !.pc = "raised"]
  /\ UNCHANGED <<queue, keys, worker, expired, playing>>

\* terminate_current_playback
Terminate ==
  /\ ros.pc = "raised"
  /\ playing' = 0
  /\ ros' = [ros EXCEPT !.pc = "ended"]
  /\ UNCHANGED <<queue, keys, generation, worker, expired>>

PutInterrupting ==
  /\ ros.pc = "ended"
  /\ Put(ros.req)
  /\ ros' = Quiet
  /\ UNCHANGED <<generation, worker, expired, playing>>

----------------------------------------------------------------------------
(* The worker: play_loop, play_request, speak, play_audio_file.            *)

First(i) ==  \* the highest priority, and of those the oldest
  \A j \in 1 .. Len(queue) :
    \/ queue[j].prio < queue[i].prio
    \/ queue[j].prio = queue[i].prio /\ i <= j

Take ==
  /\ worker.pc = "idle"
  /\ \E i \in 1 .. Len(queue) :
       /\ First(i)
       /\ worker' = [Idle EXCEPT !.pc = "taken", !.req = queue[i]]
       /\ queue' = [k \in 1 .. Len(queue) - 1 |-> queue[IF k < i THEN k ELSE k + 1]]
  /\ UNCHANGED <<keys, ros, generation, expired, playing>>

\* The key is given up, and the generation read, only now: an interrupt
\* since the request was taken does not stop it.
Begin ==
  /\ worker.pc = "taken"
  /\ keys' = keys \ {worker.req.key}
  /\ expired' \in BOOLEAN
  /\ \/ worker' = Idle                          \* output is off, or expired
     \/ \E n \in 1 .. MaxSegments :
          worker' = [worker EXCEPT !.pc = "begun", !.gen = generation, !.left = n]
  /\ UNCHANGED <<queue, ros, generation, playing>>

\* speak: the audio of a segment comes from a file, the cache or the cloud, or
\* does not come.
Synthesize ==
  /\ worker.pc = "begun"
  /\ \/ ~Valid /\ worker' = Idle
     \/ Valid /\ worker' = [worker EXCEPT !.pc = "audio"]
     \/ Valid /\ worker' = [worker EXCEPT !.pc = "played"]
  /\ UNCHANGED <<queue, keys, ros, generation, expired, playing>>

\* Mutant of Start: the process is started on the word of an earlier check.
StartUnchecked ==
  /\ worker.pc = "audio"
  /\ playing' = worker.gen
  /\ worker' = [worker EXCEPT !.pc = "playing"]
  /\ UNCHANGED <<queue, keys, ros, generation, expired>>

\* play_audio_file: checked and started under the lock.
Start ==
  /\ worker.pc = "audio"
  /\ \/ ~Valid /\ worker' = [worker EXCEPT !.pc = "played"] /\ UNCHANGED playing
     \/ Valid /\ playing' = worker.gen /\ worker' = [worker EXCEPT !.pc = "playing"]
  /\ UNCHANGED <<queue, keys, ros, generation, expired>>

\* The process ends, is ended, or runs into its time limit and is ended.
Played ==
  /\ worker.pc = "playing"
  /\ playing' = 0
  /\ worker' = [worker EXCEPT !.pc = "played"]
  /\ UNCHANGED <<queue, keys, ros, generation, expired>>

NextSegment ==
  /\ worker.pc = "played"
  /\ worker' = IF worker.left > 1
               THEN [worker EXCEPT !.pc = "begun", !.left = @ - 1] ELSE Idle
  /\ UNCHANGED <<queue, keys, ros, generation, expired, playing>>

Expires ==
  /\ worker.pc \notin {"idle", "taken"} /\ ~expired
  /\ expired' = TRUE
  /\ UNCHANGED <<queue, keys, ros, generation, worker, playing>>

Next ==
  \/ \E k \in Keys, p \in Priorities :
       Enqueue([key |-> k, prio |-> p]) \/ Clear([key |-> k, prio |-> p])
  \/ Raise \/ Terminate \/ PutInterrupting
  \/ Take \/ Begin \/ Synthesize \/ Start \/ Played \/ NextSegment \/ Expires

Spec == Init /\ [][Next]_vars

----------------------------------------------------------------------------
(* An interrupt is clean.  Once it is through, no audio of an older        *)
(* generation runs, however far the worker was in synthesising or starting *)
(* it; and what was thrown away leaves no key behind, which would swallow  *)
(* the same words from then on.                                            *)
InterruptIsClean ==
  /\ playing # 0 /\ ros.pc # "raised" => playing = generation
  /\ \A k \in keys :
       \/ \E i \in 1 .. Len(queue) : queue[i].key = k
       \/ worker.pc = "taken" /\ worker.req.key = k
=============================================================================
