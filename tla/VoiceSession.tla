---------------------------- MODULE VoiceSession ----------------------------
(***************************************************************************)
(* The continuous voice session (voice_session_node.py): standby until the *)
(* local wake word, one utterance at a time, its text sent to the agent,   *)
(* the microphone closed until the answer has been spoken, and a window    *)
(* in which the next utterance needs no wake word.                         *)
(*                                                                         *)
(* A worker thread runs session_loop; listening for the wake word, playing *)
(* a cue, recording and the cloud recognition are steps of it, between     *)
(* which the ROS thread runs its callbacks on the same fields without the  *)
(* lock.  The time limits are external: each may pass at any moment.       *)
(***************************************************************************)
EXTENDS Naturals

VARIABLES
  enabled,    \* session_enabled
  awakened,
  followup,   \* in_context_followup, and whether its deadline has passed
  state,      \* what the status shows
  wait,       \* the turn the session waits for, see NoWait
  speaking,   \* is_tts_playing, as the last voice status said
  worker,     \* where the worker is
  cued        \* history: standby cues since the window opened, capped

vars == <<enabled, awakened, followup, state, wait, speaking, worker, cued>>

\* awaiting_turn_id and what has come back for it, response_tts_started,
\* resume_after_tts_at, and whether the time limit of the stage has passed.
Waits == [turn : {"no", "asked", "interim", "answered"}, spoken : BOOLEAN,
          resume : {"no", "set", "due"}, late : BOOLEAN]
NoWait == [turn |-> "no", spoken |-> FALSE, resume |-> "no", late |-> FALSE]

TypeOK ==
  /\ enabled \in BOOLEAN /\ awakened \in BOOLEAN /\ speaking \in BOOLEAN
  /\ followup \in {"no", "open", "over"}
  /\ state \in {"OFF", "WAIT_WAKE", "LISTENING", "RECORDING", "ASR_PROCESSING",
                "WAITING_RESPONSE", "TTS_PAUSED"}
  /\ wait \in Waits
  /\ worker \in {"loop", "wake", "woken", "record", "recorded", "heard", "ask"}
  /\ cued \in 0 .. 2

Init ==
  /\ enabled = FALSE /\ awakened = FALSE /\ followup = "no" /\ state = "OFF"
  /\ wait = NoWait /\ speaking = FALSE /\ worker = "loop" /\ cued = 0

----------------------------------------------------------------------------
(* Operations of the session, on either thread.                            *)

ActivateStandby ==
  /\ enabled' = TRUE /\ awakened' = FALSE /\ followup' = "no"
  /\ wait' = NoWait /\ state' = "WAIT_WAKE"

\* return_to_wait_wake.  It leaves the window as it is.
ReturnToWaitWake ==
  /\ awakened' = FALSE /\ wait' = NoWait
  /\ state' = IF enabled THEN "WAIT_WAKE" ELSE state
  /\ UNCHANGED <<enabled, followup>>

\* enter_followup_window
EnterFollowup ==
  /\ wait' = NoWait /\ awakened' = TRUE /\ followup' = "open" /\ cued' = 0
  /\ state' = IF enabled THEN "LISTENING" ELSE state
  /\ UNCHANGED enabled

StopSession ==
  /\ enabled' = FALSE /\ awakened' = FALSE /\ followup' = "no"
  /\ wait' = NoWait /\ state' = "OFF"

----------------------------------------------------------------------------
(* The worker: session_loop.                                               *)

\* update_waiting_response.  An interim answer has no time limit, and once
\* speech has begun only its end opens the microphone again.
UpdateWaiting ==
  /\ worker = "loop" /\ enabled
  /\ \/ /\ wait.turn = "asked" /\ wait.late
        /\ ReturnToWaitWake /\ UNCHANGED cued
     \/ /\ wait.turn # "no" /\ wait.resume = "due"
        /\ EnterFollowup
     \/ /\ wait.turn = "answered" /\ ~wait.spoken /\ wait.late
        /\ EnterFollowup
  /\ UNCHANGED <<speaking, worker>>

\* update_followup_window
FollowupOver ==
  /\ worker = "loop" /\ enabled /\ wait.turn = "no" /\ followup = "over"
  /\ ReturnToWaitWake
  /\ cued' = IF cued < 2 THEN cued + 1 ELSE cued
  /\ worker' = "wake"
  /\ UNCHANGED speaking

LoopOpen == worker = "loop" /\ enabled /\ wait.turn = "no" /\ followup # "over"

Standby ==
  /\ LoopOpen /\ ~awakened
  /\ state' = "WAIT_WAKE" /\ worker' = "wake"
  /\ UNCHANGED <<enabled, awakened, followup, wait, speaking, cued>>

\* wait_for_local_wake: the wake word was heard, listening was broken off, or
\* the recogniser failed and the session goes off.
Wake ==
  /\ worker = "wake"
  /\ \/ enabled /\ worker' = "woken" /\ UNCHANGED <<enabled, state>>
     \/ /\ ~enabled \/ state # "WAIT_WAKE"
        /\ worker' = "loop" /\ UNCHANGED <<enabled, state>>
     \/ worker' = "loop" /\ enabled' = FALSE /\ state' = "OFF"
  /\ UNCHANGED <<awakened, followup, wait, speaking, cued>>

\* The wake cue has been played; the session is not looked at again.
Woken ==
  /\ worker = "woken"
  /\ awakened' = TRUE /\ state' = "LISTENING" /\ worker' = "loop"
  /\ UNCHANGED <<enabled, followup, wait, speaking, cued>>

\* Speech is playing, or its tail is still being waited out.
Pause ==
  /\ LoopOpen /\ awakened
  /\ state' = "TTS_PAUSED"
  /\ UNCHANGED <<enabled, awakened, followup, wait, speaking, worker, cued>>

Listen ==
  /\ LoopOpen /\ awakened /\ ~speaking
  /\ state' = "LISTENING" /\ worker' = "record"
  /\ UNCHANGED <<enabled, awakened, followup, wait, speaking, cued>>

\* wait_and_record_by_vad: nothing worth keeping, the session ended, speech
\* began; or an utterance.
Record ==
  /\ worker = "record"
  /\ \/ worker' = "loop" /\ UNCHANGED state
     \/ state # "RECORDING" /\ state' = "RECORDING" /\ UNCHANGED worker
     \/ /\ state = "RECORDING" /\ ~speaking
        /\ worker' = "recorded" /\ state' = "ASR_PROCESSING"
  /\ UNCHANGED <<enabled, awakened, followup, wait, speaking, cued>>

\* transcribe_pcm: a timeout or an empty text goes back to standby.
Transcribe ==
  /\ worker = "recorded"
  /\ \/ worker' = "heard" /\ UNCHANGED <<enabled, awakened, followup, wait, state>>
     \/ worker' = "loop" /\ ReturnToWaitWake
  /\ UNCHANGED <<speaking, cued>>

\* handle_asr_text: up to the decision to ask.
Hear ==
  /\ worker = "heard"
  /\ \/ wait.turn # "no" /\ worker' = "loop"
        /\ UNCHANGED <<enabled, awakened, followup, wait, state>>
     \/ wait.turn = "no" /\ worker' = "loop" /\ ReturnToWaitWake
     \/ /\ wait.turn = "no" /\ awakened     \* the wake word alone
        /\ worker' = "loop" /\ state' = "LISTENING"
        /\ UNCHANGED <<enabled, awakened, followup, wait>>
     \/ /\ wait.turn = "no" /\ awakened /\ worker' = "ask"
        /\ UNCHANGED <<enabled, awakened, followup, wait, state>>
  /\ UNCHANGED <<speaking, cued>>

\* publish_agent_request
Ask ==
  /\ worker = "ask"
  /\ wait' = [NoWait EXCEPT !.turn = "asked"]
  /\ state' = "WAITING_RESPONSE" /\ worker' = "loop"
  /\ UNCHANGED <<enabled, awakened, followup, speaking, cued>>

Worker ==
  \/ UpdateWaiting \/ FollowupOver \/ Standby \/ Wake \/ Woken \/ Pause
  \/ Listen \/ Record \/ Transcribe \/ Hear \/ Ask

----------------------------------------------------------------------------
(* The ROS thread.                                                         *)

\* start_callback, of a node whose recogniser and key are there.
Start ==
  /\ ~enabled /\ ActivateStandby
  /\ UNCHANGED <<speaking, worker, cued>>

\* stop_callback, or close_voice_mode.
Stop == StopSession /\ UNCHANGED <<speaking, worker, cued>>

\* end_voice_conversation
EndConversation == ReturnToWaitWake /\ UNCHANGED <<speaking, worker, cued>>

\* Mutant of Speech: the end of the speech is not noted.
SpeechForgotten(now) ==
  /\ now # speaking
  /\ speaking' = now
  /\ wait' = IF wait.turn = "answered" /\ now THEN [wait EXCEPT !.spoken = TRUE] ELSE wait
  /\ followup' = IF ~now /\ followup = "over" THEN "open" ELSE followup
  /\ UNCHANGED <<enabled, awakened, state, worker, cued>>

\* voice_status_callback.  The end of speech renews the window.
Speech(now) ==
  /\ now # speaking
  /\ speaking' = now
  /\ wait' = IF now
             THEN [wait EXCEPT !.spoken = @ \/ wait.turn = "answered"]
             ELSE [wait EXCEPT !.resume = IF wait.spoken THEN "set" ELSE @]
  /\ followup' = IF ~now /\ followup = "over" THEN "open" ELSE followup
  /\ UNCHANGED <<enabled, awakened, state, worker, cued>>

\* agent_chat_callback, of a chat of the awaited turn.  Speech that plays when
\* the answer comes is taken for the answer's.
Chat(final) ==
  /\ enabled /\ wait.turn # "no"
  /\ wait' = IF final
             THEN [wait EXCEPT !.turn = "answered", !.spoken = @ \/ speaking,
                               !.late = FALSE]
             ELSE [wait EXCEPT !.turn = IF @ = "answered" THEN @ ELSE "interim",
                               !.late = IF wait.turn = "answered" THEN @ ELSE FALSE]
  /\ state' = "WAITING_RESPONSE"
  /\ UNCHANGED <<enabled, awakened, followup, speaking, worker, cued>>

\* External: a time limit passes.
TimePasses ==
  /\ \/ /\ wait.turn \in {"asked", "answered"} /\ ~wait.late
        /\ wait' = [wait EXCEPT !.late = TRUE] /\ UNCHANGED followup
     \/ /\ wait.resume = "set"
        /\ wait' = [wait EXCEPT !.resume = "due"] /\ UNCHANGED followup
     \/ /\ followup = "open"
        /\ followup' = "over" /\ UNCHANGED wait
  /\ UNCHANGED <<enabled, awakened, state, speaking, worker, cued>>

Next ==
  \/ Worker
  \/ Start \/ Stop \/ EndConversation
  \/ \E b \in BOOLEAN : Speech(b) \/ Chat(b)
  \/ TimePasses

Spec == Init /\ [][Next]_vars

----------------------------------------------------------------------------
(* The microphone is never closed with nothing left to open it again: a    *)
(* turn that has been answered is being spoken, or its end is timed, or    *)
(* the time limit of a silent answer stands; whichever of the answer and   *)
(* the speech came first, and whatever else was being said.                *)
MicrophoneComesBack ==
  wait.turn = "answered" =>
    \/ ~wait.spoken
    \/ speaking
    \/ wait.resume # "no"

(* The end of a follow-up window plays the standby cue once                *)
(* (test_voice_session_node.py, test_followup_timeout_plays_standby_once). *)
(* It does not: the window is left open past its deadline, so that every   *)
(* later wake word is followed by the standby cue and no listening.        *)
StandbyOnce == cued <= 1
=============================================================================
