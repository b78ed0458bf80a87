-------------------------- MODULE PlatformConnection --------------------------
(* The thread of platform_cloud_client.py that keeps the connection with the    *)
(* platform: its loop, the switch an operator turns (set_enabled, called from    *)
(* HTTP threads), and the upload of events, over the tables events and           *)
(* cloud_state of platform_store.py. What the thread does with a command is the  *)
(* subject of PlatformCommands.                                                  *)
EXTENDS Integers

CONSTANTS Callers,    \* HTTP threads in set_enabled
          MaxEvents,  \* bound: events ever recorded
          MaxRestarts \* bound: restarts of the process

ASSUME BoundsAssumption == MaxEvents \in Nat /\ MaxRestarts \in Nat

VARIABLES desired,    \* desired_enabled
          override,   \* cloud_enabled_override, in the store
          wake,       \* the event _wake
          shown,      \* the state of _status
          recovered,  \* _recover_pending has done its work
          at,         \* where the thread is
          caller,     \* per caller: its step, and the value it sets
          events,     \* sequence number of the last event
          cursor,     \* last_uploaded_sequence
          blocked,    \* blocked_event_sequence
          stored,     \* external: the platform has stored the events 1 .. stored
          restarts

switch == <<desired, override, wake, caller>>
outbox == <<events, cursor, blocked, stored>>
vars == <<switch, shown, recovered, at, outbox, restarts>>

TypeOK ==
    /\ desired \in BOOLEAN /\ override \in BOOLEAN /\ wake \in BOOLEAN /\ recovered \in BOOLEAN
    /\ shown \in {"DISABLED", "CONNECTING", "CONNECTED", "BACKOFF"}
    /\ at \in {"top", "disabling", "parked", "unparked", "waiting", "woken", "check", "attempt",
               "request", "events", "post", "done"}
    /\ caller \in [Callers -> [step : {"idle", "set", "wake"}, value : BOOLEAN]]
    /\ events \in 0 .. MaxEvents /\ cursor \in 0 .. MaxEvents
    /\ blocked \in 0 .. MaxEvents /\ stored \in 0 .. MaxEvents
    /\ restarts \in 0 .. MaxRestarts

Init == /\ desired = FALSE /\ override = FALSE /\ wake = FALSE
        /\ shown = "DISABLED" /\ recovered = FALSE /\ at = "top"
        /\ caller = [c \in Callers |-> [step |-> "idle", value |-> FALSE]]
        /\ events = 0 /\ cursor = 0 /\ blocked = 0 /\ stored = 0
        /\ restarts = 0

-----------------------------------------------------------------------------
(* set_enabled: the override is stored; under the lock the wish and the state    *)
(* shown are set; the thread is woken.                                           *)
StoreOverride(c) == \E value \in BOOLEAN :
    /\ caller[c].step = "idle"
    /\ override' = value
    /\ caller' = [caller EXCEPT ![c] = [step |-> "set", value |-> value]]
    /\ UNCHANGED <<desired, wake, shown, recovered, at, outbox, restarts>>

SetDesired(c) == /\ caller[c].step = "set"
                 /\ desired' = caller[c].value
                 /\ shown' = IF caller[c].value THEN "CONNECTING" ELSE "DISABLED"
                 /\ caller' = [caller EXCEPT ![c].step = "wake"]
                 /\ UNCHANGED <<override, wake, recovered, at, outbox, restarts>>

Wake(c) == /\ caller[c].step = "wake"
           /\ wake' = TRUE
           /\ caller' = [caller EXCEPT ![c].step = "idle"]
           /\ UNCHANGED <<desired, override, shown, recovered, at, outbox, restarts>>

-----------------------------------------------------------------------------
(* _run. Every access to the switch and to the status is a critical section of   *)
(* its own, so that a call of set_enabled may fall between any two.              *)
Go(from, to) == at = from /\ at' = to

ReadSwitch == /\ \/ /\ ~desired
                    /\ Go("top", "disabling")
                    /\ UNCHANGED recovered
                 \/ /\ desired
                    /\ Go("top", "waiting")
                    /\ recovered' \in {TRUE, recovered}
              /\ UNCHANGED <<switch, shown, outbox, restarts>>

\* Mutant of Park: the state is left to set_enabled.
ParkSilently == Go("disabling", "parked") /\ UNCHANGED <<switch, shown, recovered, outbox, restarts>>
Park == /\ Go("disabling", "parked")
        /\ shown' = "DISABLED"
        /\ UNCHANGED <<switch, recovered, outbox, restarts>>

\* The wait for _wake, without end or for the delay, then the clear of _wake.
Woken == /\ wake
         /\ Go("parked", "unparked") \/ Go("waiting", "woken")
         /\ UNCHANGED <<switch, shown, recovered, outbox, restarts>>

\* Mutant of Clear: it clears before it waits.
ClearEarly == /\ Go("unparked", "top") \/ Go("woken", "check") \/ Go("disabling", "parked")
              /\ wake' = FALSE
              /\ UNCHANGED <<desired, override, caller, shown, recovered, outbox, restarts>>
Clear == /\ Go("unparked", "top") \/ Go("woken", "check")
         /\ wake' = FALSE
         /\ UNCHANGED <<desired, override, caller, shown, recovered, outbox, restarts>>

Elapse == /\ Go("waiting", "check")
          /\ UNCHANGED <<switch, shown, recovered, outbox, restarts>>

Check == /\ IF desired THEN Go("check", "attempt") ELSE Go("check", "top")
         /\ UNCHANGED <<switch, shown, recovered, outbox, restarts>>

Attempt == /\ Go("attempt", "request")
           /\ shown' = IF shown = "CONNECTED" THEN shown ELSE "CONNECTING"
           /\ UNCHANGED <<switch, recovered, outbox, restarts>>

\* The heartbeat, whose reply says how far the platform has stored the events.
Heartbeat == /\ Go("request", "events")
             /\ cursor' = stored
             /\ UNCHANGED <<switch, shown, recovered, events, blocked, stored, restarts>>

Fails == /\ Go("request", "top")
         /\ shown' = "BACKOFF"
         /\ UNCHANGED <<switch, recovered, outbox, restarts>>

-----------------------------------------------------------------------------
\* Whatever part of the bridge records an event.
RecordEvent == /\ events < MaxEvents
               /\ events' = events + 1
               /\ UNCHANGED <<switch, shown, recovered, at, cursor, blocked, stored, restarts>>

(* _upload_events: nothing beyond an event the platform refused for good, until   *)
(* the platform says that it is past that event.                                  *)
UploadEvents == /\ IF blocked > cursor
                   THEN Go("events", "done") /\ UNCHANGED blocked
                   ELSE /\ IF events > cursor THEN Go("events", "post") ELSE Go("events", "done")
                        /\ blocked' = 0
                /\ UNCHANGED <<switch, shown, recovered, events, cursor, stored, restarts>>

(* The next event is posted. The platform stores it if it is the next for it too, *)
(* and says how far it has come; it may refuse the event for good; the request or  *)
(* its reply may be lost.                                                          *)
\* Mutant of Refused: the event refused counts as told.
RefusedSkipped == cursor' = cursor + 1 /\ UNCHANGED <<blocked, stored, restarts>>
Refused == blocked' = cursor + 1 /\ UNCHANGED <<cursor, stored, restarts>>
PostEvent == /\ Go("post", "done")
             /\ \/ /\ stored' = IF cursor + 1 > stored THEN cursor + 1 ELSE stored
                   /\ cursor' \in {cursor, stored'}
                   /\ UNCHANGED blocked
                \/ Refused
                \/ UNCHANGED <<cursor, blocked, stored, restarts>>
             /\ UNCHANGED <<switch, shown, recovered, events, restarts>>

\* External: the operator of the platform resolves the conflict there.
Resolve == /\ blocked > stored
           /\ stored' = blocked
           /\ UNCHANGED <<switch, shown, recovered, at, events, cursor, blocked, restarts>>

Done == /\ Go("done", "top")
        /\ shown' = "CONNECTED"
        /\ UNCHANGED <<switch, recovered, outbox, restarts>>

-----------------------------------------------------------------------------
\* The process ends anywhere and starts with the stored override.
Restart == /\ restarts < MaxRestarts /\ restarts' = restarts + 1
           /\ desired' = override
           /\ shown' = IF override THEN "CONNECTING" ELSE "DISABLED"
           /\ wake' = FALSE /\ recovered' = FALSE /\ at' = "top"
           /\ caller' = [c \in Callers |-> [step |-> "idle", value |-> FALSE]]
           /\ UNCHANGED <<override, outbox>>

Thread == \/ ReadSwitch \/ Park \/ Woken \/ Clear \/ Elapse \/ Check \/ Attempt
          \/ Heartbeat \/ Fails \/ UploadEvents \/ PostEvent \/ Done

Next == \/ Thread
        \/ \E c \in Callers : StoreOverride(c) \/ SetDesired(c) \/ Wake(c)
        \/ RecordEvent \/ Resolve
        \/ Restart

\* The thread runs, a call of set_enabled ends, and a delay elapses.
Fairness == WF_vars(Thread) /\ \A c \in Callers : WF_vars(SetDesired(c) \/ Wake(c))

Spec == Init /\ [][Next]_vars /\ Fairness

-----------------------------------------------------------------------------
(* No event is passed over: the cursor never leaves behind an event the platform  *)
(* has not stored, through lost replies, refusals, repeats and restarts.          *)
NoEventPassedOver == cursor <= stored /\ stored <= events

(* No wake-up is lost: the thread of a connection that is switched on sends a     *)
(* heartbeat, unless it is switched off before.                                   *)
EnabledIsServed == desired ~> (at = "request" \/ ~desired)

(* A connection that stays switched off is shown as such in the end, whatever a   *)
(* request that was under way wrote over the state.                               *)
DisabledIsShown == <>[]~desired => <>[](shown = "DISABLED")

=============================================================================
