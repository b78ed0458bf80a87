------------------------------- MODULE LocalApp ------------------------------
(* The local app's access to the bridge: the switch of set_local_app_enabled     *)
(* (ros_bridge.py), stored and kept in memory, and the sockets of                *)
(* mobile_bridge_server.py, each served by a coroutine that looks at the switch. *)
EXTENDS Integers, FiniteSets

CONSTANTS Sockets,    \* web sockets an app may open
          MaxRestarts \* bound: restarts of the process

VARIABLES stored,   \* local_app_enabled_override
          enabled,  \* _local_app_enabled
          setting,  \* the value set_local_app_enabled has stored and not yet taken over
          socket,   \* where the coroutine of a socket is
          clients,  \* _local_app_clients
          restarts

vars == <<stored, enabled, setting, socket, clients, restarts>>

TypeOK == /\ stored \in BOOLEAN /\ enabled \in BOOLEAN
          /\ setting \subseteq BOOLEAN
          /\ socket \in [Sockets -> {"none", "accepted", "waiting", "sending", "closing"}]
          /\ clients \in 0 .. Cardinality(Sockets)
          /\ restarts \in 0 .. MaxRestarts

Init == /\ stored = TRUE /\ enabled = TRUE /\ setting = {}
        /\ socket = [s \in Sockets |-> "none"]
        /\ clients = 0 /\ restarts = 0

-----------------------------------------------------------------------------
\* The service's callback: first the store, then the switch.
StoreSwitch == /\ setting = {}
               /\ stored' \in BOOLEAN
               /\ setting' = {stored'}
               /\ UNCHANGED <<enabled, socket, clients, restarts>>

TurnSwitch == /\ setting # {}
              /\ enabled' = stored
              /\ setting' = {}
              /\ UNCHANGED <<stored, socket, clients, restarts>>

Accept(s) == /\ socket[s] = "none" /\ enabled
             /\ socket' = [socket EXCEPT ![s] = "accepted"]
             /\ UNCHANGED <<stored, enabled, setting, clients, restarts>>

Connected(s) == /\ socket[s] = "accepted"
                /\ clients' = clients + 1
                /\ socket' = [socket EXCEPT ![s] = "waiting"]
                /\ UNCHANGED <<stored, enabled, setting, restarts>>

\* The switch is looked at before each message and in each part of the wait.
\* Mutant of Look: a socket once accepted is served on.
LookOnce(s) == /\ socket[s] = "waiting"
               /\ socket' = [socket EXCEPT ![s] = "sending"]
               /\ UNCHANGED <<stored, enabled, setting, clients, restarts>>
Look(s) == /\ socket[s] = "waiting"
           /\ socket' = [socket EXCEPT ![s] = IF enabled THEN "sending" ELSE "closing"]
           /\ UNCHANGED <<stored, enabled, setting, clients, restarts>>

\* The message is sent, or the peer is gone.
Send(s) == /\ socket[s] = "sending"
           /\ \E next \in {"waiting", "closing"} : socket' = [socket EXCEPT ![s] = next]
           /\ UNCHANGED <<stored, enabled, setting, clients, restarts>>

\* The "finally" of the coroutine.
\* Mutant of Disconnected: a client that goes in the middle of a message is not uncounted.
DisconnectedLeaky(s) == /\ socket[s] = "closing"
                        /\ clients' = IF enabled THEN clients ELSE clients - 1
                        /\ socket' = [socket EXCEPT ![s] = "none"]
                        /\ UNCHANGED <<stored, enabled, setting, restarts>>
Disconnected(s) == /\ socket[s] = "closing"
                   /\ clients' = IF clients > 0 THEN clients - 1 ELSE 0
                   /\ socket' = [socket EXCEPT ![s] = "none"]
                   /\ UNCHANGED <<stored, enabled, setting, restarts>>

Restart == /\ restarts < MaxRestarts /\ restarts' = restarts + 1
           /\ enabled' = stored /\ setting' = {}
           /\ socket' = [s \in Sockets |-> "none"]
           /\ clients' = 0
           /\ UNCHANGED stored

Serve(s) == Connected(s) \/ Look(s) \/ Send(s) \/ Disconnected(s)

Next == \/ StoreSwitch \/ TurnSwitch
        \/ \E s \in Sockets : Accept(s) \/ Serve(s)
        \/ Restart

\* The event loop serves each socket.
Spec == Init /\ [][Next]_vars /\ \A s \in Sockets : WF_vars(Serve(s))

-----------------------------------------------------------------------------
(* The clients the status reports are those served, whatever way each of them    *)
(* went, so that the counter neither sticks nor is pinned at zero.               *)
ClientsCounted ==
    clients = Cardinality({s \in Sockets : socket[s] \in {"waiting", "sending", "closing"}})

(* Switching the access off closes the sockets that are open, also those that    *)
(* were accepted just before.                                                    *)
OffClosesSockets ==
    \A s \in Sockets : <>[]~enabled => <>[](socket[s] = "none")

=============================================================================
