------------------------------ MODULE LocalDrive -----------------------------
(* Driving from the local app: publish_velocity, stop_motion and the timer       *)
(* between them (ros_bridge.py), and /cmd_vel behind them. The handlers of HTTP  *)
(* requests and the timer's thread run beside each other, without a lock.        *)
EXTENDS WheelBase

CONSTANTS Durations, \* duration_ms of a request
          Debounce   \* the 0.15 s of stop_motion

VARIABLES timer,   \* _stop_timer: periods until it fires, 0 when there is none
          firing,  \* a timer's thread has begun and not yet run stop_motion
          stopAge  \* since _last_stop_motion_time

app == <<timer, firing, stopAge>>
driveVars == <<vars, app>>

Longest == CHOOSE d \in Durations : \A e \in Durations : e <= d

DriveTypeOK == /\ TypeOK
               /\ timer \in 0 .. Longest
               /\ firing \in BOOLEAN
               /\ stopAge \in Ages

DriveInit == Init /\ timer = 0 /\ firing = FALSE /\ stopAge = AgeCap

\* Another publisher of /cmd_vel; it may fall silent.
OtherCommand == /\ \E velocity \in {"still", "moving"} : OnCommand(velocity)
                /\ UNCHANGED app

\* publish_velocity; a timer that has begun to fire is past cancelling.
Drive == /\ timer' \in Durations
         /\ OnCommand("moving")
         /\ UNCHANGED <<firing, stopAge>>

PublishZero == /\ timer' = 0
               /\ OnCommand("still")
               /\ UNCHANGED <<firing, stopAge>>

(* stop_motion: a stop that follows another within the debounce is dropped,      *)
(* unless it is forced (stop_all), and with it the zero a timer was set for.     *)
Stop(force) == \/ /\ force \/ stopAge >= Debounce
                  /\ stopAge' = 0 /\ timer' = 0
                  /\ OnCommand("still")
               \/ /\ ~force /\ stopAge < Debounce
                  /\ UNCHANGED <<vars, timer, stopAge>>

StopRequest == \E force \in BOOLEAN : Stop(force) /\ UNCHANGED firing
TimerRuns == firing /\ firing' = FALSE /\ Stop(FALSE)

\* A timer that ends in this period starts its thread; it has run by the next.
TimePasses == /\ ~firing
              /\ Elapse
              /\ firing' = (timer = 1)
              /\ timer' = IF timer > 0 THEN timer - 1 ELSE 0
              /\ stopAge' = Older(stopAge)

DriveNext == \/ OtherCommand \/ Drive \/ PublishZero \/ StopRequest \/ TimerRuns \/ TimePasses
             \/ (Inputs \/ Watchdog) /\ UNCHANGED app

DriveSpec == DriveInit /\ [][DriveNext]_driveVars

=============================================================================
