-------------------------- MODULE DriveProperties --------------------------
(***************************************************************************)
(* What DriveControl promises, and a thing its comments promise.           *)
(***************************************************************************)
EXTENDS DriveControl

Orders == {"none", "p", "P", "d", "D", "v", "V", "O", "restarted"}

MotorTypeOK ==
  /\ pwm_enabled \in BOOLEAN
  /\ duty \in [Sides -> -100 .. 100]
  /\ target_pos \in [Sides -> {-1, 0, 1}]

LoopTypeOK ==
  /\ pc \in {"msg", "restart", "timed", "dist", "vel", "stop", "oa"}
  /\ first_time \in BOOLEAN
  /\ restart_at_head \in BOOLEAN
  /\ order \in Orders

Replies == [text : {"", "?", "Go Str", "Turn", "BAT LOW", "POWER OFF"}, volts : Int]

TypeOK == FlagsTypeOK /\ AvoidanceTypeOK /\ MotorTypeOK /\ LoopTypeOK /\ reply \in Replies

-----------------------------------------------------------------------------
(* Safety.                                                                 *)

Drivers == {"motor_dist_control", "motor_vel_control", "timed_pwm"}

(* Once a run is over ('s', an elapsed duration or a reached distance) and *)
(* obstacle avoidance is not on, the motors are off and no flag is left    *)
(* that could switch them on again, until the next command is accepted.    *)
HaltSticks ==
  (order = "none" /\ "obj_avoidance" \notin active) =>
     ~pwm_enabled /\ active \cap Drivers = {}

(* At most one of the three drivers of the motors is active, unless        *)
(* obstacle avoidance is; a distance run and a pending mf_motor_stop are   *)
(* never concurrent with obstacle avoidance, nor a stop with a timed PWM.  *)
OneDriver ==
  /\ "obj_avoidance" \notin active =>
        \A f, g \in Drivers : f \in active /\ g \in active => f = g
  /\ "obj_avoidance" \in active => "motor_dist_control" \notin active
  /\ "motor_stop" \in active =>
        "obj_avoidance" \notin active /\ "timed_pwm" \notin active

(* No deadline outlives its run to cut short a later one: a pending        *)
(* mf_motor_stop belongs to the 'D' or 'V' being executed, or to one that  *)
(* is already over, and a pending mf_timed_pwm to a 'P'.                   *)
NoForeignDeadline ==
  /\ "motor_stop" \in active => order \in {"D", "V", "none"}
  /\ "timed_pwm" \in active => order = "P"

(* The most milliseconds a duration of d may last: it is compared once per *)
(* iteration, so the rest of one iteration and all of the next may pass    *)
(* after the last comparison that found it not yet elapsed.                *)
Limit(d) == (IF d > 1 THEN d - 1 ELSE 0) + 2 * TicksPerLoop

(* The millisecond counter wraps (after 49 days) later than that.          *)
ASSUME ClockAssumption == \A d \in Durations : Limit(d) < TimeMod

(* A timed command keeps its deadline: as long as 'P', 'D' or 'V' is being *)
(* executed its timer flag is pending, and no more than Limit(duration)    *)
(* milliseconds have passed since it was accepted.  (A restart ends this   *)
(* promise: order is "restarted" then.)                                    *)
DeadlineKept ==
  /\ order = "P" =>
        /\ "timed_pwm" \in active
        /\ SecondsSince(last_trigger_time["timed_pwm"]) <= Limit(duration["timed_pwm"])
  /\ order \in {"D", "V"} =>
        /\ "motor_stop" \in active
        /\ SecondsSince(last_trigger_time["motor_stop"]) <= Limit(duration["motor_stop"])

(* The red LED shows that obstacle avoidance has taken over the wheels: it *)
(* is lit exactly while the task is on and has made its first decision,    *)
(* though Run_State_Machine lights it and Reset_Drive_Flags clears it.     *)
RedLedTruthful == red_led <=> ("obj_avoidance" \in active /\ OA_state # "INIT")

(* While obstacle avoidance is on nothing else touches its targets: the    *)
(* target velocities are the ones its state machine last chose.            *)
AvoidanceUndisturbed == "obj_avoidance" \in active => VelocityFitsState

-----------------------------------------------------------------------------
(* What makes these invariants inductive.                                  *)

(* A timed command that is being executed has its timer flag pending.      *)
Armed ==
  /\ order = "P" => "timed_pwm" \in active
  /\ order \in {"D", "V"} => "motor_stop" \in active

ControlInv == Armed /\ NoForeignDeadline /\ OneDriver /\ HaltSticks

(* The time a pending flag f has been waiting.  `Checked' are the places   *)
(* of an iteration after the handler of f: there the flag was found not    *)
(* elapsed in this very iteration, elsewhere in the one before.            *)
Waiting(f, Checked) ==
  f \in active =>
     /\ duration[f] \in Durations
     /\ SecondsSince(last_trigger_time[f]) <=
           Limit(duration[f]) - 2 * TicksPerLoop + ticks
             + (IF pc \in Checked THEN 0 ELSE TicksPerLoop)

WaitingInv ==
  /\ Waiting("timed_pwm", {"dist", "vel", "stop", "oa"})
  /\ Waiting("motor_stop", {"oa"})

-----------------------------------------------------------------------------
(* Liveness.                                                               *)

Rearm == \E f \in {"timed_pwm", "motor_stop"} :
            \/ duration'[f] # duration[f]
            \/ last_trigger_time'[f] # last_trigger_time[f]

(* Every timed command comes to its end, unless the host keeps renewing it *)
(* for ever as the joystick interface does with 'V'.                       *)
TimedRunEnds == \A c \in TimedOrders : (order = c ~> order # c) \/ []<><<Rearm>>_vars

-----------------------------------------------------------------------------
(* A statement of the comments that the code does not keep.                *)

(* Message_Handling_Init resets "all associated state flags": after a      *)
(* restart during a timed run nothing drives the motors.                   *)
RestartResetsAllFlags == order = "restarted" => active \cap Drivers = {}
=============================================================================
