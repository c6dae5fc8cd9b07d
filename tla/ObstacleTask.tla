---------------------------- MODULE ObstacleTask ----------------------------
(***************************************************************************)
(* Obstacle avoidance on its own: an 'O' command has been accepted and no  *)
(* other command arrives.  This is main's loop reduced to the two parts    *)
(* that matter then, the mf_obj_avoidance flag and the millisecond timer.  *)
(* DriveControl composes the same task with every other handler.           *)
(***************************************************************************)
EXTENDS ObstacleAvoidance

CONSTANT TaskPeriods   \* the durations of 'O' commands, in milliseconds

ASSUME TaskAssumption == TaskPeriods \subseteq Nat \ {0}

taskVars == <<now, ticks, active, duration, last_trigger_time,
              read_state, OA_state, alpha, count, target_vel, red_led>>

TaskInit ==
  /\ now = 0 /\ ticks = 0
  /\ active = {"obj_avoidance"}
  /\ \E d \in TaskPeriods :
        duration = [f \in Flags |-> IF f = "obj_avoidance" THEN d
                                    ELSE IF f = "motor_vel_control" THEN 0 ELSE -1]
  /\ last_trigger_time = [f \in Flags |-> 0]
  /\ read_state = "READ_L" /\ OA_state = "INIT" /\ alpha = 0
  /\ count = Both(0, 0) /\ target_vel = Both(0, 0) /\ red_led = FALSE

TaskTick ==
  /\ TIMER0_COMPB_vect
  /\ UNCHANGED <<active, duration, last_trigger_time, read_state, OA_state, alpha,
                 count, target_vel, red_led>>

Loop_OA ==
  /\ ticks' = 0 /\ UNCHANGED now
  /\ \/ MSG_FLAG_Execute("obj_avoidance") /\ Run_OA_Task
     \/ /\ ~MSG_FLAG_Execute("obj_avoidance")
        /\ UNCHANGED <<active, duration, last_trigger_time, read_state, OA_state, alpha,
                       count, target_vel, red_led>>

TaskNext == TaskTick \/ Loop_OA

TaskSpec == TaskInit /\ [][TaskNext]_taskVars /\ WF_taskVars(TaskTick) /\ WF_taskVars(Loop_OA)

-----------------------------------------------------------------------------
(* Properties.                                                             *)

OATypeOK == FlagsTypeOK /\ AvoidanceTypeOK

(* Every hold is a whole one: alpha is zero whenever the car is not        *)
(* holding, so the HOLDING case counts OA_HOLD_TIMEOUT decisions each time *)
(* it is entered, however often obstacles came and went before.            *)
HoldIsWhole == OA_state # "HOLDING" => alpha = 0

(* A turn that begins slows the wheel on the side where fewer brightness   *)
(* levels were reflected: the car steers away from the nearer obstacle     *)
(* (IR_Counts together with the INIT and DRIVE_STRAIGHT cases).            *)
SteersAway ==
  [][ (OA_state' # OA_state /\ OA_state' \in {"TURN_LEFT", "TURN_RIGHT"}) =>
        IF target_vel'["LEFT"] < target_vel'["RIGHT"]
        THEN count["LEFT"] < count["RIGHT"]
        ELSE count["LEFT"] >= count["RIGHT"] ]_taskVars

(* When the road stays clear the car ends up driving straight for good,    *)
(* from whatever turn or hold it was in (the loop and the timer run).      *)
ClearRoadEndsStraight == <>[]NothingSeen => <>[](OA_state = "DRIVE_STRAIGHT")

(* When something stays in sight the car ends up turning for good: the     *)
(* HOLDING case, which ignores the sensors, only delays it.                *)
ObstacleEndsTurning ==
  <>[](~NothingSeen) => <>[](OA_state \in {"TURN_LEFT", "TURN_RIGHT"})
=============================================================================
