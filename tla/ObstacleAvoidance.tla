-------------------------- MODULE ObstacleAvoidance --------------------------
(***************************************************************************)
(* Obstacle_Avoidance.c: the task that mf_obj_avoidance runs.  It reads    *)
(* the left and the right proximity sensor in two successive iterations of *)
(* the main loop and lets a decision state machine choose the target       *)
(* velocities in the third.                                                *)
(*                                                                         *)
(* Lengths are in units of 0.1 mm and velocities in 0.1 mm/s, which makes  *)
(* every constant of the source an integer.                                *)
(***************************************************************************)
EXTENDS MessageFlags

CONSTANTS HoldTimeout,   \* OA_HOLD_TIMEOUT
          NumLevels,     \* numLevels of Proximity.c: brightness levels tried
          UpdatePeriod   \* update_period of the motor controllers, in ms

ASSUME OAAssumption == /\ HoldTimeout \in Nat \ {0}
                       /\ NumLevels \in Nat \ {0}
                       /\ UpdatePeriod \in Nat

VARIABLES read_state, OA_state, alpha,
          count,        \* m_nLEDProxyCountLeft and m_nLEDProxyCountRight
          target_vel,   \* ctr_LeftMotor.target_vel and ctr_RightMotor.target_vel
          red_led       \* the red LED

oaVars == <<read_state, OA_state, alpha, count>>

Sides == {"LEFT", "RIGHT"}
Both(l, r) == [s \in Sides |-> IF s = "LEFT" THEN l ELSE r]

WHEEL_BASE == 980

DutyCycle_to_Velocity(dc) == Both(dc * 33 + 133, dc * 34 + 133)

OA_TURN_VELOCITY == 700
OA_OUTER_VELOCITY == 2170   \* OA_TURN_VELOCITY + WHEEL_BASE * OA_ANGLR_VELOCITY
OA_DRIVE_DC == 30

DriveStraight == DutyCycle_to_Velocity(OA_DRIVE_DC)
TurnLeft == Both(OA_TURN_VELOCITY, OA_OUTER_VELOCITY)
TurnRight == Both(OA_OUTER_VELOCITY, OA_TURN_VELOCITY)

Init_Obstacle_Avoidance ==
  /\ read_state' = "READ_L" /\ OA_state' = "INIT" /\ alpha' = 0

-----------------------------------------------------------------------------
(* The decision state machine.                                             *)

NothingSeen == \A s \in Sides : count[s] = 0

(* IR_Counts().m_eSide: a tie counts as an obstacle on the left.           *)
Mut_NearerSide == IF count["LEFT"] < count["RIGHT"] THEN "LEFT" ELSE "RIGHT"
NearerSide == IF count["LEFT"] >= count["RIGHT"] THEN "LEFT" ELSE "RIGHT"

Mut_Turn ==
  \/ NearerSide = "RIGHT" /\ OA_state' = "TURN_LEFT" /\ target_vel' = TurnRight
  \/ NearerSide = "LEFT" /\ OA_state' = "TURN_RIGHT" /\ target_vel' = TurnLeft

Turn ==
  \/ /\ NearerSide = "RIGHT"
     /\ OA_state' = "TURN_LEFT" /\ target_vel' = TurnLeft
  \/ /\ NearerSide = "LEFT"
     /\ OA_state' = "TURN_RIGHT" /\ target_vel' = TurnRight

DSM_Init ==
  /\ OA_state = "INIT"
  /\ \/ /\ NothingSeen
        /\ OA_state' = "DRIVE_STRAIGHT" /\ target_vel' = DriveStraight
     \/ ~NothingSeen /\ Turn
  /\ active' = active \cup {"motor_vel_control"}
  /\ duration' = [duration EXCEPT !["motor_vel_control"] = UpdatePeriod]
  /\ red_led' = TRUE
  /\ UNCHANGED alpha

DSM_DriveStraight ==
  /\ OA_state = "DRIVE_STRAIGHT"
  /\ \/ NothingSeen /\ UNCHANGED <<OA_state, target_vel>>
     \/ ~NothingSeen /\ Turn
  /\ UNCHANGED <<active, duration, red_led, alpha>>

DSM_Turning ==
  /\ OA_state \in {"TURN_LEFT", "TURN_RIGHT"}
  /\ OA_state' = IF NothingSeen THEN "HOLDING" ELSE OA_state
  /\ UNCHANGED <<active, duration, red_led, alpha, target_vel>>

Mut_DSM_Holding ==
  /\ OA_state = "HOLDING"
  /\ alpha' = alpha + 1
  /\ IF alpha + 1 >= HoldTimeout
     THEN OA_state' = "DRIVE_STRAIGHT" /\ target_vel' = DriveStraight
     ELSE UNCHANGED <<OA_state, target_vel>>
  /\ UNCHANGED <<active, duration, red_led>>

Mut2_DSM_Holding ==
  /\ OA_state = "HOLDING"
  /\ IF alpha >= HoldTimeout
     THEN alpha' = 0 /\ OA_state' = "DRIVE_STRAIGHT" /\ target_vel' = DriveStraight
     ELSE UNCHANGED <<alpha, OA_state, target_vel>>
  /\ UNCHANGED <<active, duration, red_led>>

DSM_Holding ==
  /\ OA_state = "HOLDING"
  /\ \/ /\ alpha + 1 >= HoldTimeout
        /\ alpha' = 0
        /\ OA_state' = "DRIVE_STRAIGHT" /\ target_vel' = DriveStraight
     \/ /\ alpha + 1 < HoldTimeout
        /\ alpha' = alpha + 1
        /\ UNCHANGED <<OA_state, target_vel>>
  /\ UNCHANGED <<active, duration, red_led>>

Run_State_Machine == DSM_Init \/ DSM_DriveStraight \/ DSM_Turning \/ DSM_Holding

-----------------------------------------------------------------------------
(* One call of Run_OA_Task.  IRRead counts the levels at which the pin was *)
(* low, any number of them.                                                *)

IRRead(side) ==
  /\ \E n \in 0 .. NumLevels : count' = [count EXCEPT ![side] = n]
  /\ UNCHANGED <<OA_state, alpha, target_vel, red_led, active, duration>>

ReadLeft == read_state = "READ_L" /\ IRRead("LEFT") /\ read_state' = "READ_R"

ReadRight == read_state = "READ_R" /\ IRRead("RIGHT") /\ read_state' = "RUN_DSM"

Decide ==
  /\ read_state = "RUN_DSM"
  /\ Run_State_Machine
  /\ read_state' = "READ_L"
  /\ UNCHANGED count

(* Main.c restarts the period of the flag only when the task need not run  *)
(* again at once, that is after a decision.                                *)
Run_OA_Task ==
  \/ (ReadLeft \/ ReadRight) /\ UNCHANGED last_trigger_time
  \/ /\ Decide
     /\ last_trigger_time' = [last_trigger_time EXCEPT !["obj_avoidance"] = now]

-----------------------------------------------------------------------------
AvoidanceTypeOK ==
  /\ read_state \in {"READ_L", "READ_R", "RUN_DSM"}
  /\ OA_state \in {"INIT", "DRIVE_STRAIGHT", "TURN_LEFT", "TURN_RIGHT", "HOLDING"}
  /\ alpha \in 0 .. HoldTimeout - 1
  /\ count \in [Sides -> 0 .. NumLevels]
  /\ target_vel \in [Sides -> Int]
  /\ red_led \in BOOLEAN

(* The target velocities always fit the state of the decision machine,     *)
(* though most of its cases leave them alone: straight in DRIVE_STRAIGHT,  *)
(* the turn in TURN_LEFT and TURN_RIGHT, and still one of the two turns    *)
(* while HOLDING.                                                          *)
VelocityFitsState ==
  CASE OA_state = "DRIVE_STRAIGHT" -> target_vel = DriveStraight
    [] OA_state = "TURN_LEFT" -> target_vel = TurnLeft
    [] OA_state = "TURN_RIGHT" -> target_vel = TurnRight
    [] OA_state = "HOLDING" -> target_vel \in {TurnLeft, TurnRight}
    [] OTHER -> TRUE
=============================================================================
