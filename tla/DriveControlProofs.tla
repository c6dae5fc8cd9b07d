------------------------- MODULE DriveControlProofs -------------------------
(***************************************************************************)
(* Proofs about DriveControl for every value of its constants: type        *)
(* correctness, and the safety invariants of DriveProperties.  And about   *)
(* obstacle avoidance on its own (ObstacleTask), for every length of the   *)
(* hold, every number of brightness levels and all periods of the task.    *)
(***************************************************************************)
EXTENDS DriveProperties, ObstacleTask, TLAPS

-----------------------------------------------------------------------------
(* The shape of a step.                                                    *)

(* A step of the loop's message handler is one of its cases.  (The clock   *)
(* and first_time are left alone by all of them.)                          *)
LEMMA MessageCases ==
  ASSUME Message_Handling_Task
  PROVE  \/ NoDriveCommand
         \/ Command_restart
         \/ Command_s
         \/ \E l, r \in Duties : Command_p(l, r)
         \/ \E l, r \in Duties, d \in Durations : Command_P(l, r, d)
         \/ \E l \in Linears, a \in Angulars : Command_d(l, a)
         \/ \E l \in Linears, a \in Angulars, d \in Durations : Command_D(l, a, d)
         \/ \E v \in Velocities, a \in Angulars : Command_v(v, a)
         \/ \E v \in Velocities, a \in Angulars, d \in Durations : Command_V(v, a, d)
         \/ \E d \in Durations : Command_O(d)
         \/ Refuse("?", 0)
         \/ \E b \in BatteryReadings : Refuse(PwmRefusal(b), b)
         \/ \E b \in BatteryReadings : Refuse(DriveRefusal(b), b)
BY Zenon DEF Message_Handling_Task, Drive, PowerRefusal

-----------------------------------------------------------------------------
(* The operators.                                                          *)

(* A value for each wheel makes a function of the two.                     *)
LEMMA BothType ==
  ASSUME NEW S, NEW l \in S, NEW r \in S
  PROVE  Both(l, r) \in [Sides -> S]
BY DEF Both, Sides

(* The same for integers, with the bounds inside the statement.            *)
LEMMA IntPair == \A l, r \in Int : Both(l, r) \in [Sides -> Int]
BY DEF Both, Sides

(* Whatever duty cycle is asked for, the one set is within 100 percent.    *)
LEMMA MotorPWMType ==
  ASSUME NEW d \in [Sides -> Int], Motor_PWM(d)
  PROVE  duty' \in [Sides -> -100 .. 100]
BY DEF Motor_PWM, Clamp

(* The division of Velocity_to_DutyCycle_* gives an integer for each       *)
(* wheel.                                                                  *)
LEMMA DutyCycleType ==
  ASSUME NEW v \in [Sides -> Int]
  PROVE  Velocity_to_DutyCycle(v) \in [Sides -> Int]
BY DEF Velocity_to_DutyCycle, TruncDiv, Both, Sides

(* The targets that commands and obstacle avoidance set as constants.      *)
LEMMA TargetTypes ==
  /\ Both(0, 0) \in [Sides -> Int]
  /\ Both(0, 0) \in [Sides -> {-1, 0, 1}]
  /\ DriveStraight \in [Sides -> Int]
  /\ TurnLeft \in [Sides -> Int]
  /\ TurnRight \in [Sides -> Int]
BY DEF DriveStraight, TurnLeft, TurnRight, DutyCycle_to_Velocity, OA_DRIVE_DC,
       OA_TURN_VELOCITY, OA_OUTER_VELOCITY, Both, Sides

(* The targets that 'd' and 'D' compute, spin or arc.                      *)
LEMMA DistanceTypes ==
  ASSUME NEW l \in Int, NEW a \in Int
  PROVE  /\ DistancePosition(l, a) \in [Sides -> {-1, 0, 1}]
         /\ DistanceVelocity(l, a) \in [Sides -> Int]
<1>1. DistancePosition(l, a) \in [Sides -> {-1, 0, 1}]
  <2>1. \A x \in Int : Sign(x) \in {-1, 0, 1} /\ (-1) * Sign(x) \in {-1, 0, 1}
    BY DEF Sign
  <2>2. \A x, y \in {-1, 0, 1} : Both(x, y) \in [Sides -> {-1, 0, 1}]
    BY BothType, Zenon
  <2> QED
    BY <2>1, <2>2 DEF DistancePosition, SpinSigns
<1>2. ASSUME ~(Abs(l) < MIN_TURN_ARC)
      PROVE  OuterVelocity(l, a) \in Int
  <2>1. Abs(l) \in Nat \ {0} /\ Abs(a) \in Nat
    BY <1>2 DEF Abs, MIN_TURN_ARC
  <2>2. TURN_VELOCITY * (Abs(l) + Abs(a) * WHEEL_BASE) \in Nat
    BY <2>1 DEF TURN_VELOCITY, WHEEL_BASE
  <2>3. \A x \in Nat, y \in Nat \ {0} : x \div y \in Int
    OBVIOUS
  <2> QED
    BY <2>1, <2>2, <2>3 DEF OuterVelocity
<1>3. DistanceVelocity(l, a) \in [Sides -> Int]
  BY <1>2, IntPair DEF DistanceVelocity, DutyCycle_to_Velocity, SPIN_DUTYCYCLE, TURN_VELOCITY
<1> QED
  BY <1>1, <1>3

(* The targets that 'v' and 'V' compute.                                   *)
LEMMA VelocityTypes ==
  ASSUME NEW v \in Int, NEW a \in Int
  PROVE  VelocityTargets(v, a) \in [Sides -> Int]
BY IntPair DEF VelocityTargets, WHEEL_BASE

-----------------------------------------------------------------------------
(* Type correctness.                                                       *)

(* No answer is one of the answers.                                        *)
LEMMA NoReplyType == NoReply \in Replies
BY DEF NoReply, Replies

(* The answers that announce a run.                                        *)
LEMMA AnswerType ==
  [text |-> "Go Str", volts |-> 0] \in Replies /\ [text |-> "Turn", volts |-> 0] \in Replies
BY DEF Replies

(* The state after the initialisation has its types.                       *)
LEMMA InitType == Init => TypeOK
<1> SUFFICES ASSUME Init PROVE TypeOK
  OBVIOUS
<1>1. FlagsTypeOK
  BY TimeAssumption DEF Init, FlagsInit, FlagsTypeOK, Flags, ReinitialisedFlags, Time
<1>2. AvoidanceTypeOK
  <2>1. Both(0, 0) \in [Sides -> 0 .. NumLevels]
    BY OAAssumption DEF Both, Sides
  <2>2. 0 \in 0 .. HoldTimeout - 1
    BY OAAssumption
  <2> QED
    BY <2>1, <2>2, TargetTypes DEF Init, AvoidanceTypeOK
<1>3. MotorTypeOK
  <2>1. Both(100, 100) \in [Sides -> -100 .. 100]
    BY DEF Both, Sides
  <2> QED
    BY <2>1, TargetTypes DEF Init, MotorTypeOK
<1>4. LoopTypeOK
  BY DEF Init, LoopTypeOK, Orders
<1> QED
  BY <1>1, <1>2, <1>3, <1>4, NoReplyType DEF Init, TypeOK

(* What the handlers do to the motors and the targets.                     *)
LEMMA MotorsOffType == MotorsOff => pwm_enabled' \in BOOLEAN /\ duty' \in [Sides -> -100 .. 100]
BY TargetTypes, MotorPWMType DEF MotorsOff

(* Setting the targets to zero keeps their types.                          *)
LEMMA TargetsZeroType ==
  TargetsZero => target_pos' \in [Sides -> {-1, 0, 1}] /\ target_vel' \in [Sides -> Int]
BY TargetTypes DEF TargetsZero

(* A step that leaves the flags and the clock alone keeps their types.     *)
LEMMA FlagsSame == FlagsTypeOK /\ UNCHANGED <<now, ticks, active, duration, last_trigger_time>> => FlagsTypeOK'
BY DEF FlagsTypeOK

(* So does one that leaves obstacle avoidance alone,                       *)
LEMMA AvoidanceSame == AvoidanceTypeOK /\ UNCHANGED <<oaVars, target_vel, red_led>> => AvoidanceTypeOK'
BY DEF AvoidanceTypeOK, oaVars

(* the motors and the target positions,                                    *)
LEMMA MotorSame == MotorTypeOK /\ UNCHANGED <<motorVars, target_pos>> => MotorTypeOK'
BY DEF MotorTypeOK, motorVars

(* or the variables of main's loop.                                        *)
LEMMA LoopSame == LoopTypeOK /\ UNCHANGED <<pc, first_time, restart_at_head, order>> => LoopTypeOK'
BY DEF LoopTypeOK

(* Every command, accepted or refused, keeps the types.                    *)
LEMMA MessageType == TypeOK /\ Message_Handling_Task => TypeOK'
<1> SUFFICES ASSUME TypeOK, Message_Handling_Task
             PROVE  TypeOK'
  OBVIOUS
<1>0. pc' = "restart" /\ UNCHANGED <<now, ticks, first_time>>
  BY DEF Message_Handling_Task, clockVars
<1>t. now \in Time /\ active \subseteq Flags /\ duration \in [Flags -> Int]
      /\ last_trigger_time \in [Flags -> Time]
  BY DEF TypeOK, FlagsTypeOK
<1>f. ASSUME active' \subseteq Flags, duration' \in [Flags -> Int], last_trigger_time' \in [Flags -> Time]
      PROVE  FlagsTypeOK'
  BY <1>f, <1>0 DEF TypeOK, FlagsTypeOK
<1>l. ASSUME order' \in Orders, UNCHANGED restart_at_head
      PROVE  LoopTypeOK'
  BY <1>l, <1>0 DEF TypeOK, LoopTypeOK
<1> USE NoReplyType, DriveAssumption, FlagsSame, AvoidanceSame, MotorSame
    DEF flagVars, motorVars
<1>1. CASE NoDriveCommand
  <2>1. LoopTypeOK'
    BY <1>1, <1>0 DEF NoDriveCommand, TypeOK, LoopTypeOK
  <2> QED
    BY <1>1, <1>0, <2>1 DEF NoDriveCommand, TypeOK
<1>2. CASE Command_restart
  <2>1. FlagsTypeOK'
    BY <1>2, <1>f, <1>t DEF Command_restart, Flags
  <2>2. LoopTypeOK'
    BY <1>2, <1>0 DEF Command_restart, TypeOK, LoopTypeOK
  <2> QED
    BY <1>2, <2>1, <2>2 DEF Command_restart, TypeOK
<1>3. CASE Command_s
  <2>1. FlagsTypeOK'
    BY <1>3, <1>f, <1>t DEF Command_s, Reset_Drive_Flags
  <2>2. LoopTypeOK'
    BY <1>3, <1>l DEF Command_s, Orders
  <2>3. AvoidanceTypeOK' /\ MotorTypeOK'
    BY <1>3, MotorsOffType, TargetsZeroType
       DEF Command_s, TypeOK, AvoidanceTypeOK, MotorTypeOK, oaVars
  <2> QED
    BY <1>3, <2>1, <2>2, <2>3 DEF Command_s, TypeOK
<1>4. ASSUME NEW l \in Duties, NEW r \in Duties, Command_p(l, r)
      PROVE  TypeOK'
  <2>1. duty' \in [Sides -> -100 .. 100]
    BY <1>4, IntPair, MotorPWMType DEF Command_p
  <2>2. FlagsTypeOK'
    BY <1>4, <1>f, <1>t DEF Command_p, PwmFlags
  <2>3. LoopTypeOK'
    BY <1>4, <1>l DEF Command_p, Orders
  <2>4. MotorTypeOK'
    BY <1>4, <2>1 DEF Command_p, TypeOK, MotorTypeOK
  <2> QED
    BY <1>4, <2>2, <2>3, <2>4 DEF Command_p, TypeOK
<1>5. ASSUME NEW l \in Duties, NEW r \in Duties, NEW d \in Durations, Command_P(l, r, d)
      PROVE  TypeOK'
  <2>1. duty' \in [Sides -> -100 .. 100]
    BY <1>5, IntPair, MotorPWMType DEF Command_P
  <2>2. FlagsTypeOK'
    <3>1. active' \subseteq Flags
      BY <1>5, <1>t DEF Command_P, PwmFlags, Flags
    <3> QED
      BY <1>5, <3>1, <1>f, <1>t DEF Command_P, Arm
  <2>3. LoopTypeOK'
    BY <1>5, <1>l DEF Command_P, Orders
  <2>4. MotorTypeOK'
    BY <1>5, <2>1 DEF Command_P, TypeOK, MotorTypeOK
  <2> QED
    BY <1>5, <2>2, <2>3, <2>4 DEF Command_P, TypeOK
<1>6. ASSUME NEW cmd \in Orders, NEW a \in Int,
             NEW pos \in [Sides -> {-1, 0, 1}], NEW vel \in [Sides -> Int],
             BeginRun(cmd, a, pos, vel), FlagsTypeOK'
      PROVE  TypeOK'
  <2>1. LoopTypeOK'
    BY <1>6, <1>l DEF BeginRun
  <2>2. AvoidanceTypeOK' /\ MotorTypeOK'
    BY <1>6 DEF BeginRun, TypeOK, AvoidanceTypeOK, MotorTypeOK, oaVars
  <2>3. reply' \in Replies
    <3>1. CASE a = 0
      <4>1. reply' = [text |-> "Go Str", volts |-> 0]
        BY <1>6, <3>1 DEF BeginRun, Answer
      <4> QED
        BY <4>1, AnswerType
    <3>2. CASE a # 0
      <4>1. reply' = [text |-> "Turn", volts |-> 0]
        BY <1>6, <3>2 DEF BeginRun, Answer
      <4> QED
        BY <4>1, AnswerType
    <3> QED
      BY <3>1, <3>2
  <2> QED
    BY <1>6, <2>1, <2>2, <2>3 DEF TypeOK
<1>7. ASSUME NEW f \in Flags, Raise(f)
      PROVE  FlagsTypeOK'
  BY <1>7, <1>f, <1>t, OAAssumption DEF Raise, Reset_Drive_Flags
<1>8. ASSUME NEW f \in Flags, NEW d \in Durations, RaiseTimed(f, d)
      PROVE  FlagsTypeOK'
  <2>1. active' \subseteq Flags
    BY <1>8, <1>t DEF RaiseTimed, Reset_Drive_Flags, Flags
  <2> QED
    BY <1>8, <2>1, <1>f, <1>t, OAAssumption DEF RaiseTimed
<1>9. ASSUME NEW l \in Linears, NEW a \in Angulars, Command_d(l, a)
      PROVE  TypeOK'
  <2>1. l \in Int /\ a \in Int /\ "motor_dist_control" \in Flags /\ "d" \in Orders
    BY DEF Flags, Orders
  <2> QED
    BY <1>9, <2>1, <1>6, <1>7, DistanceTypes, Zenon DEF Command_d
<1>10. ASSUME NEW l \in Linears, NEW a \in Angulars, NEW d \in Durations, Command_D(l, a, d)
       PROVE  TypeOK'
  <2>1. l \in Int /\ a \in Int /\ "motor_dist_control" \in Flags /\ "D" \in Orders
    BY DEF Flags, Orders
  <2> QED
    BY <1>10, <2>1, <1>6, <1>8, DistanceTypes, Zenon DEF Command_D
<1>11. ASSUME NEW v \in Velocities, NEW a \in Angulars, Command_v(v, a)
       PROVE  TypeOK'
  <2>1. v \in Int /\ a \in Int /\ "motor_vel_control" \in Flags /\ "v" \in Orders
    BY DEF Flags, Orders
  <2> QED
    BY <1>11, <2>1, <1>6, <1>7, VelocityTypes, TargetTypes, Zenon DEF Command_v
<1>12. ASSUME NEW v \in Velocities, NEW a \in Angulars, NEW d \in Durations, Command_V(v, a, d)
       PROVE  TypeOK'
  <2>1. v \in Int /\ a \in Int /\ "motor_vel_control" \in Flags /\ "V" \in Orders
    BY DEF Flags, Orders
  <2> QED
    BY <1>12, <2>1, <1>6, <1>8, VelocityTypes, TargetTypes, Zenon DEF Command_V
<1>13. ASSUME NEW d \in Durations, Command_O(d)
       PROVE  TypeOK'
  <2>1. FlagsTypeOK'
    BY <1>13, <1>f, <1>t DEF Command_O, Reset_Drive_Flags, Flags
  <2>2. LoopTypeOK'
    BY <1>13, <1>l DEF Command_O, Orders
  <2>3. AvoidanceTypeOK'
    <3>1. 0 \in 0 .. HoldTimeout - 1
      BY OAAssumption
    <3> QED
      BY <1>13, <3>1 DEF Command_O, Init_Obstacle_Avoidance, TypeOK, AvoidanceTypeOK
  <2> QED
    BY <1>13, <2>1, <2>2, <2>3 DEF Command_O, TypeOK
<1>14. ASSUME NEW t \in {"?", "BAT LOW", "POWER OFF"}, NEW b \in Int, Refuse(t, b)
       PROVE  TypeOK'
  <2>1. LoopTypeOK'
    BY <1>14, <1>0 DEF Refuse, TypeOK, LoopTypeOK
  <2>2. reply' \in Replies
    BY <1>14 DEF Refuse, Replies
  <2> QED
    BY <1>14, <1>0, <2>1, <2>2 DEF Refuse, TypeOK
<1>15. ASSUME NEW b \in BatteryReadings
       PROVE  b \in Int /\ PwmRefusal(b) \in {"?", "BAT LOW", "POWER OFF"}
                        /\ DriveRefusal(b) \in {"?", "BAT LOW", "POWER OFF"}
  BY DEF PwmRefusal, DriveRefusal
<1>16. Refuse("?", 0) => TypeOK'
  <2>1. "?" \in {"?", "BAT LOW", "POWER OFF"} /\ 0 \in Int
    OBVIOUS
  <2> QED
    BY <1>14, <2>1, Zenon
<1> QED
  BY MessageCases, <1>1, <1>2, <1>3, <1>4, <1>5, <1>9, <1>10, <1>11, <1>12, <1>13,
     <1>14, <1>15, <1>16, Zenon

(* The handlers of the loop.  None touches a duration's or a time's type.  *)
LEMMA HandlerType ==
  TypeOK /\ (\/ Restart \/ Timed_PWM \/ Dist_First \/ Dist_Done \/ Dist_Drive
             \/ Vel_First \/ Vel_Drive \/ Motor_Stop) => TypeOK'
<1> SUFFICES ASSUME TypeOK PROVE
       (\/ Restart \/ Timed_PWM \/ Dist_First \/ Dist_Done \/ Dist_Drive
        \/ Vel_First \/ Vel_Drive \/ Motor_Stop) => TypeOK'
  OBVIOUS
<1>t. now \in Time /\ active \subseteq Flags /\ duration \in [Flags -> Int]
      /\ last_trigger_time \in [Flags -> Time] /\ target_vel \in [Sides -> Int]
  BY DEF TypeOK, FlagsTypeOK, AvoidanceTypeOK
<1>r. ASSUME NEW p, NEW q \in {"timed", "dist", "vel", "stop", "oa"}, NEW f, Run(p, q, f)
      PROVE  /\ reply' \in Replies
             /\ pc' \in {"msg", "restart", "timed", "dist", "vel", "stop", "oa"}
             /\ UNCHANGED <<now, ticks, restart_at_head>>
  BY <1>r, NoReplyType DEF Run, clockVars
<1>f. ASSUME active' \subseteq Flags, duration' \in [Flags -> Int],
             last_trigger_time' \in [Flags -> Time], UNCHANGED <<now, ticks>>
      PROVE  FlagsTypeOK'
  BY <1>f DEF TypeOK, FlagsTypeOK
<1>l. ASSUME order' \in Orders,
             first_time' \in BOOLEAN, UNCHANGED restart_at_head,
             pc' \in {"msg", "restart", "timed", "dist", "vel", "stop", "oa"}
      PROVE  LoopTypeOK'
  BY <1>l DEF TypeOK, LoopTypeOK
<1>h. /\ order \in Orders
      /\ first_time \in BOOLEAN /\ "none" \in Orders /\ "restarted" \in Orders
  BY DEF TypeOK, LoopTypeOK, Orders
<1> USE AvoidanceSame, MotorSame DEF flagVars, motorVars
<1>1. CASE Restart
  <2>1. Run("restart", "timed", "restart")
    BY <1>1 DEF Restart
  <2>2. FlagsTypeOK'
    <3>1. 0 \in Time
      BY TimeAssumption DEF Time
    <3> QED
      BY <1>1, <2>1, <3>1, <1>r, <1>f, <1>t DEF Restart, Message_Handling_Init
  <2>3. LoopTypeOK'
    BY <1>1, <2>1, <1>r, <1>l, <1>h DEF Restart
  <2> QED
    BY <1>1, <2>1, <2>2, <2>3, <1>r DEF Restart, TypeOK
<1>2. CASE Timed_PWM
  <2>1. Run("timed", "dist", "timed_pwm")
    BY <1>2 DEF Timed_PWM
  <2>2. FlagsTypeOK'
    BY <1>2, <2>1, <1>r, <1>f, <1>t DEF Timed_PWM
  <2>3. LoopTypeOK'
    BY <1>2, <2>1, <1>r, <1>l, <1>h DEF Timed_PWM
  <2>4. MotorTypeOK'
    BY <1>2, MotorsOffType DEF Timed_PWM, TypeOK, MotorTypeOK
  <2> QED
    BY <1>2, <2>1, <2>2, <2>3, <2>4, <1>r DEF Timed_PWM, TypeOK
<1>3. CASE Dist_First
  <2>1. Run("dist", "vel", "motor_dist_control")
    BY <1>3 DEF Dist_First
  <2>2. FlagsTypeOK'
    BY <1>3, <2>1, <1>r, FlagsSame DEF Dist_First, TypeOK
  <2>3. LoopTypeOK'
    BY <1>3, <2>1, <1>r, <1>l, <1>h DEF Dist_First
  <2> QED
    BY <1>3, <2>1, <2>2, <2>3, <1>r DEF Dist_First, TypeOK
<1>4. CASE Dist_Done
  <2>1. Run("dist", "vel", "motor_dist_control")
    BY <1>4 DEF Dist_Done
  <2>2. FlagsTypeOK'
    BY <1>4, <2>1, <1>r, <1>f, <1>t DEF Dist_Done
  <2>3. LoopTypeOK'
    BY <1>4, <2>1, <1>r, <1>l, <1>h DEF Dist_Done
  <2>4. AvoidanceTypeOK' /\ MotorTypeOK'
    BY <1>4, MotorsOffType, TargetsZeroType DEF Dist_Done, TypeOK, MotorTypeOK, AvoidanceTypeOK, oaVars
  <2> QED
    BY <1>4, <2>1, <2>2, <2>3, <2>4, <1>r DEF TypeOK
<1>5. CASE Dist_Drive
  <2>1. Run("dist", "vel", "motor_dist_control")
    BY <1>5 DEF Dist_Drive
  <2>2. FlagsTypeOK'
    BY <1>5, <2>1, <1>r, <1>f, <1>t DEF Dist_Drive
  <2>3. LoopTypeOK'
    BY <1>5, <2>1, <1>r, <1>l, <1>h DEF Dist_Drive
  <2>4. LeftToGo \in [Sides -> {-1, 0, 1}]
    BY DEF LeftToGo
  <2>5. [s \in Sides |-> LeftToGo[s] * Velocity_to_DutyCycle(target_vel)[s]] \in [Sides -> Int]
    BY <2>4, <1>t, DutyCycleType
  <2>6. MotorTypeOK'
    BY <1>5, <2>4, <2>5, MotorPWMType DEF Dist_Drive, MotorTypeOK
  <2> QED
    BY <1>5, <2>1, <2>2, <2>3, <2>6, <1>r DEF Dist_Drive, TypeOK
<1>6. CASE Vel_First
  <2>1. Run("vel", "stop", "motor_vel_control")
    BY <1>6 DEF Vel_First
  <2>2. FlagsTypeOK'
    BY <1>6, <2>1, <1>r, FlagsSame DEF Vel_First, TypeOK
  <2>3. LoopTypeOK'
    BY <1>6, <2>1, <1>r, <1>l, <1>h DEF Vel_First
  <2> QED
    BY <1>6, <2>1, <2>2, <2>3, <1>r DEF Vel_First, TypeOK
<1>7. CASE Vel_Drive
  <2>1. Run("vel", "stop", "motor_vel_control")
    BY <1>7 DEF Vel_Drive
  <2>2. FlagsTypeOK'
    BY <1>7, <2>1, <1>r, <1>f, <1>t DEF Vel_Drive
  <2>3. LoopTypeOK'
    BY <1>7, <2>1, <1>r, <1>l, <1>h DEF Vel_Drive
  <2>4. MotorTypeOK'
    BY <1>7, <1>t, DutyCycleType, MotorPWMType DEF Vel_Drive, TypeOK, MotorTypeOK
  <2> QED
    BY <1>7, <2>1, <2>2, <2>3, <2>4, <1>r DEF Vel_Drive, TypeOK
<1>8. CASE Motor_Stop
  <2>1. Run("stop", "oa", "motor_stop")
    BY <1>8 DEF Motor_Stop
  <2>2. FlagsTypeOK'
    BY <1>8, <2>1, <1>r, <1>f, <1>t DEF Motor_Stop
  <2>3. LoopTypeOK'
    BY <1>8, <2>1, <1>r, <1>l, <1>h DEF Motor_Stop
  <2>4. AvoidanceTypeOK' /\ MotorTypeOK'
    BY <1>8, MotorsOffType, TargetsZeroType DEF Motor_Stop, TypeOK, MotorTypeOK, AvoidanceTypeOK, oaVars
  <2> QED
    BY <1>8, <2>1, <2>2, <2>3, <2>4, <1>r DEF TypeOK
<1> QED
  BY <1>1, <1>2, <1>3, <1>4, <1>5, <1>6, <1>7, <1>8, Zenon

(* Obstacle avoidance; alpha never reaches the hold timeout.               *)
LEMMA ObjAvoidanceType == TypeOK /\ Obj_Avoidance => TypeOK'
<1> SUFFICES ASSUME TypeOK, Obj_Avoidance PROVE TypeOK'
  OBVIOUS
<1>t. now \in Time /\ active \subseteq Flags /\ duration \in [Flags -> Int]
      /\ last_trigger_time \in [Flags -> Time]
  BY DEF TypeOK, FlagsTypeOK
<1>u. /\ UNCHANGED <<now, motorVars, target_pos, first_time, restart_at_head, order>>
      /\ ticks' = 0 /\ pc' = "msg" /\ reply' = NoReply
  BY DEF Obj_Avoidance
<1>a. LoopTypeOK' /\ MotorTypeOK' /\ reply' \in Replies
  <2>1. LoopTypeOK'
    BY <1>u DEF TypeOK, LoopTypeOK
  <2> QED
    BY <1>u, <2>1, MotorSame, NoReplyType DEF TypeOK
<1>f. ASSUME active' \subseteq Flags, duration' \in [Flags -> Int], last_trigger_time' \in [Flags -> Time]
      PROVE  FlagsTypeOK'
  BY <1>f, <1>u, TimeAssumption DEF TypeOK, FlagsTypeOK
<1> USE DEF oaVars, flagVars
<1>1. CASE UNCHANGED <<flagVars, oaVars, target_vel, red_led>>
  BY <1>1, <1>a, <1>f, <1>t, AvoidanceSame DEF TypeOK
<1>2. CASE ReadLeft \/ ReadRight
  <2>1. CASE UNCHANGED last_trigger_time
    <3>1. count' \in [Sides -> 0 .. NumLevels]
      BY <1>2 DEF ReadLeft, ReadRight, IRRead, TypeOK, AvoidanceTypeOK
    <3>2. AvoidanceTypeOK'
      BY <1>2, <3>1 DEF ReadLeft, ReadRight, IRRead, TypeOK, AvoidanceTypeOK
    <3>3. FlagsTypeOK'
      BY <1>2, <2>1, <1>f, <1>t DEF ReadLeft, ReadRight, IRRead
    <3> QED
      BY <3>2, <3>3, <1>a DEF TypeOK
  <2> QED
    BY <1>2, <2>1, <1>1 DEF Obj_Avoidance, Run_OA_Task, Decide, ReadLeft, ReadRight
<1>3. CASE Decide /\ last_trigger_time' = [last_trigger_time EXCEPT !["obj_avoidance"] = now]
  <2>1. last_trigger_time' \in [Flags -> Time]
    BY <1>3, <1>t
  <2>2. Turn => OA_state' \in {"TURN_LEFT", "TURN_RIGHT"} /\ target_vel' \in [Sides -> Int]
    BY TargetTypes DEF Turn
  <2>s. read_state' = "READ_L" /\ count' = count
    BY <1>3 DEF Decide
  <2>3. CASE DSM_Init
    <3>1. FlagsTypeOK'
      <4>1. active' \subseteq Flags
        BY <2>3, <1>t DEF DSM_Init, Flags
      <4>2. duration' \in [Flags -> Int]
        <5>1. UpdatePeriod \in Int
          BY OAAssumption
        <5> QED
          BY <2>3, <1>t, <5>1 DEF DSM_Init
      <4> QED
        BY <4>1, <4>2, <2>1, <1>f
    <3>2. AvoidanceTypeOK'
      BY <2>3, <2>s, <2>2, TargetTypes DEF DSM_Init, TypeOK, AvoidanceTypeOK
    <3> QED
      BY <3>1, <3>2, <1>a DEF TypeOK
  <2>4. CASE DSM_DriveStraight
    <3>1. FlagsTypeOK'
      BY <2>4, <2>1, <1>f, <1>t DEF DSM_DriveStraight
    <3>2. AvoidanceTypeOK'
      BY <2>4, <2>s, <2>2 DEF DSM_DriveStraight, TypeOK, AvoidanceTypeOK
    <3> QED
      BY <3>1, <3>2, <1>a DEF TypeOK
  <2>5. CASE DSM_Turning
    <3>1. FlagsTypeOK'
      BY <2>5, <2>1, <1>f, <1>t DEF DSM_Turning
    <3>2. AvoidanceTypeOK'
      BY <2>5, <2>s DEF DSM_Turning, TypeOK, AvoidanceTypeOK
    <3> QED
      BY <3>1, <3>2, <1>a DEF TypeOK
  <2>6. CASE DSM_Holding
    <3>1. FlagsTypeOK'
      BY <2>6, <2>1, <1>f, <1>t DEF DSM_Holding
    <3>2. alpha' \in 0 .. HoldTimeout - 1
      BY <2>6, OAAssumption DEF DSM_Holding, TypeOK, AvoidanceTypeOK
    <3>3. AvoidanceTypeOK'
      BY <2>6, <2>s, <3>2, TargetTypes DEF DSM_Holding, TypeOK, AvoidanceTypeOK
    <3> QED
      BY <3>1, <3>3, <1>a DEF TypeOK
  <2> QED
    BY <1>3, <2>3, <2>4, <2>5, <2>6 DEF Decide, Run_State_Machine
<1> QED
  BY <1>1, <1>2, <1>3, Zenon DEF Obj_Avoidance, Run_OA_Task

(* The timer interrupt keeps the types.                                    *)
LEMMA TickType == TypeOK /\ Tick => TypeOK'
<1> SUFFICES ASSUME TypeOK, Tick PROVE TypeOK'
  OBVIOUS
<1>1. FlagsTypeOK'
  BY TimeAssumption DEF Tick, TIMER0_COMPB_vect, TypeOK, FlagsTypeOK, Time, flagVars
<1> QED
  BY <1>1, AvoidanceSame, MotorSame, LoopSame DEF Tick, TypeOK

(* A handler whose flag is not due keeps the types.                        *)
LEMMA SkipType ==
  ASSUME TypeOK, NEW p, NEW q \in {"timed", "dist", "vel", "stop", "oa"}, NEW f, Skip(p, q, f)
  PROVE  TypeOK'
<1>1. LoopTypeOK'
  BY DEF Skip, TypeOK, LoopTypeOK
<1> QED
  BY <1>1, FlagsSame, AvoidanceSame, MotorSame, NoReplyType DEF Skip, TypeOK, clockVars, flagVars

(* TypeOK is inductive: one case per handler of main's loop.               *)
LEMMA TypeStep == TypeOK /\ [Next]_vars => TypeOK'
<1> SUFFICES ASSUME TypeOK, [Next]_vars PROVE TypeOK'
  OBVIOUS
<1>1. CASE UNCHANGED vars
  <2> USE <1>1 DEF vars
  <2>1. reply' \in Replies
    BY DEF TypeOK
  <2> QED
    BY <2>1, FlagsSame, AvoidanceSame, MotorSame, LoopSame
       DEF TypeOK, oaVars, motorVars
<1>2. CASE UsbOverflow
  <2>1. LoopTypeOK' /\ reply' \in Replies
    BY <1>2 DEF UsbOverflow, TypeOK, LoopTypeOK
  <2> QED
    BY <1>2, <2>1, FlagsSame, AvoidanceSame, MotorSame DEF UsbOverflow, TypeOK, clockVars, flagVars
<1> QED
  BY <1>1, <1>2, MessageType, HandlerType, ObjAvoidanceType, TickType, SkipType DEF Next, Main

(* TypeOK holds in every reachable state: among other things every duty    *)
(* cycle set is within 100 percent (Motor_PWM_Left and _Right clamp it)    *)
(* and alpha stays below OA_HOLD_TIMEOUT.                                  *)
THEOREM TypeCorrect == Spec => []TypeOK
BY InitType, TypeStep, PTL DEF Spec

-----------------------------------------------------------------------------
(* Which flags may be active, and when the motors are on.                  *)

(* After the initialisation no flag is active.                             *)
LEMMA ControlInit == Init => ControlInv
BY DEF Init, FlagsInit, ControlInv, Armed, NoForeignDeadline, OneDriver, HaltSticks, Drivers

(* A command takes down what could drive besides it, or changes nothing.   *)
LEMMA ControlMessage == ControlInv /\ Message_Handling_Task => ControlInv'
<1> SUFFICES ASSUME ControlInv, Message_Handling_Task
             PROVE  ControlInv'
  OBVIOUS
<1> USE DEF ControlInv, Armed, NoForeignDeadline, OneDriver, HaltSticks, Drivers,
            flagVars, motorVars
<1>1. CASE NoDriveCommand
  BY <1>1 DEF NoDriveCommand
<1>2. CASE Command_restart
  BY <1>2 DEF Command_restart
<1>3. CASE Command_s
  BY <1>3 DEF Command_s, Reset_Drive_Flags, DriveFlags, MotorsOff
<1>4. ASSUME NEW l, NEW r, Command_p(l, r)
      PROVE  ControlInv'
  BY <1>4 DEF Command_p, PwmFlags
<1>5. ASSUME NEW l, NEW r, NEW d, Command_P(l, r, d)
      PROVE  ControlInv'
  BY <1>5 DEF Command_P, PwmFlags
<1>6. ASSUME NEW l, NEW a, Command_d(l, a)
      PROVE  ControlInv'
  BY <1>6 DEF Command_d, Raise, BeginRun, Reset_Drive_Flags, DriveFlags
<1>7. ASSUME NEW l, NEW a, NEW d, Command_D(l, a, d)
      PROVE  ControlInv'
  BY <1>7 DEF Command_D, RaiseTimed, BeginRun, Reset_Drive_Flags, DriveFlags
<1>8. ASSUME NEW v, NEW a, Command_v(v, a)
      PROVE  ControlInv'
  BY <1>8 DEF Command_v, Raise, BeginRun, Reset_Drive_Flags, DriveFlags
<1>9. ASSUME NEW v, NEW a, NEW d, Command_V(v, a, d)
      PROVE  ControlInv'
  BY <1>9 DEF Command_V, RaiseTimed, BeginRun, Reset_Drive_Flags, DriveFlags
<1>10. ASSUME NEW d, Command_O(d)
       PROVE  ControlInv'
  BY <1>10 DEF Command_O, Reset_Drive_Flags, DriveFlags
<1>11. ASSUME NEW t, NEW b, Refuse(t, b)
       PROVE  ControlInv'
  BY <1>11 DEF Refuse
<1> HIDE DEF ControlInv
<1> QED
  BY MessageCases, <1>1, <1>2, <1>3, <1>4, <1>5, <1>6, <1>7, <1>8, <1>9, <1>10, <1>11, Zenon

(* The handlers that end a run need OneDriver (nothing else may be left    *)
(* driving) and the ones that drive need HaltSticks (a driver is active,   *)
(* so no run has ended).                                                   *)
LEMMA ControlStep == TypeOK /\ ControlInv /\ [Next]_vars => ControlInv'
<1> SUFFICES ASSUME TypeOK, ControlInv, [Next]_vars PROVE ControlInv'
  OBVIOUS
<1>s. ASSUME UNCHANGED <<active, order, pwm_enabled>>
      PROVE  ControlInv'
  BY <1>s DEF ControlInv, Armed, NoForeignDeadline, OneDriver, HaltSticks
<1> USE DEF MSG_FLAG_Execute, Run
<1>1. CASE Restart
  BY <1>1 DEF Restart, Message_Handling_Init, ReinitialisedFlags, TimedOrders, motorVars,
              ControlInv, Armed, NoForeignDeadline, OneDriver, HaltSticks, Drivers
<1>2. CASE Timed_PWM
  BY <1>2 DEF Timed_PWM, MotorsOff,
              ControlInv, Armed, NoForeignDeadline, OneDriver, HaltSticks, Drivers
<1>3. CASE Dist_Done
  BY <1>3 DEF Dist_Done, MotorsOff,
              ControlInv, Armed, NoForeignDeadline, OneDriver, HaltSticks, Drivers
<1>4. CASE Dist_Drive
  BY <1>4 DEF Dist_Drive,
              ControlInv, Armed, NoForeignDeadline, OneDriver, HaltSticks, Drivers
<1>5. CASE Vel_Drive
  BY <1>5 DEF Vel_Drive,
              ControlInv, Armed, NoForeignDeadline, OneDriver, HaltSticks, Drivers
<1>6. CASE Motor_Stop
  BY <1>6 DEF Motor_Stop, MotorsOff, StoppedFlags,
              ControlInv, Armed, NoForeignDeadline, OneDriver, HaltSticks, Drivers
<1>7. CASE Obj_Avoidance
  <2>1. UNCHANGED <<order, pwm_enabled>>
    BY <1>7 DEF Obj_Avoidance, motorVars
  <2>2. active' = active \/ ("obj_avoidance" \in active /\ active' = active \cup {"motor_vel_control"})
    BY <1>7 DEF Obj_Avoidance, flagVars, Run_OA_Task, ReadLeft, ReadRight, IRRead, Decide,
                Run_State_Machine, DSM_Init, DSM_DriveStraight, DSM_Turning, DSM_Holding
  <2> QED
    BY <2>1, <2>2 DEF ControlInv, Armed, NoForeignDeadline, OneDriver, HaltSticks, Drivers
<1>8. CASE Dist_First \/ Vel_First
  BY <1>8, <1>s DEF Dist_First, Vel_First, flagVars, motorVars
<1>9. CASE UsbOverflow \/ Tick \/ UNCHANGED vars
  BY <1>9, <1>s DEF UsbOverflow, Tick, vars, flagVars, motorVars
<1>10. ASSUME NEW p, NEW q, NEW f, Skip(p, q, f)
       PROVE  ControlInv'
  BY <1>10, <1>s DEF Skip, flagVars, motorVars
<1> QED
  BY <1>1, <1>2, <1>3, <1>4, <1>5, <1>6, <1>7, <1>8, <1>9, <1>10, ControlMessage, Zenon
     DEF Next, Main

(* ControlInv holds in every reachable state.                              *)
LEMMA Control == Spec => []ControlInv
BY InitType, TypeStep, ControlInit, ControlStep, PTL DEF Spec

(* Once a run is over the motors stay off until a command is accepted.     *)
THEOREM HaltSticksTheorem == Spec => []HaltSticks
<1>1. ControlInv => HaltSticks
  BY DEF ControlInv
<1> QED
  BY <1>1, Control, PTL

(* The handlers of main's loop never fight over the motors.                *)
THEOREM OneDriverTheorem == Spec => []OneDriver
<1>1. ControlInv => OneDriver
  BY DEF ControlInv
<1> QED
  BY <1>1, Control, PTL

(* A leftover deadline never cuts a later run short.                       *)
THEOREM NoForeignDeadlineTheorem == Spec => []NoForeignDeadline
<1>1. ControlInv => NoForeignDeadline
  BY DEF ControlInv
<1> QED
  BY <1>1, Control, PTL

-----------------------------------------------------------------------------
(* Deadlines.                                                              *)

(* A limit covers the duration and two iterations, within a turn of the    *)
(* counter.                                                                *)
LEMMA LimitFact ==
  ASSUME NEW d \in Durations
  PROVE  /\ d \in Int /\ Limit(d) \in Int /\ Limit(d) < TimeMod
         /\ Limit(d) >= 2 * TicksPerLoop /\ d - 1 + 2 * TicksPerLoop <= Limit(d)
BY DriveAssumption, ClockAssumption, TimeAssumption DEF Limit

(* Time since the moment a flag was armed: zero then, one more after a     *)
(* tick unless the counter has come round, never negative.                 *)
LEMMA SinceFact ==
  ASSUME TypeOK, NEW f \in Flags
  PROVE  /\ SecondsSince(last_trigger_time[f]) \in 0 .. TimeMod - 1
         /\ SecondsSince(now) = 0
BY TimeAssumption DEF TypeOK, FlagsTypeOK, SecondsSince, Time

(* A tick makes the age of a stamp one more, the counter's wrap included.  *)
LEMMA TickSince ==
  ASSUME TypeOK, Tick, NEW f \in Flags, SecondsSince(last_trigger_time[f]) < TimeMod - 1
  PROVE  SecondsSince(last_trigger_time[f])' = SecondsSince(last_trigger_time[f]) + 1
BY TimeAssumption DEF TypeOK, FlagsTypeOK, SecondsSince, Time, Tick, TIMER0_COMPB_vect, flagVars

(* How a step other than a tick preserves Waiting: it leaves the clock and *)
(* the flag alone, or takes the flag down, or arms it anew; and it leaves  *)
(* the checked part of the loop only by ending the iteration and enters it *)
(* only past a comparison that found the flag not elapsed.                 *)
LEMMA WaitingKept ==
  ASSUME TypeOK, TypeOK', NEW f \in Flags, NEW C, Waiting(f, C), now' = now,
         f \in active' => /\ f \in active
                         /\ duration'[f] = duration[f]
                         /\ last_trigger_time'[f] = last_trigger_time[f],
         \/ ticks' = ticks /\ (pc' \in C => pc \in C)
         \/ ticks' = 0 /\ pc \in C /\ pc' \notin C
         \/ ticks' = ticks /\ ~MSG_FLAG_Execute(f)
  PROVE  Waiting(f, C)'
<1> SUFFICES ASSUME f \in active' PROVE Waiting(f, C)'
  BY DEF Waiting
<1> DEFINE e == SecondsSince(last_trigger_time[f])
           d == duration[f]
<1>1. /\ d \in Durations /\ d' = d /\ e' = e
      /\ e <= Limit(d) - 2 * TicksPerLoop + ticks + (IF pc \in C THEN 0 ELSE TicksPerLoop)
  BY DEF Waiting, SecondsSince
<1>2. /\ e \in Int /\ ticks \in 0 .. TicksPerLoop /\ ticks' \in 0 .. TicksPerLoop
  BY SinceFact DEF TypeOK, FlagsTypeOK
<1>3. ~MSG_FLAG_Execute(f) => e < d
  <2>1. d \in Int
    BY <1>1, LimitFact
  <2> QED
    BY <1>2, <2>1 DEF MSG_FLAG_Execute, HasElapsed
<1>4. Limit(d)' = Limit(d) /\ Limit(d) \in Int /\ d \in Int
      /\ Limit(d) >= 2 * TicksPerLoop /\ d - 1 + 2 * TicksPerLoop <= Limit(d)
  BY <1>1, LimitFact DEF Limit
<1>5. e' <= Limit(d)' - 2 * TicksPerLoop + ticks' + (IF pc' \in C THEN 0 ELSE TicksPerLoop)
  BY <1>1, <1>2, <1>3, <1>4, TimeAssumption
<1> QED
  BY <1>1, <1>5 DEF Waiting

(* A flag that is armed now has all of its time ahead.                     *)
LEMMA WaitingArmed ==
  ASSUME TypeOK, TypeOK', NEW f \in Flags, NEW C, now' = now,
         duration'[f] \in Durations, last_trigger_time'[f] = now
  PROVE  Waiting(f, C)'
<1>1. SecondsSince(last_trigger_time[f])' = 0
  BY TimeAssumption DEF SecondsSince, TypeOK, FlagsTypeOK, Time
<1>2. ticks' \in 0 .. TicksPerLoop
  BY DEF TypeOK, FlagsTypeOK
<1>3. Limit(duration'[f]) >= 2 * TicksPerLoop /\ Limit(duration'[f]) \in Int
  BY LimitFact
<1> QED
  BY <1>1, <1>2, <1>3, TimeAssumption DEF Waiting, Limit

(* A tick makes a flag older by one and uses up one tick of the iteration. *)
LEMMA WaitingTick ==
  ASSUME TypeOK, Tick, NEW f \in Flags, NEW C, Waiting(f, C)
  PROVE  Waiting(f, C)'
<1> SUFFICES ASSUME f \in active PROVE Waiting(f, C)'
  BY DEF Waiting, Tick, flagVars
<1> DEFINE e == SecondsSince(last_trigger_time[f])
           d == duration[f]
<1>1. /\ d \in Durations /\ d' = d /\ pc' = pc /\ ticks' = ticks + 1 /\ ticks < TicksPerLoop
      /\ e <= Limit(d) - 2 * TicksPerLoop + ticks + (IF pc \in C THEN 0 ELSE TicksPerLoop)
  BY DEF Waiting, Tick, TIMER0_COMPB_vect, flagVars
<1>2. /\ e \in Int /\ ticks \in 0 .. TicksPerLoop
  BY SinceFact DEF TypeOK, FlagsTypeOK
<1>3. Limit(d) \in Int /\ Limit(d) < TimeMod
  BY <1>1, LimitFact
<1>4. e < TimeMod - 1
  BY <1>1, <1>2, <1>3, TimeAssumption
<1>5. e' = e + 1
  BY <1>4, TickSince
<1>6. e' <= Limit(d) - 2 * TicksPerLoop + ticks' + (IF pc' \in C THEN 0 ELSE TicksPerLoop)
  BY <1>1, <1>2, <1>3, <1>5, TimeAssumption
<1>7. active' = active /\ Limit(d)' = Limit(d)
  BY <1>1 DEF Tick, flagVars, Limit
<1> QED
  BY <1>1, <1>6, <1>7 DEF Waiting

(* After the initialisation nothing is waited for.                         *)
LEMMA WaitingInit == Init => WaitingInv
BY DEF Init, FlagsInit, WaitingInv, Waiting

(* A message arms the flag of a timed command and leaves both flags alone  *)
(* or takes them down otherwise.                                           *)
LEMMA MessageDeadlines ==
  ASSUME TypeOK, Message_Handling_Task, NEW f \in {"timed_pwm", "motor_stop"}
  PROVE  \/ f \in active' => /\ f \in active
                             /\ duration'[f] = duration[f]
                             /\ last_trigger_time'[f] = last_trigger_time[f]
         \/ duration'[f] \in Durations /\ last_trigger_time'[f] = now
<1> DEFINE Same == f \in active' => /\ f \in active
                                   /\ duration'[f] = duration[f]
                                   /\ last_trigger_time'[f] = last_trigger_time[f]
           Anew == duration'[f] \in Durations /\ last_trigger_time'[f] = now
<1>t. duration \in [Flags -> Int] /\ last_trigger_time \in [Flags -> Time] /\ f \in Flags
  BY DEF TypeOK, FlagsTypeOK, Flags
<1> SUFFICES Same \/ Anew
  OBVIOUS
<1> USE DEF flagVars
<1>1. CASE NoDriveCommand
  BY <1>1 DEF NoDriveCommand
<1>2. CASE Command_restart
  BY <1>2 DEF Command_restart
<1>3. CASE Command_s
  BY <1>3 DEF Command_s, Reset_Drive_Flags, DriveFlags
<1>4. ASSUME NEW l, NEW r, Command_p(l, r)
      PROVE  Same \/ Anew
  BY <1>4 DEF Command_p, PwmFlags
<1>5. ASSUME NEW l, NEW r, NEW d \in Durations, Command_P(l, r, d)
      PROVE  Same \/ Anew
  BY <1>5, <1>t DEF Command_P, PwmFlags, Arm, Flags
<1>6. ASSUME NEW l, NEW a, Command_d(l, a)
      PROVE  Same \/ Anew
  BY <1>6 DEF Command_d, Raise, Reset_Drive_Flags, DriveFlags
<1>7. ASSUME NEW l, NEW a, NEW d \in Durations, Command_D(l, a, d)
      PROVE  Same \/ Anew
  BY <1>7, <1>t DEF Command_D, RaiseTimed, Reset_Drive_Flags, DriveFlags, Flags
<1>8. ASSUME NEW v, NEW a, Command_v(v, a)
      PROVE  Same \/ Anew
  BY <1>8 DEF Command_v, Raise, Reset_Drive_Flags, DriveFlags
<1>9. ASSUME NEW v, NEW a, NEW d \in Durations, Command_V(v, a, d)
      PROVE  Same \/ Anew
  BY <1>9, <1>t DEF Command_V, RaiseTimed, Reset_Drive_Flags, DriveFlags, Flags
<1>10. ASSUME NEW d, Command_O(d)
       PROVE  Same \/ Anew
  BY <1>10 DEF Command_O, Reset_Drive_Flags, DriveFlags
<1>11. ASSUME NEW t, NEW b, Refuse(t, b)
       PROVE  Same \/ Anew
  BY <1>11 DEF Refuse
<1> HIDE DEF Same, Anew
<1> QED
  BY MessageCases, <1>1, <1>2, <1>3, <1>4, <1>5, <1>6, <1>7, <1>8, <1>9, <1>10, <1>11, Zenon

(* The handlers after the message task never arm either flag.              *)
LEMMA HandlerDeadlines ==
  ASSUME TypeOK, [Next]_vars, ~Message_Handling_Task, NEW f \in {"timed_pwm", "motor_stop"}
  PROVE  f \in active' => /\ f \in active
                         /\ duration'[f] = duration[f]
                         /\ last_trigger_time'[f] = last_trigger_time[f]
<1> DEFINE Same == f \in active' => /\ f \in active
                                   /\ duration'[f] = duration[f]
                                   /\ last_trigger_time'[f] = last_trigger_time[f]
<1>t. duration \in [Flags -> Int] /\ last_trigger_time \in [Flags -> Time] /\ f \in Flags
  BY DEF TypeOK, FlagsTypeOK, Flags
<1> SUFFICES Same
  OBVIOUS
<1>u. UNCHANGED <<active, duration, last_trigger_time>> => Same
  OBVIOUS
<1>1. CASE Restart
  BY <1>1, <1>t DEF Restart, Message_Handling_Init, ReinitialisedFlags
<1>2. CASE Timed_PWM \/ Dist_Done \/ Motor_Stop
  BY <1>2 DEF Timed_PWM, Dist_Done, Motor_Stop, StoppedFlags
<1>3. CASE Dist_Drive \/ Vel_Drive
  BY <1>3, <1>t DEF Dist_Drive, Vel_Drive
<1>4. CASE Obj_Avoidance
  <2>1. CASE Decide /\ last_trigger_time' = [last_trigger_time EXCEPT !["obj_avoidance"] = now]
    BY <2>1, <1>t DEF Decide, Run_State_Machine, DSM_Init, DSM_DriveStraight, DSM_Turning, DSM_Holding
  <2>2. CASE (ReadLeft \/ ReadRight) /\ UNCHANGED last_trigger_time
    BY <2>2 DEF ReadLeft, ReadRight, IRRead
  <2>3. CASE UNCHANGED flagVars
    BY <2>3 DEF flagVars
  <2> QED
    BY <1>4, <2>1, <2>2, <2>3 DEF Obj_Avoidance, Run_OA_Task
<1>5. CASE Dist_First \/ Vel_First \/ UsbOverflow \/ Tick \/ UNCHANGED vars
  BY <1>5 DEF Dist_First, Vel_First, UsbOverflow, Tick, vars, flagVars
<1>6. ASSUME NEW p, NEW q, NEW g, Skip(p, q, g)
      PROVE  Same
  BY <1>6 DEF Skip, flagVars
<1> HIDE DEF Same
<1> QED
  BY <1>1, <1>2, <1>3, <1>4, <1>5, <1>6, Zenon DEF Next, Main

(* How a step other than a tick moves through the loop, seen from the      *)
(* handlers of the two timer flags.                                        *)
LEMMA LoopMoves ==
  ASSUME TypeOK, [Next]_vars, ~Tick
  PROVE  /\ now' = now
         /\ \/ ticks' = ticks /\ (pc' \in {"dist", "vel", "stop", "oa"} => pc \in {"dist", "vel", "stop", "oa"})
            \/ ticks' = 0 /\ pc = "oa" /\ pc' = "msg"
            \/ ticks' = ticks /\ ~MSG_FLAG_Execute("timed_pwm")
            \/ ticks' = ticks /\ "timed_pwm" \notin active'
         /\ \/ ticks' = ticks /\ (pc' \in {"oa"} => pc \in {"oa"})
            \/ ticks' = 0 /\ pc = "oa" /\ pc' = "msg"
            \/ ticks' = ticks /\ ~MSG_FLAG_Execute("motor_stop")
            \/ ticks' = ticks /\ "motor_stop" \notin active'
<1> USE DEF clockVars, Run
<1>1. CASE Message_Handling_Task
  BY <1>1 DEF Message_Handling_Task
<1>2. CASE Restart
  BY <1>2 DEF Restart
<1>3. CASE Timed_PWM
  BY <1>3 DEF Timed_PWM
<1>4. CASE Dist_First \/ Dist_Done \/ Dist_Drive
  BY <1>4 DEF Dist_First, Dist_Done, Dist_Drive
<1>5. CASE Vel_First \/ Vel_Drive
  BY <1>5 DEF Vel_First, Vel_Drive
<1>6. CASE Motor_Stop
  BY <1>6 DEF Motor_Stop, StoppedFlags
<1>7. CASE Obj_Avoidance
  BY <1>7 DEF Obj_Avoidance
<1>8. CASE UsbOverflow \/ UNCHANGED vars
  BY <1>8 DEF UsbOverflow, vars
<1>9. CASE \/ Skip("restart", "timed", "restart") \/ Skip("timed", "dist", "timed_pwm")
           \/ Skip("dist", "vel", "motor_dist_control") \/ Skip("vel", "stop", "motor_vel_control")
           \/ Skip("stop", "oa", "motor_stop")
  BY <1>9 DEF Skip
<1> QED
  BY <1>1, <1>2, <1>3, <1>4, <1>5, <1>6, <1>7, <1>8, <1>9 DEF Next, Main

(* WaitingInv is inductive, given the types.                               *)
LEMMA WaitingStep == TypeOK /\ WaitingInv /\ [Next]_vars => WaitingInv'
<1> SUFFICES ASSUME TypeOK, WaitingInv, [Next]_vars PROVE WaitingInv'
  OBVIOUS
<1>t. TypeOK' /\ "timed_pwm" \in Flags /\ "motor_stop" \in Flags
  BY TypeStep DEF Flags
<1>1. CASE Tick
  BY <1>1, <1>t, WaitingTick DEF WaitingInv
<1>2. CASE ~Tick
  <2>1. now' = now
    BY <1>2, LoopMoves
  <2>2. Waiting("timed_pwm", {"dist", "vel", "stop", "oa"})'
    <3>1. CASE duration'["timed_pwm"] \in Durations /\ last_trigger_time'["timed_pwm"] = now
      BY <3>1, <2>1, <1>t, WaitingArmed
    <3>2. CASE "timed_pwm" \notin active'
      BY <3>2 DEF Waiting
    <3>3. CASE "timed_pwm" \in active' => /\ "timed_pwm" \in active
                                         /\ duration'["timed_pwm"] = duration["timed_pwm"]
                                         /\ last_trigger_time'["timed_pwm"] = last_trigger_time["timed_pwm"]
      <4>1. \/ "timed_pwm" \notin active'
            \/ ticks' = ticks /\ (pc' \in {"dist", "vel", "stop", "oa"} => pc \in {"dist", "vel", "stop", "oa"})
            \/ ticks' = 0 /\ pc \in {"dist", "vel", "stop", "oa"} /\ pc' \notin {"dist", "vel", "stop", "oa"}
            \/ ticks' = ticks /\ ~MSG_FLAG_Execute("timed_pwm")
        BY <1>2, LoopMoves
      <4>2. Waiting("timed_pwm", {"dist", "vel", "stop", "oa"})
        BY DEF WaitingInv
      <4> QED
        BY <3>2, <3>3, <4>1, <4>2, <2>1, <1>t, WaitingKept, Zenon
    <3> QED
      BY <3>1, <3>3, MessageDeadlines, HandlerDeadlines
  <2>3. Waiting("motor_stop", {"oa"})'
    <3>1. CASE duration'["motor_stop"] \in Durations /\ last_trigger_time'["motor_stop"] = now
      BY <3>1, <2>1, <1>t, WaitingArmed
    <3>2. CASE "motor_stop" \notin active'
      BY <3>2 DEF Waiting
    <3>3. CASE "motor_stop" \in active' => /\ "motor_stop" \in active
                                          /\ duration'["motor_stop"] = duration["motor_stop"]
                                          /\ last_trigger_time'["motor_stop"] = last_trigger_time["motor_stop"]
      <4>1. \/ "motor_stop" \notin active'
            \/ ticks' = ticks /\ (pc' \in {"oa"} => pc \in {"oa"})
            \/ ticks' = 0 /\ pc \in {"oa"} /\ pc' \notin {"oa"}
            \/ ticks' = ticks /\ ~MSG_FLAG_Execute("motor_stop")
        BY <1>2, LoopMoves
      <4>2. Waiting("motor_stop", {"oa"})
        BY DEF WaitingInv
      <4> QED
        BY <3>2, <3>3, <4>1, <4>2, <2>1, <1>t, WaitingKept, Zenon
    <3> QED
      BY <3>1, <3>3, MessageDeadlines, HandlerDeadlines
  <2> QED
    BY <2>2, <2>3 DEF WaitingInv
<1> QED
  BY <1>1, <1>2

(* Every timed command ends in time: as long as it is being executed its   *)
(* timer is pending and less than its duration plus two iterations of the  *)
(* loop have passed, whatever commands arrive and however the interrupt    *)
(* falls (provided the counter does not come round first).                 *)
THEOREM DeadlineTheorem == Spec => []DeadlineKept
<1>1. TypeOK /\ ControlInv /\ WaitingInv => DeadlineKept
  <2> SUFFICES ASSUME TypeOK, ControlInv, WaitingInv PROVE DeadlineKept
    OBVIOUS
  <2>1. ASSUME NEW f \in Flags, NEW C, Waiting(f, C), f \in active
        PROVE  SecondsSince(last_trigger_time[f]) <= Limit(duration[f])
    <3>1. ticks \in 0 .. TicksPerLoop /\ SecondsSince(last_trigger_time[f]) \in Int
      BY SinceFact DEF TypeOK, FlagsTypeOK
    <3>2. duration[f] \in Durations /\ Limit(duration[f]) \in Int
      BY <2>1, LimitFact DEF Waiting
    <3> QED
      BY <2>1, <3>1, <3>2, TimeAssumption DEF Waiting
  <2>2. "timed_pwm" \in Flags /\ "motor_stop" \in Flags
    BY DEF Flags
  <2> QED
    BY <2>1, <2>2 DEF WaitingInv, ControlInv, Armed, DeadlineKept
<1> QED
  BY <1>1, InitType, TypeStep, ControlInit, ControlStep, WaitingInit, WaitingStep, PTL DEF Spec

-----------------------------------------------------------------------------
(* Obstacle avoidance among the other handlers.                            *)

(* A command that switches obstacle avoidance switches the LED with it,    *)
(* and no other writes its targets.                                        *)
LEMMA AvoidanceMessage ==
  RedLedTruthful /\ AvoidanceUndisturbed /\ Message_Handling_Task
     => RedLedTruthful' /\ AvoidanceUndisturbed'
<1> SUFFICES ASSUME RedLedTruthful, AvoidanceUndisturbed, Message_Handling_Task
             PROVE  RedLedTruthful' /\ AvoidanceUndisturbed'
  OBVIOUS
<1> DEFINE Kept == UNCHANGED <<OA_state, target_vel, red_led>>
                   /\ ("obj_avoidance" \in active' <=> "obj_avoidance" \in active)
           Off == red_led' = FALSE /\ "obj_avoidance" \notin active'
<1>k. Kept \/ Off => RedLedTruthful' /\ AvoidanceUndisturbed'
  BY DEF RedLedTruthful, AvoidanceUndisturbed, VelocityFitsState
<1> USE DEF flagVars, oaVars
<1>1. CASE NoDriveCommand
  BY <1>1, <1>k DEF NoDriveCommand
<1>2. CASE Command_restart
  BY <1>2, <1>k DEF Command_restart
<1>3. CASE Command_s
  BY <1>3, <1>k DEF Command_s, Reset_Drive_Flags, DriveFlags
<1>4. ASSUME NEW l, NEW r, Command_p(l, r)
      PROVE  Kept
  BY <1>4 DEF Command_p, PwmFlags
<1>5. ASSUME NEW l, NEW r, NEW d, Command_P(l, r, d)
      PROVE  Kept
  BY <1>5 DEF Command_P, PwmFlags
<1>6. ASSUME NEW l, NEW a, Command_d(l, a)
      PROVE  Off
  BY <1>6 DEF Command_d, Raise, BeginRun, Reset_Drive_Flags, DriveFlags
<1>7. ASSUME NEW l, NEW a, NEW d, Command_D(l, a, d)
      PROVE  Off
  BY <1>7 DEF Command_D, RaiseTimed, BeginRun, Reset_Drive_Flags, DriveFlags
<1>8. ASSUME NEW v, NEW a, Command_v(v, a)
      PROVE  Off
  BY <1>8 DEF Command_v, Raise, BeginRun, Reset_Drive_Flags, DriveFlags
<1>9. ASSUME NEW v, NEW a, NEW d, Command_V(v, a, d)
      PROVE  Off
  BY <1>9 DEF Command_V, RaiseTimed, BeginRun, Reset_Drive_Flags, DriveFlags
<1>10. ASSUME NEW d, Command_O(d)
       PROVE  RedLedTruthful' /\ AvoidanceUndisturbed'
  BY <1>10 DEF Command_O, Init_Obstacle_Avoidance, RedLedTruthful, AvoidanceUndisturbed, VelocityFitsState
<1>11. ASSUME NEW t, NEW b, Refuse(t, b)
       PROVE  Kept
  BY <1>11 DEF Refuse
<1> HIDE DEF Kept, Off
<1> QED
  BY MessageCases, <1>k, <1>1, <1>2, <1>3, <1>4, <1>5, <1>6, <1>7, <1>8, <1>9, <1>10, <1>11, Zenon

(* OneDriver is what keeps the handlers that zero the targets away while   *)
(* obstacle avoidance is on.                                               *)
LEMMA AvoidanceStep ==
  OneDriver /\ RedLedTruthful /\ AvoidanceUndisturbed /\ [Next]_vars
     => RedLedTruthful' /\ AvoidanceUndisturbed'
<1> SUFFICES ASSUME OneDriver, RedLedTruthful, AvoidanceUndisturbed, [Next]_vars
             PROVE  RedLedTruthful' /\ AvoidanceUndisturbed'
  OBVIOUS
<1> DEFINE Kept == UNCHANGED <<OA_state, red_led>>
                   /\ ("obj_avoidance" \in active' <=> "obj_avoidance" \in active)
                   /\ ("obj_avoidance" \in active => UNCHANGED target_vel)
<1>k. Kept => RedLedTruthful' /\ AvoidanceUndisturbed'
  BY DEF RedLedTruthful, AvoidanceUndisturbed, VelocityFitsState
<1> USE DEF flagVars, oaVars
<1>1. ASSUME Restart PROVE Kept
  BY <1>1 DEF Restart, Message_Handling_Init, ReinitialisedFlags
<1>2. ASSUME Timed_PWM \/ Dist_First \/ Dist_Drive \/ Vel_First \/ Vel_Drive PROVE Kept
  BY <1>2 DEF Timed_PWM, Dist_First, Dist_Drive, Vel_First, Vel_Drive
<1>3. ASSUME Dist_Done \/ Motor_Stop PROVE Kept
  BY <1>3 DEF Dist_Done, Motor_Stop, StoppedFlags, Run, MSG_FLAG_Execute, OneDriver
<1>4. ASSUME UsbOverflow \/ Tick \/ UNCHANGED vars PROVE Kept
  BY <1>4 DEF UsbOverflow, Tick, vars
<1>5. ASSUME NEW p, NEW q, NEW f, Skip(p, q, f)
      PROVE  Kept
  BY <1>5 DEF Skip
<1>6. CASE Obj_Avoidance
  <2>1. CASE UNCHANGED <<flagVars, oaVars, target_vel, red_led>>
    BY <2>1, <1>k
  <2>2. CASE ReadLeft \/ ReadRight
    BY <2>2, <1>k DEF ReadLeft, ReadRight, IRRead
  <2>3. CASE MSG_FLAG_Execute("obj_avoidance") /\ Decide
    <3>1. "obj_avoidance" \in active
      BY <2>3 DEF MSG_FLAG_Execute
    <3>2. CASE DSM_Init
      BY <3>1, <3>2 DEF DSM_Init, Turn, RedLedTruthful, AvoidanceUndisturbed, VelocityFitsState
    <3>3. CASE DSM_DriveStraight
      BY <3>1, <3>3 DEF DSM_DriveStraight, Turn, RedLedTruthful, AvoidanceUndisturbed, VelocityFitsState
    <3>4. CASE DSM_Turning
      BY <3>1, <3>4 DEF DSM_Turning, RedLedTruthful, AvoidanceUndisturbed, VelocityFitsState
    <3>5. CASE DSM_Holding
      BY <3>1, <3>5 DEF DSM_Holding, RedLedTruthful, AvoidanceUndisturbed, VelocityFitsState
    <3> QED
      BY <2>3, <3>2, <3>3, <3>4, <3>5 DEF Decide, Run_State_Machine
  <2> QED
    BY <1>6, <2>1, <2>2, <2>3 DEF Obj_Avoidance, Run_OA_Task
<1>7. Message_Handling_Task => RedLedTruthful' /\ AvoidanceUndisturbed'
  BY AvoidanceMessage
<1> HIDE DEF Kept
<1>8. ASSUME Next, ~Message_Handling_Task, ~Obj_Avoidance PROVE Kept
  BY <1>8, <1>1, <1>2, <1>3, <1>4, <1>5, Zenon DEF Next, Main
<1> QED
  BY <1>4, <1>6, <1>7, <1>8, <1>k

(* Both hold in every reachable state.                                     *)
LEMMA Avoidance == Spec => [](RedLedTruthful /\ AvoidanceUndisturbed)
<1>1. Init => RedLedTruthful /\ AvoidanceUndisturbed
  BY DEF Init, FlagsInit, RedLedTruthful, AvoidanceUndisturbed
<1>2. ControlInv => OneDriver
  BY DEF ControlInv
<1> QED
  BY <1>1, <1>2, Control, AvoidanceStep, PTL DEF Spec

(* The red LED is lit exactly while obstacle avoidance is in charge,       *)
(* whichever of its handlers and commands have run in between.             *)
THEOREM RedLedTheorem == Spec => []RedLedTruthful
BY Avoidance, PTL

(* While obstacle avoidance is on no other handler of main's loop touches  *)
(* the target velocities it chose.                                         *)
THEOREM AvoidanceTheorem == Spec => []AvoidanceUndisturbed
BY Avoidance, PTL

-----------------------------------------------------------------------------
(* Obstacle avoidance on its own: the inductive invariant of ObstacleTask. *)

DecisionStates == {"INIT", "DRIVE_STRAIGHT", "TURN_LEFT", "TURN_RIGHT", "HOLDING"}

(* The state, the hold counter and the target velocities belong together:  *)
(* HoldIsWhole and VelocityFitsState case by case.                         *)
Decided ==
  /\ OA_state # "HOLDING" => alpha = 0
  /\ OA_state = "DRIVE_STRAIGHT" => target_vel = DriveStraight
  /\ OA_state = "TURN_LEFT" => target_vel = TurnLeft
  /\ OA_state = "TURN_RIGHT" => target_vel = TurnRight
  /\ OA_state = "HOLDING" => target_vel \in {TurnLeft, TurnRight}

ObstacleInv == OATypeOK /\ Decided

(* The velocities of Run_State_Machine are pairs of integers.              *)
LEMMA VelocitiesTyped ==
  /\ DriveStraight \in [Sides -> Int]
  /\ TurnLeft \in [Sides -> Int]
  /\ TurnRight \in [Sides -> Int]
BY DEF DriveStraight, TurnLeft, TurnRight, DutyCycle_to_Velocity, Both, Sides, OA_DRIVE_DC,
       OA_TURN_VELOCITY, OA_OUTER_VELOCITY

(* Before the first decision nothing has been promised.                    *)
LEMMA ObstacleInit == TaskInit => ObstacleInv
<1> SUFFICES ASSUME TaskInit PROVE ObstacleInv
  OBVIOUS
<1>1. PICK d \in TaskPeriods :
        duration = [f \in Flags |-> IF f = "obj_avoidance" THEN d
                                    ELSE IF f = "motor_vel_control" THEN 0 ELSE -1]
  BY DEF TaskInit
<1>2. duration \in [Flags -> Int]
  BY <1>1, TaskAssumption
<1>3. FlagsTypeOK
  <2>1. now \in Time /\ ticks \in 0 .. TicksPerLoop /\ last_trigger_time \in [Flags -> Time]
    BY TimeAssumption DEF TaskInit, Time
  <2>2. active \subseteq Flags
    BY DEF TaskInit, Flags
  <2> QED BY <1>2, <2>1, <2>2 DEF FlagsTypeOK
<1>4. AvoidanceTypeOK
  <2>1. 0 \in 0 .. NumLevels /\ alpha \in 0 .. HoldTimeout - 1
    BY OAAssumption DEF TaskInit
  <2>2. Both(0, 0) \in [Sides -> 0 .. NumLevels] /\ Both(0, 0) \in [Sides -> Int]
    BY <2>1 DEF Both
  <2> QED BY <2>1, <2>2 DEF TaskInit, AvoidanceTypeOK
<1>5. Decided
  BY DEF TaskInit, Decided
<1> QED BY <1>3, <1>4, <1>5 DEF ObstacleInv, OATypeOK

(* The timer interrupt keeps the counter in its range.                     *)
LEMMA ObstacleTick == ObstacleInv /\ TaskTick => ObstacleInv'
<1> SUFFICES ASSUME ObstacleInv, TaskTick PROVE ObstacleInv'
  OBVIOUS
<1>1. now' \in Time /\ ticks' \in 0 .. TicksPerLoop
  BY TimeAssumption DEF ObstacleInv, OATypeOK, FlagsTypeOK, Time, TaskTick, TIMER0_COMPB_vect
<1>2. FlagsTypeOK'
  BY <1>1 DEF ObstacleInv, OATypeOK, FlagsTypeOK, TaskTick, Time
<1>3. AvoidanceTypeOK' /\ Decided'
  BY DEF ObstacleInv, OATypeOK, AvoidanceTypeOK, Decided, TaskTick
<1> QED BY <1>2, <1>3 DEF ObstacleInv, OATypeOK

(* A side is read: only its count changes.                                 *)
LEMMA ObstacleRead ==
  ASSUME ObstacleInv, ReadLeft \/ ReadRight, UNCHANGED <<now, last_trigger_time>>, ticks' = 0
  PROVE  ObstacleInv'
<1>1. PICK s \in Sides, n \in 0 .. NumLevels : count' = [count EXCEPT ![s] = n]
  BY DEF ReadLeft, ReadRight, IRRead, Sides
<1>2. count' \in [Sides -> 0 .. NumLevels]
  BY <1>1 DEF ObstacleInv, OATypeOK, AvoidanceTypeOK
<1>3. UNCHANGED <<OA_state, alpha, target_vel, red_led, active, duration>>
  BY DEF ReadLeft, ReadRight, IRRead
<1>4. AvoidanceTypeOK' /\ Decided'
  BY <1>2, <1>3 DEF ObstacleInv, OATypeOK, AvoidanceTypeOK, Decided, ReadLeft, ReadRight
<1>5. FlagsTypeOK'
  BY <1>3, TimeAssumption DEF ObstacleInv, OATypeOK, FlagsTypeOK, Time
<1> QED BY <1>4, <1>5 DEF ObstacleInv, OATypeOK

(* What a decision does to the state, the hold and the velocities.         *)
LEMMA DecisionKept ==
  ASSUME ObstacleInv, Run_State_Machine
  PROVE  /\ OA_state' \in DecisionStates
         /\ alpha' \in 0 .. HoldTimeout - 1
         /\ target_vel' \in [Sides -> Int]
         /\ red_led' \in BOOLEAN
         /\ active' \subseteq Flags
         /\ duration' \in [Flags -> Int]
         /\ Decided'
<1> USE DEF DecisionStates
<1>1. CASE DSM_Init
  BY <1>1, VelocitiesTyped, OAAssumption
     DEF DSM_Init, Turn, ObstacleInv, OATypeOK, AvoidanceTypeOK, FlagsTypeOK, Flags, Decided
<1>2. CASE DSM_DriveStraight
  BY <1>2, VelocitiesTyped
     DEF DSM_DriveStraight, Turn, ObstacleInv, OATypeOK, AvoidanceTypeOK, FlagsTypeOK, Decided
<1>3. CASE DSM_Turning
  BY <1>3 DEF DSM_Turning, ObstacleInv, OATypeOK, AvoidanceTypeOK, FlagsTypeOK, Decided
<1>4. CASE DSM_Holding
  BY <1>4, VelocitiesTyped, OAAssumption
     DEF DSM_Holding, ObstacleInv, OATypeOK, AvoidanceTypeOK, FlagsTypeOK, Decided
<1> QED BY <1>1, <1>2, <1>3, <1>4 DEF Run_State_Machine

(* A decision, after which the period of the task starts anew.             *)
LEMMA ObstacleDecide ==
  ASSUME ObstacleInv, Decide, UNCHANGED now, ticks' = 0,
         last_trigger_time' = [last_trigger_time EXCEPT !["obj_avoidance"] = now]
  PROVE  ObstacleInv'
<1>1. last_trigger_time' \in [Flags -> Time] /\ now' \in Time
  BY DEF ObstacleInv, OATypeOK, FlagsTypeOK, Flags, Time
<1>2. FlagsTypeOK'
  BY <1>1, DecisionKept, TimeAssumption DEF Decide, FlagsTypeOK
<1>3. AvoidanceTypeOK' /\ Decided'
  BY DecisionKept DEF Decide, ObstacleInv, OATypeOK, AvoidanceTypeOK, DecisionStates
<1> QED BY <1>2, <1>3 DEF ObstacleInv, OATypeOK

(* Every step of the task keeps the invariant.                             *)
LEMMA ObstacleStep == ObstacleInv /\ [TaskNext]_taskVars => ObstacleInv'
<1> SUFFICES ASSUME ObstacleInv, [TaskNext]_taskVars PROVE ObstacleInv'
  OBVIOUS
<1>1. CASE TaskTick
  BY <1>1, ObstacleTick
<1>2. CASE Loop_OA /\ Run_OA_Task
  BY <1>2, ObstacleRead, ObstacleDecide DEF Loop_OA, Run_OA_Task
<1>3. CASE Loop_OA /\ UNCHANGED <<active, duration, last_trigger_time, read_state, OA_state,
                                  alpha, count, target_vel, red_led>>
  <2>1. FlagsTypeOK'
    BY <1>3, TimeAssumption DEF Loop_OA, ObstacleInv, OATypeOK, FlagsTypeOK, Time
  <2>2. AvoidanceTypeOK' /\ Decided'
    BY <1>3 DEF ObstacleInv, OATypeOK, AvoidanceTypeOK, Decided
  <2> QED BY <2>1, <2>2 DEF ObstacleInv, OATypeOK
<1>4. CASE UNCHANGED taskVars
  <2>1. FlagsTypeOK'
    BY <1>4 DEF taskVars, ObstacleInv, OATypeOK, FlagsTypeOK, Time
  <2>2. AvoidanceTypeOK' /\ Decided'
    BY <1>4 DEF taskVars, ObstacleInv, OATypeOK, AvoidanceTypeOK, Decided
  <2> QED BY <2>1, <2>2 DEF ObstacleInv, OATypeOK
<1> QED BY <1>1, <1>2, <1>3, <1>4 DEF TaskNext, Loop_OA

(* ObstacleInv holds in every reachable state.                             *)
LEMMA ObstacleInvHolds == TaskSpec => []ObstacleInv
BY ObstacleInit, ObstacleStep, PTL DEF TaskSpec

-----------------------------------------------------------------------------
(* Flags, counts and the hold counter of Run_State_Machine stay in range.  *)
THEOREM ObstacleTypeCorrect == TaskSpec => []OATypeOK
<1>1. ObstacleInv => OATypeOK
  BY DEF ObstacleInv
<1> QED BY <1>1, ObstacleInvHolds, PTL

(* Every time the HOLDING case is entered its static counter alpha starts  *)
(* at zero.                                                                *)
THEOREM HoldIsWholeTheorem == TaskSpec => []HoldIsWhole
<1>1. ObstacleInv => HoldIsWhole
  BY DEF ObstacleInv, Decided, HoldIsWhole
<1> QED BY <1>1, ObstacleInvHolds, PTL

(* The target velocities fit the state of Run_State_Machine, although most *)
(* of its cases leave them to an earlier one.                              *)
THEOREM VelocityTheorem == TaskSpec => []VelocityFitsState
<1>1. ObstacleInv => VelocityFitsState
  BY DEF ObstacleInv, Decided, VelocityFitsState
<1> QED BY <1>1, ObstacleInvHolds, PTL

(* A turn that Run_State_Machine begins leads away from the brighter side. *)
THEOREM SteersAwayTheorem == TaskSpec => SteersAway
<1> DEFINE A == (OA_state' # OA_state /\ OA_state' \in {"TURN_LEFT", "TURN_RIGHT"}) =>
                  IF target_vel'["LEFT"] < target_vel'["RIGHT"]
                  THEN count["LEFT"] < count["RIGHT"]
                  ELSE count["LEFT"] >= count["RIGHT"]
<1>1. ObstacleInv /\ [TaskNext]_taskVars => [A]_taskVars
  <2> SUFFICES ASSUME ObstacleInv, TaskNext, OA_state' # OA_state,
                      OA_state' \in {"TURN_LEFT", "TURN_RIGHT"}
               PROVE  IF target_vel'["LEFT"] < target_vel'["RIGHT"]
                      THEN count["LEFT"] < count["RIGHT"]
                      ELSE count["LEFT"] >= count["RIGHT"]
    OBVIOUS
  <2>1. Run_State_Machine
    BY DEF TaskNext, TaskTick, Loop_OA, Run_OA_Task, ReadLeft, ReadRight, IRRead, Decide
  <2>2. Turn
    BY <2>1 DEF Run_State_Machine, DSM_Init, DSM_DriveStraight, DSM_Turning, DSM_Holding
  <2>3. count["LEFT"] \in Int /\ count["RIGHT"] \in Int
    BY OAAssumption DEF ObstacleInv, OATypeOK, AvoidanceTypeOK, Sides
  <2>4. /\ TurnLeft["LEFT"] < TurnLeft["RIGHT"]
        /\ ~(TurnRight["LEFT"] < TurnRight["RIGHT"])
    BY DEF TurnLeft, TurnRight, Both, Sides, OA_TURN_VELOCITY, OA_OUTER_VELOCITY
  <2> QED BY <2>2, <2>3, <2>4 DEF Turn, NearerSide
<1> QED BY <1>1, ObstacleInvHolds, PTL DEF TaskSpec, SteersAway
=============================================================================
