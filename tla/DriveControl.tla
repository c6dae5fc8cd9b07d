---------------------------- MODULE DriveControl ----------------------------
(***************************************************************************)
(* Everything that moves the car: the drive commands of                    *)
(* Message_Handling_Task, and the handlers of main's loop that execute the *)
(* flags these commands raise, composed with obstacle avoidance and the    *)
(* millisecond timer.                                                      *)
(*                                                                         *)
(* The loop runs its handlers in the fixed order given by pc, one action   *)
(* each; the timer interrupt falls between any two of them.  (A tick       *)
(* inside a handler, after its flag was found due, is a tick just before   *)
(* it: a flag that is due stays due a millisecond later.)                  *)
(*                                                                         *)
(* A message is processed when all its bytes have arrived, so a command    *)
(* with arbitrary arguments may be found at the top of any iteration, or   *)
(* none.  How far the wheels have turned is not modelled: a distance run   *)
(* may be found done at any update, and of a target position only the sign *)
(* is kept, which is all the handlers use of it besides that test.         *)
(***************************************************************************)
EXTENDS ObstacleAvoidance

CONSTANTS Commands,         \* the command letters the host sends
          Duties,           \* duty cycles in 'p' and 'P', in percent
          Velocities,       \* linear velocities in 'v' and 'V', 0.1 mm/s
          Linears,          \* distances in 'd' and 'D', 0.1 mm
          Angulars,         \* angles and angular velocities, rad and rad/s
          Durations,        \* durations of 'P', 'D', 'V' and 'O', in ms
          BatteryReadings   \* results of Battery_Voltage(), in 10 mV

ASSUME DriveAssumption ==
  /\ Commands \subseteq {"p", "P", "s", "d", "D", "v", "V", "O", "~"}
  /\ Duties \subseteq Int /\ Velocities \subseteq Int /\ Linears \subseteq Int
  /\ Angulars \subseteq Int /\ Durations \subseteq Int
  /\ BatteryReadings \subseteq Int

VARIABLES pc,               \* the next handler of main's loop
          pwm_enabled,      \* Motor_PWM_Enable
          duty,             \* the duty cycle of each side, signed
          target_pos,       \* the sign of target_pos of each controller
          first_time,       \* main's first_time
          reply,            \* the message sent by the last handler
          restart_at_head,  \* a '~' is the first byte of the receive buffer
          order             \* history: the drive command being executed

motorVars == <<pwm_enabled, duty>>
vars == <<now, ticks, active, duration, last_trigger_time,
          read_state, OA_state, alpha, count, target_vel, red_led,
          pc, pwm_enabled, duty, target_pos, first_time, reply, restart_at_head,
          order>>

TimedOrders == {"P", "D", "V"}   \* the commands that carry a duration

NoReply == [text |-> "", volts |-> 0]

-----------------------------------------------------------------------------
(* MotorPWM.c.                                                             *)

Mut_Clamp(d) == IF d < -100 THEN -100 ELSE d
Clamp(d) == IF d > 100 THEN 100 ELSE IF d < -100 THEN -100 ELSE d

(* Conversion of a float to int truncates towards zero.                    *)
TruncDiv(a, b) == IF a >= 0 THEN a \div b ELSE -((-a) \div b)

Velocity_to_DutyCycle(v) == Both(TruncDiv(v["LEFT"] - 133, 33),
                                 TruncDiv(v["RIGHT"] - 133, 34))

Motor_PWM(d) == duty' = [s \in Sides |-> Clamp(d[s])]

(* Stop: both duty cycles zero, outputs disabled.                          *)
MotorsOff == Motor_PWM(Both(0, 0)) /\ pwm_enabled' = FALSE

TargetsZero == target_pos' = Both(0, 0) /\ target_vel' = Both(0, 0)

-----------------------------------------------------------------------------
(* The arguments of 'd', 'D', 'v' and 'V' turned into targets.             *)

Sign(x) == IF x > 0 THEN 1 ELSE IF x < 0 THEN -1 ELSE 0
Abs(x) == IF x < 0 THEN -x ELSE x

MIN_TURN_ARC == 400
TURN_VELOCITY == 1000
SPIN_DUTYCYCLE == 25

(* d = HALF_WHEEL_BASE * angular / 2 carries the sign of the angle: the    *)
(* left spin is (-d, d), the right spin (d, -d).                           *)
SpinSigns(angular) ==
  IF angular > 0 THEN Both((-1) * Sign(angular), Sign(angular))
                 ELSE Both(Sign(angular), (-1) * Sign(angular))

DistancePosition(linear, angular) ==
  IF angular = 0 THEN Both(Sign(linear), Sign(linear))
  ELSE IF Abs(linear) < MIN_TURN_ARC THEN SpinSigns(angular)
  ELSE Both(1, 1)

(* On an arc the inner track covers the given distance at TURN_VELOCITY    *)
(* and the outer one distance + angle * WHEEL_BASE in the same time.       *)
OuterVelocity(linear, angular) ==
  (TURN_VELOCITY * (Abs(linear) + Abs(angular) * WHEEL_BASE)) \div Abs(linear)

DistanceVelocity(linear, angular) ==
  IF angular = 0 THEN DutyCycle_to_Velocity(75)
  ELSE IF Abs(linear) < MIN_TURN_ARC THEN DutyCycle_to_Velocity(SPIN_DUTYCYCLE)
  ELSE IF angular > 0 THEN Both(TURN_VELOCITY, OuterVelocity(linear, angular))
  ELSE Both(OuterVelocity(linear, angular), TURN_VELOCITY)

VelocityTargets(v, angular) ==
  IF angular > 0 THEN Both(v, v + WHEEL_BASE * angular)
  ELSE IF angular < 0 THEN Both(v + WHEEL_BASE * angular, v)
  ELSE Both(v, v)

-----------------------------------------------------------------------------
(* The drive commands.  Each is the whole case of the switch.              *)

PowerOk(b) == b >= 475

(* The refusals of 'p' and 'P', and those of 'd', 'D', 'v', 'V' and 'O'.   *)
PwmRefusal(b) == IF b > 350 THEN "BAT LOW" ELSE "POWER OFF"
DriveRefusal(b) == IF b < 300 THEN "BAT LOW" ELSE "POWER OFF"

Answer(text) == reply' = [text |-> text, volts |-> 0]

(* The command is answered and nothing else happens.                       *)
Refuse(text, b) ==
  /\ reply' = [text |-> text, volts |-> b]
  /\ UNCHANGED <<flagVars, oaVars, target_vel, red_led, motorVars, target_pos, restart_at_head, order>>

DriveFlags == {"obj_avoidance", "motor_dist_control", "motor_vel_control", "motor_stop", "timed_pwm"}

(* What Reset_Drive_Flags leaves active.                                   *)
Mut_Reset_Drive_Flags == active \ (DriveFlags \ {"obj_avoidance"})
Mut2_Reset_Drive_Flags == active \ (DriveFlags \ {"timed_pwm"})
Reset_Drive_Flags == active \ DriveFlags

Mut_PwmFlags == active \ {"motor_dist_control", "motor_vel_control", "timed_pwm"}
PwmFlags == active \ {"motor_dist_control", "motor_vel_control", "motor_stop", "timed_pwm"}

Arm(f, d) ==
  /\ duration' = [duration EXCEPT ![f] = d]
  /\ last_trigger_time' = [last_trigger_time EXCEPT ![f] = now]

Command_p(l, r) ==
  /\ Motor_PWM(Both(l, r)) /\ pwm_enabled' = TRUE
  /\ active' = PwmFlags
  /\ reply' = NoReply
  /\ order' = "p"
  /\ UNCHANGED <<duration, last_trigger_time, oaVars, target_vel, red_led, target_pos, restart_at_head>>

Command_P(l, r, d) ==
  /\ d > 0
  /\ Motor_PWM(Both(l, r)) /\ pwm_enabled' = TRUE
  /\ active' = PwmFlags \cup {"timed_pwm"}
  /\ Arm("timed_pwm", d)
  /\ reply' = NoReply
  /\ order' = "P"
  /\ UNCHANGED <<oaVars, target_vel, red_led, target_pos, restart_at_head>>

Mut_Command_s ==
  /\ active' = Reset_Drive_Flags /\ red_led' = FALSE
  /\ Motor_PWM(Both(0, 0)) /\ UNCHANGED pwm_enabled
  /\ TargetsZero
  /\ reply' = NoReply
  /\ order' = "none"
  /\ UNCHANGED <<duration, last_trigger_time, oaVars, restart_at_head>>
Command_s ==
  /\ active' = Reset_Drive_Flags /\ red_led' = FALSE
  /\ MotorsOff
  /\ TargetsZero
  /\ reply' = NoReply
  /\ order' = "none"
  /\ UNCHANGED <<duration, last_trigger_time, oaVars, restart_at_head>>

(* What 'd', 'D', 'v' and 'V' have in common once the battery is good.     *)
BeginRun(cmd, angular, pos, vel) ==
  /\ target_pos' = pos /\ target_vel' = vel
  /\ red_led' = FALSE
  /\ Answer(IF angular = 0 THEN "Go Str" ELSE "Turn")
  /\ order' = cmd
  /\ UNCHANGED <<oaVars, motorVars, restart_at_head>>

(* The untimed commands raise one control flag with the update period, the *)
(* timed ones mf_motor_stop as well.                                       *)
Raise(f) ==
  /\ active' = Reset_Drive_Flags \cup {f}
  /\ duration' = [duration EXCEPT ![f] = UpdatePeriod]
  /\ UNCHANGED last_trigger_time

RaiseTimed(f, d) ==
  /\ active' = Reset_Drive_Flags \cup {f, "motor_stop"}
  /\ duration' = [duration EXCEPT ![f] = UpdatePeriod, !["motor_stop"] = d]
  /\ last_trigger_time' = [last_trigger_time EXCEPT !["motor_stop"] = now]

Command_d(l, a) ==
  Raise("motor_dist_control") /\ BeginRun("d", a, DistancePosition(l, a), DistanceVelocity(l, a))

Command_D(l, a, d) ==
  RaiseTimed("motor_dist_control", d) /\ BeginRun("D", a, DistancePosition(l, a), DistanceVelocity(l, a))

Command_v(v, a) ==
  Raise("motor_vel_control") /\ BeginRun("v", a, Both(0, 0), VelocityTargets(v, a))

Command_V(v, a, d) ==
  RaiseTimed("motor_vel_control", d) /\ BeginRun("V", a, Both(0, 0), VelocityTargets(v, a))

(* 'O' does not set last_trigger_time, and leaves the motors as they are.  *)
Command_O(d) ==
  /\ d > 0
  /\ active' = Reset_Drive_Flags \cup {"obj_avoidance"} /\ red_led' = FALSE
  /\ duration' = [duration EXCEPT !["obj_avoidance"] = d]
  /\ Init_Obstacle_Avoidance
  /\ reply' = NoReply
  /\ order' = "O"
  /\ UNCHANGED <<last_trigger_time, count, target_vel, motorVars, target_pos, restart_at_head>>

(* '~' raises the restart flag and stays in the receive buffer.            *)
Command_restart ==
  /\ active' = active \cup {"restart"}
  /\ restart_at_head' = TRUE
  /\ reply' = NoReply
  /\ UNCHANGED <<duration, last_trigger_time, oaVars, target_vel, red_led, motorVars, target_pos, order>>

(* No complete message, or one that does not concern driving.              *)
NoDriveCommand ==
  /\ reply' = NoReply
  /\ UNCHANGED <<flagVars, oaVars, target_vel, red_led, motorVars, target_pos, restart_at_head, order>>

(* A drive command that is accepted, or refused for its duration.          *)
Drive(c) ==
  \/ c = "p" /\ \E l, r \in Duties : Command_p(l, r)
  \/ c = "P" /\ \E l, r \in Duties, d \in Durations : Command_P(l, r, d)
  \/ c = "d" /\ \E l \in Linears, a \in Angulars : Command_d(l, a)
  \/ c = "D" /\ \E l \in Linears, a \in Angulars, d \in Durations : Command_D(l, a, d)
  \/ c = "v" /\ \E v \in Velocities, a \in Angulars : Command_v(v, a)
  \/ c = "V" /\ \E v \in Velocities, a \in Angulars, d \in Durations : Command_V(v, a, d)
  \/ c = "O" /\ \E d \in Durations : Command_O(d)
  \/ c \in {"P", "O"} /\ (\E d \in Durations : d <= 0) /\ Refuse("?", 0)

PowerRefusal(c, b) ==
  \/ c \in {"p", "P"} /\ Refuse(PwmRefusal(b), b)
  \/ c \in {"d", "D", "v", "V", "O"} /\ Refuse(DriveRefusal(b), b)

(* Message_Handling_Task: a '~' left at the head of the buffer is          *)
(* processed again; otherwise the host's next command, if there is one.    *)
Message_Handling_Task ==
  /\ pc = "msg" /\ pc' = "restart"
  /\ \/ restart_at_head /\ Command_restart
     \/ ~restart_at_head /\ NoDriveCommand
     \/ ~restart_at_head /\ "~" \in Commands /\ Command_restart
     \/ ~restart_at_head /\ "s" \in Commands /\ Command_s
     \/ /\ ~restart_at_head
        /\ \E b \in BatteryReadings, c \in Commands : PowerOk(b) /\ Drive(c)
     \/ /\ ~restart_at_head
        /\ \E b \in BatteryReadings, c \in Commands : ~PowerOk(b) /\ PowerRefusal(c, b)
  /\ UNCHANGED <<clockVars, first_time>>

(* USB_Upkeep_Task, once 63 more bytes have arrived behind the '~': the    *)
(* full receive buffer drops its oldest byte.                              *)
UsbOverflow ==
  /\ pc = "msg" /\ restart_at_head
  /\ restart_at_head' = FALSE
  /\ UNCHANGED <<clockVars, flagVars, oaVars, target_vel, red_led, pc, motorVars, target_pos,
                 first_time, reply, order>>

-----------------------------------------------------------------------------
(* The handlers of main's loop.                                            *)

(* The flag f is not due: the handler at p does nothing.                   *)
Skip(p, q, f) ==
  /\ pc = p /\ pc' = q
  /\ ~MSG_FLAG_Execute(f)
  /\ reply' = NoReply
  /\ UNCHANGED <<clockVars, flagVars, oaVars, target_vel, red_led, motorVars, target_pos,
                 first_time, restart_at_head, order>>

(* The flag f is due: the handler at p runs.                               *)
Run(p, q, f) ==
  /\ pc = p /\ pc' = q
  /\ MSG_FLAG_Execute(f)
  /\ reply' = NoReply
  /\ UNCHANGED <<clockVars, restart_at_head>>

(* A restart voids what was promised of a timed command.                   *)
Restart ==
  /\ Run("restart", "timed", "restart")
  /\ Message_Handling_Init
  /\ order' = IF order \in TimedOrders THEN "restarted" ELSE order
  /\ UNCHANGED <<oaVars, target_vel, red_led, motorVars, target_pos, first_time>>

Timed_PWM ==
  /\ Run("timed", "dist", "timed_pwm")
  /\ MotorsOff
  /\ active' = active \ {"timed_pwm"}
  /\ order' = "none"
  /\ UNCHANGED <<duration, last_trigger_time, oaVars, target_vel, red_led, target_pos, first_time>>

(* Both control handlers only note the encoder counts the first time.      *)
Dist_First ==
  /\ Run("dist", "vel", "motor_dist_control") /\ first_time
  /\ first_time' = FALSE
  /\ UNCHANGED <<flagVars, oaVars, target_vel, red_led, motorVars, target_pos, order>>

Dist_Done ==
  /\ Run("dist", "vel", "motor_dist_control") /\ ~first_time
  /\ MotorsOff /\ TargetsZero
  /\ active' = active \ {"motor_dist_control"}
  /\ first_time' = TRUE
  /\ order' = "none"
  /\ UNCHANGED <<duration, last_trigger_time, oaVars, red_led>>

(* A side that is not done keeps the sign of what is left to go; one that  *)
(* had nothing to go has overshot.                                         *)
LeftToGo == [s \in Sides |-> IF target_pos[s] > 0 THEN 1 ELSE -1]

Dist_Drive ==
  /\ Run("dist", "vel", "motor_dist_control") /\ ~first_time
  /\ target_pos' = LeftToGo
  /\ Motor_PWM([s \in Sides |-> LeftToGo[s] * Velocity_to_DutyCycle(target_vel)[s]])
  /\ pwm_enabled' = TRUE
  /\ last_trigger_time' = [last_trigger_time EXCEPT !["motor_dist_control"] = now]
  /\ UNCHANGED <<active, duration, oaVars, target_vel, red_led, first_time, order>>

Vel_First ==
  /\ Run("vel", "stop", "motor_vel_control") /\ first_time
  /\ first_time' = FALSE
  /\ UNCHANGED <<flagVars, oaVars, target_vel, red_led, motorVars, target_pos, order>>

Vel_Drive ==
  /\ Run("vel", "stop", "motor_vel_control") /\ ~first_time
  /\ Motor_PWM(Velocity_to_DutyCycle(target_vel))
  /\ pwm_enabled' = TRUE
  /\ last_trigger_time' = [last_trigger_time EXCEPT !["motor_vel_control"] = now]
  /\ UNCHANGED <<active, duration, oaVars, target_vel, red_led, target_pos, first_time, order>>

(* The flags mf_motor_stop takes down with itself.                         *)
StoppedFlags == {"motor_stop", "motor_dist_control", "motor_vel_control", "timed_pwm"}

Motor_Stop ==
  /\ Run("stop", "oa", "motor_stop")
  /\ MotorsOff /\ TargetsZero
  /\ active' = active \ StoppedFlags
  /\ order' = "none"
  /\ UNCHANGED <<duration, last_trigger_time, oaVars, red_led, first_time>>

(* The last handler: the next iteration begins with a fresh time budget.   *)
Obj_Avoidance ==
  /\ pc = "oa" /\ pc' = "msg"
  /\ ticks' = 0 /\ reply' = NoReply
  /\ \/ MSG_FLAG_Execute("obj_avoidance") /\ Run_OA_Task
     \/ /\ ~MSG_FLAG_Execute("obj_avoidance")
        /\ UNCHANGED <<flagVars, oaVars, target_vel, red_led>>
  /\ UNCHANGED <<now, motorVars, target_pos, first_time, restart_at_head, order>>

Tick ==
  /\ TIMER0_COMPB_vect
  /\ UNCHANGED <<flagVars, oaVars, target_vel, red_led, pc, motorVars, target_pos, first_time,
                 reply, restart_at_head, order>>

Main ==
  \/ Message_Handling_Task
  \/ Restart \/ Skip("restart", "timed", "restart")
  \/ Timed_PWM \/ Skip("timed", "dist", "timed_pwm")
  \/ Dist_First \/ Dist_Done \/ Dist_Drive \/ Skip("dist", "vel", "motor_dist_control")
  \/ Vel_First \/ Vel_Drive \/ Skip("vel", "stop", "motor_vel_control")
  \/ Motor_Stop \/ Skip("stop", "oa", "motor_stop")
  \/ Obj_Avoidance

(* Motor_PWM_Init leaves the compare registers at zero, which is full duty *)
(* cycle, with the outputs disabled.                                       *)
Init ==
  /\ FlagsInit
  /\ read_state = "READ_L" /\ OA_state = "INIT" /\ alpha = 0
  /\ count = Both(0, 0) /\ target_vel = Both(0, 0) /\ red_led = FALSE
  /\ pc = "msg"
  /\ pwm_enabled = FALSE /\ duty = Both(100, 100)
  /\ target_pos = Both(0, 0) /\ first_time = TRUE
  /\ reply = NoReply /\ restart_at_head = FALSE
  /\ order = "none"

Next == Main \/ UsbOverflow \/ Tick

(* The loop never blocks and the timer interrupt is never masked for long. *)
(* Nothing is assumed of the host.                                         *)
Spec == Init /\ [][Next]_vars /\ WF_vars(Main) /\ WF_vars(Tick)
=============================================================================
