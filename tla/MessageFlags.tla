---------------------------- MODULE MessageFlags ----------------------------
(***************************************************************************)
(* The message flags of application_defines.h that concern driving, and    *)
(* the millisecond clock they are compared with.                           *)
(*                                                                         *)
(* In the code a flag is a struct { active, duration, last_trigger_time }. *)
(* Here the flags that are active form the set `active'; the other two     *)
(* fields are functions of the flag.  The clock is the uint32_t _count_ms  *)
(* of Timing.c: it wraps at TimeMod (2^32 in the code).                    *)
(***************************************************************************)
EXTENDS Integers

CONSTANTS TimeMod,      \* number of values of the millisecond counter
          TicksPerLoop  \* most milliseconds one iteration of main's loop takes

ASSUME TimeAssumption == /\ TimeMod \in Nat \ {0}
                         /\ TicksPerLoop \in Nat \ {0}

VARIABLES now,                \* _count_ms
          ticks,              \* milliseconds spent in this iteration of the loop
          active,             \* the flags whose .active is true
          duration,           \* .duration of each flag, in milliseconds
          last_trigger_time   \* .last_trigger_time.millisec of each flag

clockVars == <<now, ticks>>
flagVars == <<active, duration, last_trigger_time>>

Flags == {"restart", "timed_pwm", "motor_dist_control", "motor_vel_control",
          "motor_stop", "obj_avoidance"}

Time == 0 .. TimeMod - 1

(* SecondsSince(&t).millisec: unsigned subtraction, so modulo TimeMod.     *)
SecondsSince(t) == IF now >= t THEN now - t ELSE now - t + TimeMod

(* MSG_FLAG_Execute without the test of .active: the comparison is signed  *)
(* through the cast to float, so a negative duration has always elapsed.   *)
Mut_HasElapsed(f) == now >= last_trigger_time[f] + duration[f]
Mut2_HasElapsed(f) == SecondsSince(last_trigger_time[f]) > duration[f]
HasElapsed(f) == SecondsSince(last_trigger_time[f]) >= duration[f]

MSG_FLAG_Execute(f) == f \in active /\ HasElapsed(f)

(* The flags Message_Handling_Init gives back their defaults: it names     *)
(* neither mf_motor_vel_control nor mf_obj_avoidance.                      *)
ReinitialisedFlags == {"restart", "timed_pwm", "motor_dist_control", "motor_stop"}

Message_Handling_Init ==
  /\ active' = active \ ReinitialisedFlags
  /\ duration' = [f \in Flags |-> IF f \in ReinitialisedFlags THEN -1 ELSE duration[f]]
  /\ last_trigger_time' =
        [f \in Flags |-> IF f \in ReinitialisedFlags THEN 0 ELSE last_trigger_time[f]]

(* The timer interrupt.  It may fire at any point of the main loop, which  *)
(* finishes an iteration within TicksPerLoop milliseconds.                 *)
TIMER0_COMPB_vect ==
  /\ ticks < TicksPerLoop
  /\ ticks' = ticks + 1
  /\ now' = IF now = TimeMod - 1 THEN 0 ELSE now + 1

(* Globals start zeroed; Message_Handling_Init then sets the durations it  *)
(* names to -1.                                                            *)
FlagsInit ==
  /\ now = 0 /\ ticks = 0
  /\ active = {}
  /\ duration = [f \in Flags |-> IF f \in ReinitialisedFlags THEN -1 ELSE 0]
  /\ last_trigger_time = [f \in Flags |-> 0]

FlagsTypeOK ==
  /\ now \in Time /\ ticks \in 0 .. TicksPerLoop
  /\ active \subseteq Flags
  /\ duration \in [Flags -> Int]
  /\ last_trigger_time \in [Flags -> Time]
=============================================================================
