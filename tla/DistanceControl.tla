-------------------------- MODULE DistanceControl ---------------------------
(***************************************************************************)
(* How far the car goes: the distance and velocity handlers of main's loop *)
(* with the encoder counts they measure by, the commands that start and    *)
(* interrupt them, and the wheels.                                         *)
(*                                                                         *)
(* DriveControl leaves open how far the wheels have turned; here this is   *)
(* the subject, and the rest (time, battery, duty cycles, replies) is left *)
(* open: a handler is due or not, a duty cycle is its sign.  Distances are *)
(* in encoder counts, which ECount_to_Distance scales after making an int  *)
(* of them; the counter is the one of Encoder when its interrupts keep up. *)
(***************************************************************************)
EXTENDS Integers

CONSTANTS Goals,        \* distances a 'd' may ask of a track, in counts
          MaxOrders,    \* bound: commands in a behaviour
          MaxSlips,     \* bound: counts a track makes without or against its motor
          MaxRoll,      \* bound: counts the tracks make from one update to the next
          IntHalf       \* the least count that is no int (2^15)

(* From one update to the next the tracks make fewer counts than an int    *)
(* can hold, which are more than four metres.                              *)
ASSUME DistanceAssumption ==
  /\ Goals \subseteq Nat
  /\ IntHalf \in Nat /\ MaxRoll \in Nat /\ MaxRoll < IntHalf

VARIABLES pc,            \* the next handler of main's loop
          active,        \* which of the flags of driving are active
          first_time,
          ticks_old,     \* ticksL_old and ticksR_old
          target_pos,    \* of the two controllers
          duty,          \* the sign of each duty cycle; 0 when disabled
          counts,        \* the encoder counts
          orders, slips, rolled,  \* for the bounds
          goal,          \* history: what the distance run was asked for
          ref,           \* history: where the run began: the encoders as 'd' zeroed
                         \* them, or as the handler first read them
          off            \* history: the old reading a run took over at its 'd'

vars == <<pc, active, first_time, ticks_old, target_pos, duty, counts, orders, slips, rolled,
          goal, ref, off>>
wheelVars == <<counts, slips, rolled>>
historyVars == <<goal, ref, off>>

Sides == {"LEFT", "RIGHT"}

Both(l, r) == [s \in Sides |-> IF s = "LEFT" THEN l ELSE r]

Zero == [s \in Sides |-> 0]

Init ==
  /\ pc = "msg" /\ active = {} /\ first_time = TRUE
  /\ ticks_old = Zero /\ target_pos = Zero /\ duty = Zero
  /\ counts = Zero /\ orders = 0 /\ slips = 0 /\ rolled = 0
  /\ goal = Zero /\ ref = Zero /\ off = Zero

-----------------------------------------------------------------------------
(* The wheels: a track follows its motor, and now and then it does not     *)
(* (it coasts, or the car is pushed).                                      *)

Turn(s) ==
  /\ duty[s] # 0 /\ rolled < MaxRoll /\ rolled' = rolled + 1
  /\ counts' = [counts EXCEPT ![s] = @ + duty[s]]
  /\ UNCHANGED <<pc, active, first_time, ticks_old, target_pos, duty, orders, slips, historyVars>>

Slip(s, d) ==
  /\ slips < MaxSlips /\ rolled < MaxRoll /\ rolled' = rolled + 1
  /\ counts' = [counts EXCEPT ![s] = @ + d]
  /\ slips' = slips + 1
  /\ UNCHANGED <<pc, active, first_time, ticks_old, target_pos, duty, orders, historyVars>>

-----------------------------------------------------------------------------
(* The commands.  None of them touches first_time or the old tick counts.  *)

Accept ==
  /\ pc = "msg" /\ pc' = "dist"
  /\ orders < MaxOrders /\ orders' = orders + 1 /\ rolled' = 0
  /\ UNCHANGED <<first_time, ticks_old, slips>>

StopFlag(timed) == IF timed THEN {"motor_stop"} ELSE {}

(* What 'd' makes of its arguments: straight ahead or back, a spin (which  *)
(* for angles of both signs turns the left track backwards) or an arc.     *)
Asked == {Both(n, n) : n \in Goals} \cup {Both(-n, -n) : n \in Goals}
         \cup {Both(-n, n) : n \in Goals} \cup {Both(l, r) : l, r \in Goals \ {0}}

(* 'd' and 'D'.  After a run that was interrupted first_time is FALSE: the *)
(* handler believes that it has a reading of this run, and measures from   *)
(* the last one of the run before.                                         *)
Command_d(g, timed) ==
  /\ Accept
  /\ active' = {"motor_dist_control"} \cup StopFlag(timed)
  /\ target_pos' = g
  /\ counts' = Zero                       \* Zero_Encoders
  /\ goal' = g /\ ref' = Zero
  /\ off' = IF first_time THEN Zero ELSE ticks_old
  /\ UNCHANGED duty

(* 'v' and 'V'.                                                            *)
Command_v(timed) ==
  /\ Accept
  /\ active' = {"motor_vel_control"} \cup StopFlag(timed)
  /\ target_pos' = Zero
  /\ counts' = Zero
  /\ UNCHANGED <<duty, historyVars>>

(* 's'.                                                                    *)
Command_s ==
  /\ Accept
  /\ active' = {} /\ target_pos' = Zero /\ duty' = Zero
  /\ UNCHANGED <<counts, historyVars>>

(* 'p', and a 'P' until it has run out.                                    *)
Command_p ==
  /\ Accept
  /\ active' = {}
  /\ duty' \in [Sides -> {-1, 1}]
  /\ UNCHANGED <<target_pos, counts, historyVars>>

NoCommand ==
  /\ pc = "msg" /\ pc' = "dist"
  /\ UNCHANGED <<active, first_time, ticks_old, target_pos, duty, wheelVars, orders, historyVars>>

-----------------------------------------------------------------------------
(* The handlers.                                                           *)

(* The flag is not active, or not due.                                     *)
Skip(p, q) ==
  /\ pc = p /\ pc' = q
  /\ UNCHANGED <<active, first_time, ticks_old, target_pos, duty, wheelVars, orders, historyVars>>

Mut_First(f) ==
  /\ f \in active /\ first_time
  /\ ticks_old' = counts
  /\ ref' = counts
  /\ UNCHANGED <<active, first_time, target_pos, duty, wheelVars, orders, goal, off>>
First(f) ==
  /\ f \in active /\ first_time
  /\ ticks_old' = counts
  /\ first_time' = FALSE
  /\ ref' = counts
  /\ UNCHANGED <<active, target_pos, duty, wheelVars, orders, goal, off>>

(* The argument of ECount_to_Distance is an int: of a longer difference    *)
(* the low 16 bits are kept.                                               *)
IntMod == 2 * IntHalf
ToInt(n) == ((n + IntHalf) % IntMod) - IntHalf

Measured(s) == ToInt(counts[s] - ticks_old[s])

Mut_Done(s) == Measured(s) >= target_pos[s]
Done(s) == IF target_pos[s] > 0 THEN Measured(s) >= target_pos[s]
                                ELSE Measured(s) <= target_pos[s]

Dist_First == pc = "dist" /\ pc' = "vel" /\ First("motor_dist_control")

Mut_DoneTest == \A s \in Sides : Done(s)
DoneTest == \E s \in Sides : Done(s)

Dist_Done ==
  /\ pc = "dist" /\ pc' = "vel"
  /\ "motor_dist_control" \in active /\ ~first_time
  /\ DoneTest /\ rolled' = 0
  /\ duty' = Zero /\ target_pos' = Zero
  /\ active' = active \ {"motor_dist_control"}
  /\ first_time' = TRUE
  /\ UNCHANGED <<ticks_old, counts, slips, orders, historyVars>>

(* The target becomes what is left to go, and gives the direction.         *)
LeftToGo == [s \in Sides |-> target_pos[s] - Measured(s)]

Direction(left) == IF left > 0 THEN 1 ELSE -1

Mut_Dist_Drive ==
  /\ pc = "dist" /\ pc' = "vel"
  /\ "motor_dist_control" \in active /\ ~first_time
  /\ ~DoneTest /\ rolled' = 0
  /\ target_pos' = LeftToGo
  /\ duty' = [s \in Sides |-> Direction(LeftToGo[s])]
  /\ UNCHANGED <<active, ticks_old, first_time, counts, slips, orders, historyVars>>
Dist_Drive ==
  /\ pc = "dist" /\ pc' = "vel"
  /\ "motor_dist_control" \in active /\ ~first_time
  /\ ~DoneTest /\ rolled' = 0
  /\ target_pos' = LeftToGo
  /\ duty' = [s \in Sides |-> Direction(LeftToGo[s])]
  /\ ticks_old' = counts
  /\ UNCHANGED <<active, first_time, counts, slips, orders, historyVars>>

Vel_First == pc = "vel" /\ pc' = "stop" /\ First("motor_vel_control")

Vel_Drive ==
  /\ pc = "vel" /\ pc' = "stop"
  /\ "motor_vel_control" \in active /\ ~first_time
  /\ duty' \in [Sides -> {-1, 1}]
  /\ ticks_old' = counts
  /\ UNCHANGED <<active, first_time, target_pos, wheelVars, orders, historyVars>>

Motor_Stop ==
  /\ pc = "stop" /\ pc' = "msg"
  /\ "motor_stop" \in active
  /\ duty' = Zero /\ target_pos' = Zero
  /\ active' = {}
  /\ UNCHANGED <<first_time, ticks_old, wheelVars, orders, historyVars>>

Dist == Dist_First \/ Dist_Done \/ Dist_Drive
Main == \/ \E g \in Asked, timed \in BOOLEAN : Command_d(g, timed)
        \/ \E timed \in BOOLEAN : Command_v(timed)
        \/ Command_s \/ Command_p \/ NoCommand
        \/ Dist \/ Skip("dist", "vel")
        \/ Vel_First \/ Vel_Drive \/ Skip("vel", "stop")
        \/ Motor_Stop \/ Skip("stop", "msg")

Wheels == \E s \in Sides : Turn(s) \/ \E d \in {-1, 1} : Slip(s, d)

Next == Main \/ Wheels

(* The loop runs, its flag falls due again and again, motors turn wheels.  *)
Spec == /\ Init /\ [][Next]_vars
        /\ WF_vars(Main) /\ SF_vars(Dist)
        /\ \A s \in Sides : WF_vars(Turn(s))

-----------------------------------------------------------------------------
(* Properties.                                                             *)

Counts == [Sides -> Int]

DistanceTypeOK ==
  /\ pc \in {"msg", "dist", "vel", "stop"}
  /\ active \subseteq {"motor_dist_control", "motor_vel_control", "motor_stop"}
  /\ first_time \in BOOLEAN
  /\ ticks_old \in Counts /\ target_pos \in Counts /\ counts \in Counts
  /\ duty \in [Sides -> {-1, 0, 1}]
  /\ goal \in Counts /\ ref \in Counts /\ off \in Counts

Running == "motor_dist_control" \in active /\ ~first_time

(* What is left to go and what the car has gone, at the last reading, more *)
(* or less than what was asked for.                                        *)
Excess(s) == target_pos[s] + (ticks_old[s] - ref[s]) - goal[s]

(* Though target_pos and the old reading are both rewritten at every       *)
(* update, nothing is lost or counted twice: what is left to go and what   *)
(* was gone add up to what was asked, except that a run which took over an *)
(* old reading is wrong by that reading from beginning to end, or by what  *)
(* a 16-bit int takes for it.                                              *)
Telescopes ==
  Running => \A s \in Sides : /\ (Excess(s) - off[s]) % IntMod = 0
                              /\ off = Zero => Excess(s) = 0

Reached(g, way) == IF g > 0 THEN way >= g ELSE way <= g

(* No update lets the car drive on when a track had reached its goal, the  *)
(* way from where the run began: at the last reading of a run in progress  *)
(* both were short of it.  Only a run that took over an old reading may    *)
(* drive on, and Telescopes says how far.                                  *)
NotPastGoal ==
  (Running /\ off = Zero /\ \E s \in Sides : ticks_old[s] # ref[s]) =>
     \A s \in Sides : ~Reached(goal[s], ticks_old[s] - ref[s])

(* A distance run ends by itself only when one of the tracks has gone as   *)
(* far as it was asked to from where the run began, unless the run took    *)
(* over an old reading: then it may end at once.                           *)
NeverStopsShort ==
  [][(pc = "dist" /\ Running /\ off = Zero /\ "motor_dist_control" \notin active') =>
        \E s \in Sides : Reached(goal[s], counts[s] - ref[s])]_vars

(* Every distance run comes to its end, also one that takes over an old    *)
(* reading or whose wheels slipped past the goal.                          *)
DistanceEnds == "motor_dist_control" \in active ~> "motor_dist_control" \notin active
=============================================================================
