--------------------------- MODULE DistanceProofs ---------------------------
(***************************************************************************)
(* Theorems about DistanceControl: for every set of goals and all bounds,  *)
(* the running differences of the distance handler add up, to within the   *)
(* old reading a run took over; without one no update drives past the goal *)
(* and no run stops short of it.                                           *)
(***************************************************************************)
EXTENDS DistanceControl, TLAPS

DistActive == "motor_dist_control" \in active

(* The two handlers that share first_time and ticks_old exclude each       *)
(* other, so a run in progress is never measured by the other handler.     *)
NotBoth == ~(DistActive /\ "motor_vel_control" \in active)

(* Before its first reading a run still has all of its way to go, and no   *)
(* old reading to measure from.                                            *)
Fresh == (DistActive /\ first_time) => target_pos = goal /\ off = Zero

(* A run that measures from where it began.                                *)
OwnRun == Running /\ off = Zero

(* Its last reading is no further off than the tracks have rolled since:   *)
(* the difference fits an int.                                             *)
Near == OwnRun => \A s \in Sides : /\ counts[s] - ticks_old[s] <= rolled
                                   /\ ticks_old[s] - counts[s] <= rolled

(* What is left to go keeps the direction of what was asked.               *)
SameWay == OwnRun => \A s \in Sides : (target_pos[s] > 0) <=> (goal[s] > 0)

Moved == \E s \in Sides : ticks_old[s] # ref[s]

(* Once a track has moved, both tracks have a way to go.                   *)
ShortOfGoal == (OwnRun /\ Moved) => \A s \in Sides : target_pos[s] # 0

RollOK == rolled \in Nat /\ rolled <= MaxRoll

DistanceInv ==
  DistanceTypeOK /\ RollOK /\ NotBoth /\ Fresh /\ Near /\ Telescopes /\ SameWay /\ ShortOfGoal

(* A product of integers is one.                                           *)
LEMMA ProductTyped == ASSUME NEW a \in Int, NEW b \in Int PROVE a * b \in Int
OBVIOUS

(* A product does not shrink when a factor grows.                          *)
LEMMA ProductGrows ==
  ASSUME NEW a \in Int, NEW b \in Int, NEW c \in Nat, a <= b
  PROVE  c * a <= c * b
<1>1. c * (b - a) >= 0
  OBVIOUS
<1>2. c * (b - a) = c * b - c * a
  OBVIOUS
<1> QED BY <1>1, <1>2, ProductTyped

(* Quotient and remainder.                                                 *)
LEMMA Divided ==
  ASSUME NEW n \in Int, NEW w \in Nat \ {0}
  PROVE  /\ n \div w \in Int /\ n % w \in Int /\ 0 <= n % w /\ n % w < w
         /\ n = w * (n \div w) + (n % w)
OBVIOUS

(* There is one remainder only.                                            *)
LEMMA OneRemainder ==
  ASSUME NEW w \in Nat \ {0}, NEW p \in Int, NEW q \in Int, NEW r \in Int, NEW t \in Int,
         0 <= r, r < w, 0 <= t, t < w, w * q + r = w * p + t
  PROVE  r = t
<1>1. ~(q + 1 <= p)
  <2> SUFFICES ASSUME q + 1 <= p PROVE FALSE
    OBVIOUS
  <2>1. w * (q + 1) <= w * p
    BY ProductGrows
  <2>2. w * (q + 1) = w * q + w
    OBVIOUS
  <2> QED BY <2>1, <2>2, ProductTyped
<1>2. ~(p + 1 <= q)
  <2> SUFFICES ASSUME p + 1 <= q PROVE FALSE
    OBVIOUS
  <2>1. w * (p + 1) <= w * q
    BY ProductGrows
  <2>2. w * (p + 1) = w * p + w
    OBVIOUS
  <2> QED BY <2>1, <2>2, ProductTyped
<1>3. p = q
  BY <1>1, <1>2
<1> QED BY <1>3, ProductTyped

(* A remainder forgets multiples.                                          *)
LEMMA ForgetsMultiples ==
  ASSUME NEW w \in Nat \ {0}, NEW n \in Int, NEW c \in Int
  PROVE  (n + w * c) % w = n % w
<1> DEFINE m == n + w * c
           p == n \div w
           q == m \div w
<1>1. m \in Int /\ w * c \in Int
  BY ProductTyped
<1>2. /\ p \in Int /\ n % w \in Int /\ 0 <= n % w /\ n % w < w
      /\ n = w * p + (n % w)
  BY Divided
<1>3. /\ q \in Int /\ m % w \in Int /\ 0 <= m % w /\ m % w < w
      /\ m = w * q + (m % w)
  BY <1>1, Divided
<1> HIDE DEF p, q
<1>4. w * (p + c) = w * p + w * c
  BY <1>2
<1>5. w * p \in Int
  BY <1>2, ProductTyped
<1>6. w * (p + c) + (n % w) = w * q + (m % w)
  BY <1>1, <1>2, <1>3, <1>4, <1>5
<1>7. p + c \in Int
  BY <1>2
<1>8. n % w = m % w
  BY <1>2, <1>3, <1>6, <1>7, OneRemainder
<1> QED BY <1>8

(* An int is what it is made of, up to a multiple of 2^16, and that itself *)
(* when it fits.                                                           *)
LEMMA IntOf ==
  ASSUME NEW n \in Int
  PROVE  /\ IntMod \in Nat
         /\ ToInt(n) \in Int
         /\ \E c \in Int : n - ToInt(n) = IntMod * c
         /\ (-MaxRoll <= n /\ n <= MaxRoll) => ToInt(n) = n
<1> DEFINE h == n + IntHalf
           q == h \div IntMod
<1>1. IntHalf \in Nat \ {0} /\ IntMod \in Nat \ {0} /\ IntMod = IntHalf + IntHalf /\ h \in Int
  BY DistanceAssumption DEF IntMod
<1>2. /\ q \in Int /\ h % IntMod \in Int /\ 0 <= h % IntMod /\ h % IntMod < IntMod
      /\ h = IntMod * q + (h % IntMod)
  BY <1>1, Divided
<1>3. ToInt(n) = (h % IntMod) - IntHalf
  BY DEF ToInt
<1> HIDE DEF q
<1>4. ToInt(n) \in Int
  BY <1>1, <1>2, <1>3
<1>5. IntMod * q \in Int
  BY <1>1, <1>2, ProductTyped
<1>6. n - ToInt(n) = IntMod * q
  BY <1>1, <1>2, <1>3, <1>4, <1>5
<1>7. ASSUME -MaxRoll <= n, n <= MaxRoll
      PROVE  ToInt(n) = n
  <2>1. 0 <= h /\ h < IntMod
    BY <1>1, <1>7, DistanceAssumption
  <2>2. IntMod * 0 = 0
    BY <1>1
  <2>3. IntMod * 0 + h = IntMod * q + (h % IntMod)
    BY <1>1, <1>2, <2>2
  <2>4. h = h % IntMod
    BY <1>1, <1>2, <2>1, <2>3, OneRemainder
  <2> QED BY <1>1, <1>3, <2>4
<1> QED BY <1>1, <1>2, <1>4, <1>6, <1>7

USE DEF Sides

(* The controllers are given whole vectors of integers.                    *)
LEMMA BothTyped ==
  ASSUME NEW l \in Int, NEW r \in Int
  PROVE  Both(l, r) \in Counts
BY DEF Both, Counts

(* Every distance a 'd' may ask for is a pair of integers.                 *)
LEMMA AskedTyped == Asked \subseteq Counts
BY DistanceAssumption, BothTyped DEF Asked

(* Init establishes the invariant.                                         *)
LEMMA InitInv == Init => DistanceInv
BY DistanceAssumption
   DEF Init, Zero, Counts, DistanceInv, DistanceTypeOK, RollOK, NotBoth, Fresh, Near, Telescopes,
       SameWay, ShortOfGoal, Running, OwnRun, DistActive

(* A step that leaves the run, its target and its readings alone, and in   *)
(* which the tracks move no more than is counted.                          *)
LEMMA RunUntouched ==
  ASSUME DistanceInv, DistanceTypeOK', RollOK', Near',
         UNCHANGED <<active, first_time, ticks_old, target_pos, historyVars>>
  PROVE  DistanceInv'
BY DEF DistanceInv, NotBoth, Fresh, Telescopes, Excess, SameWay, ShortOfGoal, Running, OwnRun,
       DistActive, Moved, historyVars

(* A step after which no distance run is in progress.                      *)
LEMMA NoRun ==
  ASSUME DistanceTypeOK', RollOK', ~DistActive'
  PROVE  DistanceInv'
BY DEF DistanceInv, NotBoth, Fresh, Near, Telescopes, SameWay, ShortOfGoal, Running, OwnRun,
       DistActive

(* The wheels turn by one count, which is counted.                         *)
LEMMA WheelsInv == DistanceInv /\ Wheels => DistanceInv'
<1> SUFFICES ASSUME DistanceInv, Wheels PROVE DistanceInv'
  OBVIOUS
<1>1. PICK s \in Sides : Turn(s) \/ \E d \in {-1, 1} : Slip(s, d)
  BY DEF Wheels
<1>2. UNCHANGED <<pc, active, first_time, ticks_old, target_pos, duty, historyVars>>
  BY <1>1 DEF Turn, Slip
<1>3. PICK d \in {-1, 0, 1} : counts' = [counts EXCEPT ![s] = @ + d]
  <2>1. CASE Turn(s)
    BY <2>1 DEF Turn, DistanceInv, DistanceTypeOK
  <2>2. CASE \E d \in {-1, 1} : Slip(s, d)
    BY <2>2 DEF Slip
  <2> QED BY <1>1, <2>1, <2>2
<1>4. rolled < MaxRoll /\ rolled' = rolled + 1 /\ rolled \in Nat
  BY <1>1 DEF Turn, Slip, DistanceInv, RollOK
<1>5. RollOK'
  BY <1>4, DistanceAssumption DEF RollOK
<1>6. counts \in Counts /\ ticks_old \in Counts
  BY DEF DistanceInv, DistanceTypeOK
<1>7. counts' \in Counts
  BY <1>3, <1>6 DEF Counts
<1>8. DistanceTypeOK'
  BY <1>2, <1>7 DEF historyVars, DistanceInv, DistanceTypeOK
<1>9. Near'
  <2> SUFFICES ASSUME OwnRun', NEW t \in Sides
               PROVE  counts'[t] - ticks_old'[t] <= rolled' /\ ticks_old'[t] - counts'[t] <= rolled'
    BY DEF Near
  <2>1. counts[t] - ticks_old[t] <= rolled /\ ticks_old[t] - counts[t] <= rolled
    BY <1>2 DEF DistanceInv, Near, OwnRun, Running, historyVars
  <2>2. counts[t] \in Int /\ ticks_old[t] \in Int /\ ticks_old'[t] = ticks_old[t]
    BY <1>2, <1>6 DEF Counts
  <2>3. counts'[t] = counts[t] + d \/ counts'[t] = counts[t]
    BY <1>3, <1>6 DEF Counts
  <2> QED BY <1>3, <1>4, <2>1, <2>2, <2>3
<1> QED BY <1>2, <1>5, <1>8, <1>9, RunUntouched

(* 'd' starts a run with all of its way to go, and with an old reading     *)
(* unless the run before it has come to its end.                           *)
LEMMA CommandDInv ==
  ASSUME DistanceInv, NEW g \in Asked, NEW timed \in BOOLEAN, Command_d(g, timed)
  PROVE  DistanceInv'
<1>1. g \in Counts
  BY AskedTyped
<1>2. active' \subseteq {"motor_dist_control", "motor_vel_control", "motor_stop"}
  BY DEF Command_d, StopFlag
<1>3. "motor_vel_control" \notin active'
  BY DEF Command_d, StopFlag
<1>4. Zero \in Counts
  BY DEF Zero, Counts
<1>5. DistanceTypeOK'
  BY <1>1, <1>2, <1>4 DEF Command_d, Accept, DistanceInv, DistanceTypeOK
<1>6. RollOK'
  BY DistanceAssumption DEF Command_d, Accept, RollOK
<1>7. NotBoth'
  BY <1>3 DEF NotBoth
<1>8. Fresh'
  BY DEF Command_d, Accept, Fresh
<1>9. ASSUME Running'
      PROVE  off' = ticks_old /\ ticks_old' = ticks_old
  BY <1>9 DEF Command_d, Accept, Running
<1>10. \A s \in Sides : /\ ticks_old[s] \in Int /\ g[s] \in Int
                        /\ counts'[s] = 0 /\ ref'[s] = 0 /\ Zero[s] = 0
                        /\ target_pos'[s] = g[s] /\ goal'[s] = g[s]
  BY <1>1 DEF Command_d, Zero, DistanceInv, DistanceTypeOK, Counts
<1>11. rolled' = 0
  BY DEF Command_d, Accept
<1>12. Near'
  BY <1>9, <1>10, <1>11 DEF Near, OwnRun
<1>13. IntMod \in Nat \ {0}
  BY DistanceAssumption DEF IntMod
<1>14. ASSUME Running', NEW s \in Sides
       PROVE  (Excess(s)' - off'[s]) % IntMod = 0 /\ (off' = Zero => Excess(s)' = 0)
  <2>1. Excess(s)' = ticks_old[s] /\ off'[s] = ticks_old[s]
    BY <1>9, <1>10, <1>14 DEF Excess
  <2>2. Excess(s)' - off'[s] = 0
    BY <1>10, <2>1
  <2>3. 0 % IntMod = 0
    BY <1>13
  <2>4. off' = Zero => Excess(s)' = 0
    BY <1>10, <2>1
  <2> QED BY <2>2, <2>3, <2>4
<1>15. Telescopes'
  BY <1>14 DEF Telescopes, Zero, IntMod
<1>16. SameWay'
  BY <1>10 DEF SameWay
<1>17. ShortOfGoal'
  BY <1>9, <1>10 DEF ShortOfGoal, Moved, OwnRun
<1> QED BY <1>5, <1>6, <1>7, <1>8, <1>12, <1>15, <1>16, <1>17 DEF DistanceInv

(* The other commands end a run or leave it alone.                         *)
LEMMA OtherCommandsInv ==
  ASSUME DistanceInv,
         \/ \E timed \in BOOLEAN : Command_v(timed)
         \/ Command_s \/ Command_p \/ NoCommand
  PROVE  DistanceInv'
<1>0. Zero \in Counts
  BY DEF Zero, Counts
<1>1. CASE \E timed \in BOOLEAN : Command_v(timed)
  <2>1. DistanceTypeOK'
    BY <1>0, <1>1 DEF Command_v, StopFlag, Accept, historyVars, DistanceInv, DistanceTypeOK
  <2>2. RollOK' /\ ~DistActive'
    BY <1>1, DistanceAssumption DEF Command_v, Accept, StopFlag, DistActive, RollOK
  <2> QED BY <2>1, <2>2, NoRun
<1>2. CASE Command_s
  <2>1. DistanceTypeOK'
    BY <1>2 DEF Command_s, Accept, Zero, historyVars, DistanceInv, DistanceTypeOK, Counts
  <2>2. RollOK' /\ ~DistActive'
    BY <1>2, DistanceAssumption DEF Command_s, Accept, DistActive, RollOK
  <2> QED BY <2>1, <2>2, NoRun
<1>3. CASE Command_p
  <2>1. DistanceTypeOK'
    BY <1>3 DEF Command_p, Accept, historyVars, DistanceInv, DistanceTypeOK, Counts
  <2>2. RollOK' /\ ~DistActive'
    BY <1>3, DistanceAssumption DEF Command_p, Accept, DistActive, RollOK
  <2> QED BY <2>1, <2>2, NoRun
<1>4. CASE NoCommand
  <2>1. DistanceTypeOK'
    BY <1>4 DEF NoCommand, wheelVars, historyVars, DistanceInv, DistanceTypeOK, Counts
  <2>2. UNCHANGED <<active, first_time, ticks_old, target_pos, historyVars>>
    BY <1>4 DEF NoCommand
  <2>3. RollOK' /\ Near'
    BY <1>4 DEF NoCommand, wheelVars, historyVars, DistanceInv, RollOK, Near, OwnRun, Running
  <2> QED BY <2>1, <2>2, <2>3, RunUntouched
<1> QED BY <1>1, <1>2, <1>3, <1>4

(* A handler whose flag is not due changes nothing.                        *)
LEMMA SkipInv ==
  ASSUME DistanceInv, NEW p, NEW q \in {"msg", "vel", "stop"}, Skip(p, q)
  PROVE  DistanceInv'
<1>1. DistanceTypeOK'
  BY DEF Skip, wheelVars, historyVars, DistanceInv, DistanceTypeOK, Counts
<1>2. UNCHANGED <<active, first_time, ticks_old, target_pos, historyVars>>
  BY DEF Skip
<1>3. RollOK' /\ Near'
  BY DEF Skip, wheelVars, historyVars, DistanceInv, RollOK, Near, OwnRun, Running
<1> QED BY <1>1, <1>2, <1>3, RunUntouched

(* The first reading of a distance run is where it begins.                 *)
LEMMA DistFirstInv ==
  ASSUME DistanceInv, Dist_First
  PROVE  DistanceInv'
<1>1. DistanceTypeOK'
  BY DEF Dist_First, First, wheelVars, DistanceInv, DistanceTypeOK, Counts
<1>2. target_pos = goal /\ off = Zero
  BY DEF Dist_First, First, DistanceInv, Fresh, DistActive
<1>3. \A s \in Sides : /\ ticks_old'[s] = counts[s] /\ ref'[s] = counts[s] /\ counts[s] \in Int
                       /\ target_pos'[s] = goal[s] /\ goal'[s] = goal[s] /\ goal[s] \in Int
                       /\ off'[s] = 0 /\ counts'[s] = counts[s]
  BY <1>2 DEF Dist_First, First, wheelVars, Zero, DistanceInv, DistanceTypeOK, Counts
<1>4. NotBoth' /\ Fresh'
  BY DEF Dist_First, First, DistanceInv, NotBoth, Fresh, DistActive
<1>5. RollOK' /\ rolled' \in Nat
  BY DEF Dist_First, First, wheelVars, DistanceInv, RollOK
<1>6. Near'
  BY <1>3, <1>5 DEF Near
<1>7. IntMod \in Nat \ {0}
  BY DistanceAssumption DEF IntMod
<1>8. ASSUME NEW s \in Sides
      PROVE  (Excess(s)' - off'[s]) % IntMod = 0 /\ Excess(s)' = 0
  <2>1. Excess(s)' = 0
    BY <1>3 DEF Excess
  <2>2. Excess(s)' - off'[s] = 0 /\ 0 % IntMod = 0
    BY <1>3, <1>7, <2>1
  <2> QED BY <2>1, <2>2
<1>9. Telescopes'
  BY <1>8 DEF Telescopes, IntMod
<1>10. SameWay' /\ ShortOfGoal'
  BY <1>3 DEF SameWay, ShortOfGoal, Moved
<1> QED BY <1>1, <1>4, <1>5, <1>6, <1>9, <1>10 DEF DistanceInv

(* A run that is done is over.                                             *)
LEMMA DistDoneInv ==
  ASSUME DistanceInv, Dist_Done
  PROVE  DistanceInv'
<1>1. DistanceTypeOK'
  BY DEF Dist_Done, Zero, historyVars, DistanceInv, DistanceTypeOK, Counts
<1>2. RollOK' /\ ~DistActive'
  BY DistanceAssumption DEF Dist_Done, DistActive, RollOK
<1> QED BY <1>1, <1>2, NoRun

(* What is measured is an integer, and in a run that measures from where   *)
(* it began the way since the last reading.                                *)
LEMMA MeasuredTyped ==
  ASSUME DistanceInv, NEW s \in Sides
  PROVE  /\ Measured(s) \in Int
         /\ \E c \in Int : (counts[s] - ticks_old[s]) - Measured(s) = IntMod * c
         /\ OwnRun => Measured(s) = counts[s] - ticks_old[s]
<1> DEFINE n == counts[s] - ticks_old[s]
<1>1. counts[s] \in Int /\ ticks_old[s] \in Int
  BY DEF DistanceInv, DistanceTypeOK, Counts
<1>2. n \in Int
  BY <1>1
<1>3. OwnRun => -MaxRoll <= n /\ n <= MaxRoll
  BY <1>1, DistanceAssumption DEF DistanceInv, Near, RollOK
<1>4. Measured(s) = ToInt(n)
  BY DEF Measured
<1> HIDE DEF n
<1>5. /\ ToInt(n) \in Int /\ \E c \in Int : n - ToInt(n) = IntMod * c
      /\ (-MaxRoll <= n /\ n <= MaxRoll) => ToInt(n) = n
  BY <1>2, IntOf
<1> QED BY <1>3, <1>4, <1>5 DEF n

(* What an update that is not done leaves to go: not nothing, and in the   *)
(* direction there was to go before.                                       *)
LEMMA LeftProperties ==
  ASSUME DistanceInv, ~DoneTest, NEW s \in Sides
  PROVE  /\ LeftToGo[s] \in Int
         /\ LeftToGo[s] = target_pos[s] - Measured(s)
         /\ LeftToGo[s] # 0
         /\ (LeftToGo[s] > 0) <=> (target_pos[s] > 0)
<1>1. target_pos[s] \in Int /\ Measured(s) \in Int
  BY MeasuredTyped DEF DistanceInv, DistanceTypeOK, Counts
<1>2. LeftToGo[s] = target_pos[s] - Measured(s)
  BY DEF LeftToGo
<1>3. ~Done(s)
  BY DEF DoneTest
<1> QED BY <1>1, <1>2, <1>3 DEF Done

(* An update in the middle of a run moves what was measured from the       *)
(* target to the reading, and keeps the direction.                         *)
LEMMA DistDriveInv ==
  ASSUME DistanceInv, Dist_Drive
  PROVE  DistanceInv'
<1>1. \A s \in Sides : /\ target_pos[s] \in Int /\ counts[s] \in Int /\ ticks_old[s] \in Int
                       /\ goal[s] \in Int /\ ref[s] \in Int /\ off[s] \in Int
  BY DEF DistanceInv, DistanceTypeOK, Counts
<1>2. \A s \in Sides : /\ target_pos'[s] \in Int
                       /\ target_pos'[s] = target_pos[s] - Measured(s)
                       /\ target_pos'[s] # 0
                       /\ (target_pos'[s] > 0) <=> (target_pos[s] > 0)
  BY LeftProperties DEF Dist_Drive
<1>3. target_pos' \in Counts
  BY <1>2 DEF Dist_Drive, LeftToGo, Counts
<1>4. duty' \in [Sides -> {-1, 0, 1}]
  BY DEF Dist_Drive, Direction
<1>5. DistanceTypeOK'
  BY <1>3, <1>4 DEF Dist_Drive, historyVars, DistanceInv, DistanceTypeOK
<1>6. Running /\ off' = off
      /\ \A s \in Sides : /\ ticks_old'[s] = counts[s] /\ counts'[s] = counts[s]
                          /\ ref'[s] = ref[s] /\ goal'[s] = goal[s] /\ off'[s] = off[s]
  BY DEF Dist_Drive, Running, historyVars
<1>7. NotBoth' /\ Fresh'
  BY DEF Dist_Drive, DistanceInv, NotBoth, Fresh, DistActive
<1>8. rolled' = 0 /\ RollOK'
  BY DistanceAssumption DEF Dist_Drive, RollOK
<1>9. Near'
  BY <1>1, <1>6, <1>8 DEF Near
<1>10. ASSUME NEW s \in Sides
       PROVE  /\ (Excess(s)' - off'[s]) % IntMod = 0
              /\ off' = Zero => Excess(s)' = 0
  <2>1. /\ Measured(s) \in Int
        /\ OwnRun => Measured(s) = counts[s] - ticks_old[s]
    BY MeasuredTyped
  <2>2. PICK c \in Int : (counts[s] - ticks_old[s]) - Measured(s) = IntMod * c
    BY MeasuredTyped
  <2>3. /\ (Excess(s) - off[s]) % IntMod = 0
        /\ off = Zero => Excess(s) = 0
    BY <1>6 DEF DistanceInv, Telescopes
  <2>4. Excess(s) \in Int /\ Excess(s) - off[s] \in Int
    BY <1>1 DEF Excess
  <2>5. /\ target_pos'[s] = target_pos[s] - Measured(s)
        /\ ticks_old'[s] = counts[s] /\ ref'[s] = ref[s] /\ goal'[s] = goal[s]
    BY <1>2, <1>6
  <2>6. Excess(s)' = Excess(s) + ((counts[s] - ticks_old[s]) - Measured(s))
    BY <1>1, <2>1, <2>5 DEF Excess
  <2>7. IntMod \in Nat \ {0}
    BY DistanceAssumption DEF IntMod
  <2>8. IntMod * c \in Int
    BY <2>2, <2>7, ProductTyped
  <2>9. Excess(s)' - off'[s] = (Excess(s) - off[s]) + IntMod * c
    BY <1>1, <1>6, <2>2, <2>4, <2>6, <2>8
  <2>10. ((Excess(s) - off[s]) + IntMod * c) % IntMod = (Excess(s) - off[s]) % IntMod
    BY <2>4, <2>7, ForgetsMultiples
  <2>11. off = Zero => (counts[s] - ticks_old[s]) - Measured(s) = 0
    BY <1>1, <1>6, <2>1 DEF OwnRun
  <2>12. off' = Zero => Excess(s)' = 0
    BY <1>6, <2>3, <2>6, <2>11
  <2> QED BY <2>3, <2>9, <2>10, <2>12
<1>11. Telescopes'
  BY <1>10 DEF Telescopes, IntMod, Zero
<1>12. SameWay'
  BY <1>2, <1>6 DEF DistanceInv, SameWay, OwnRun
<1>13. ShortOfGoal'
  BY <1>2 DEF ShortOfGoal
<1> QED BY <1>5, <1>7, <1>8, <1>9, <1>11, <1>12, <1>13 DEF DistanceInv

(* Velocity control writes the shared reading when no distance run is on.  *)
LEMMA VelocityInv ==
  ASSUME DistanceInv, Vel_First \/ Vel_Drive
  PROVE  DistanceInv'
<1>1. DistanceTypeOK'
  BY DEF Vel_First, First, Vel_Drive, wheelVars, historyVars, DistanceInv, DistanceTypeOK, Counts
<1>2. RollOK' /\ ~DistActive'
  BY DEF Vel_First, First, Vel_Drive, wheelVars, DistanceInv, NotBoth, DistActive, RollOK
<1> QED BY <1>1, <1>2, NoRun

(* An elapsed deadline ends every run.                                     *)
LEMMA MotorStopInv ==
  ASSUME DistanceInv, Motor_Stop
  PROVE  DistanceInv'
<1>1. DistanceTypeOK'
  BY DEF Motor_Stop, Zero, wheelVars, historyVars, DistanceInv, DistanceTypeOK, Counts
<1>2. RollOK' /\ ~DistActive'
  BY DEF Motor_Stop, wheelVars, DistanceInv, DistActive, RollOK
<1> QED BY <1>1, <1>2, NoRun

(* Every step of the car keeps the invariant.                              *)
LEMMA NextInv == DistanceInv /\ [Next]_vars => DistanceInv'
<1> SUFFICES ASSUME DistanceInv, [Next]_vars PROVE DistanceInv'
  OBVIOUS
<1>1. CASE Wheels
  BY <1>1, WheelsInv
<1>2. CASE \E g \in Asked, timed \in BOOLEAN : Command_d(g, timed)
  BY <1>2, CommandDInv
<1>3. CASE (\E timed \in BOOLEAN : Command_v(timed)) \/ Command_s \/ Command_p \/ NoCommand
  BY <1>3, OtherCommandsInv
<1>4. CASE Dist
  BY <1>4, DistFirstInv, DistDoneInv, DistDriveInv DEF Dist
<1>5. CASE Skip("dist", "vel") \/ Skip("vel", "stop") \/ Skip("stop", "msg")
  BY <1>5, SkipInv
<1>6. CASE Vel_First \/ Vel_Drive
  BY <1>6, VelocityInv
<1>7. CASE Motor_Stop
  BY <1>7, MotorStopInv
<1>8. CASE UNCHANGED vars
  <2>1. DistanceTypeOK'
    BY <1>8 DEF vars, DistanceInv, DistanceTypeOK, Counts
  <2>2. RollOK' /\ Near'
    BY <1>8 DEF vars, DistanceInv, RollOK, Near, OwnRun, Running
  <2> QED BY <1>8, <2>1, <2>2, RunUntouched DEF vars, historyVars
<1> QED BY <1>1, <1>2, <1>3, <1>4, <1>5, <1>6, <1>7, <1>8 DEF Next, Main

(* DistanceInv holds in every reachable state.                             *)
LEMMA InvHolds == Spec => []DistanceInv
BY InitInv, NextInv, PTL DEF Spec

-----------------------------------------------------------------------------
(* The targets, readings and directions of the two handlers stay what      *)
(* their types say, whatever is asked for and however the wheels turn.     *)
THEOREM DistanceTypeCorrect == Spec => []DistanceTypeOK
<1>1. DistanceInv => DistanceTypeOK
  BY DEF DistanceInv
<1> QED BY <1>1, InvHolds, PTL

(* What main's distance handler has left to go and what the car has gone   *)
(* always add up to what 'd' asked for, but for the old reading the run    *)
(* took over, of which an int keeps 16 bits.                               *)
THEOREM TelescopesTheorem == Spec => []Telescopes
<1>1. DistanceInv => Telescopes
  BY DEF DistanceInv
<1> QED BY <1>1, InvHolds, PTL

(* No update of main's distance handler drives on from a reading at which  *)
(* a track had reached its goal, in a run that took over no old reading.   *)
THEOREM NotPastGoalTheorem == Spec => []NotPastGoal
<1>1. DistanceInv => NotPastGoal
  <2> SUFFICES ASSUME DistanceInv, Running, off = Zero, Moved, NEW s \in Sides
               PROVE  ~Reached(goal[s], ticks_old[s] - ref[s])
    BY DEF NotPastGoal, Moved
  <2>1. /\ target_pos[s] \in Int /\ ticks_old[s] \in Int /\ goal[s] \in Int /\ ref[s] \in Int
    BY DEF DistanceInv, DistanceTypeOK, Counts
  <2>2. /\ Excess(s) = 0
        /\ (target_pos[s] > 0) <=> (goal[s] > 0)
        /\ target_pos[s] # 0
    BY DEF DistanceInv, Telescopes, SameWay, ShortOfGoal, OwnRun
  <2> QED BY <2>1, <2>2 DEF Reached, Excess
<1> QED BY <1>1, InvHolds, PTL

(* main's distance handler ends a run that took over no old reading only   *)
(* when a track has gone as far as it was asked to from where it began.    *)
THEOREM NeverStopsShortTheorem == Spec => NeverStopsShort
<1> DEFINE A == (pc = "dist" /\ Running /\ off = Zero /\ "motor_dist_control" \notin active') =>
                  \E s \in Sides : Reached(goal[s], counts[s] - ref[s])
<1>1. DistanceInv /\ [Next]_vars => [A]_vars
  <2> SUFFICES ASSUME DistanceInv, Next, pc = "dist", Running, off = Zero,
                      "motor_dist_control" \notin active'
               PROVE  \E s \in Sides : Reached(goal[s], counts[s] - ref[s])
    OBVIOUS
  <2>1. Dist_Done
    BY DEF Next, Main, Wheels, Turn, Slip, Accept, Command_d, Command_v, Command_s, Command_p,
           NoCommand, Dist, Dist_First, First, Dist_Drive, Vel_First, Vel_Drive, Skip, Motor_Stop,
           Running
  <2>2. PICK s \in Sides : Done(s)
    BY <2>1 DEF Dist_Done, DoneTest
  <2>3. /\ target_pos[s] \in Int /\ ticks_old[s] \in Int /\ goal[s] \in Int /\ ref[s] \in Int
        /\ counts[s] \in Int
    BY DEF DistanceInv, DistanceTypeOK, Counts
  <2>4. /\ Excess(s) = 0
        /\ (target_pos[s] > 0) <=> (goal[s] > 0)
    BY DEF DistanceInv, Telescopes, SameWay, OwnRun
  <2>5. Measured(s) = counts[s] - ticks_old[s]
    BY MeasuredTyped DEF OwnRun
  <2>6. Reached(goal[s], counts[s] - ref[s])
    BY <2>2, <2>3, <2>4, <2>5 DEF Done, Reached, Excess
  <2> QED BY <2>6
<1> QED BY <1>1, InvHolds, PTL DEF Spec, NeverStopsShort
=============================================================================
