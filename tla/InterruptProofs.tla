-------------------------- MODULE InterruptProofs ---------------------------
(***************************************************************************)
(* Theorems about the counters that an interrupt advances and the program  *)
(* reads: about Timing, for every width of the counter, every period of    *)
(* the interrupt, every duration and every length of an iteration, and     *)
(* about Encoder, for every width of the counter and however far the wheel *)
(* turns.                                                                  *)
(***************************************************************************)
EXTENDS Timing, Encoder, InductionProofs, TLAPS

-----------------------------------------------------------------------------
(* The inductive invariant of Timing.                                      *)

(* What GetTime has loaded so far is the lower part of the counter, unless *)
(* the one tick that a reading has time for fell into it: then it lacks    *)
(* that tick, or the carry of it that the bytes loaded before do not show. *)
Loaded(d) ==
  /\ millisec = (_count_ms % Weight[pc]) + d
  /\ d # 0 => /\ spare = 0 /\ TCNT0 = 0 /\ ticked
              /\ \/ d = -1
                 \/ \E q \in 1 .. pc : /\ d = Weight[q] - 1 /\ _count_ms % Weight[q] = 0
                                       /\ q < NumBytes => carried

ReadingInv ==
  IF pc = Idle THEN spare <= LoopCounts
  ELSE /\ spare <= 1
       /\ millisec < Weight[pc]
       /\ \E d \in Int : Loaded(d)
       /\ (active /\ spare = 0) => age >= 1

(* The counts that may have passed on top of n since the last poll.        *)
Within(n) == age + spare <= n + LoopCounts + (IF pc = Idle THEN 0 ELSE 1)

(* e milliseconds have begun since last_trigger was taken, which was off   *)
(* by a.  One that ran ahead is found out by the first poll.               *)
Elapsed(e, a) ==
  /\ age = e * Period + TCNT0 - last_trigger.microsec
  /\ last_trigger.millisec = (_count_ms - e + a) % TimeMod
  /\ a # 0 => /\ last_trigger.microsec = 0 /\ ticked
              /\ \/ a = -1
                 \/ \E k \in 1 .. NumBytes - 1 : /\ a = Weight[k] - 1
                                                 /\ (_count_ms - e) % Weight[k] = 0
                                                 /\ carried /\ Within(0)

ActiveInv ==
  active => /\ \E e \in Nat, a \in Int : Elapsed(e, a)
            /\ Within(Duration * Period)
            /\ last_trigger.microsec <= OCR0B

TimingInv == TimingTypeOK /\ ReadingInv /\ ActiveInv /\ EarlyOnlyByCarry /\ DurationOrWrap

-----------------------------------------------------------------------------
(* Numbers.                                                                *)

(* The product of two positive numbers is positive.                        *)
LEMMA Positive == ASSUME NEW a \in Nat \ {0}, NEW b \in Nat \ {0} PROVE a * b \in Nat \ {0}
OBVIOUS

(* The product of two integers is an integer.                              *)
LEMMA Product == ASSUME NEW a \in Int, NEW b \in Int PROVE a * b \in Int
OBVIOUS

(* A product does not shrink when a factor grows.                          *)
LEMMA Monotone ==
  ASSUME NEW a \in Int, NEW b \in Int, NEW c \in Nat, a <= b
  PROVE  c * a <= c * b
<1>1. c * (b - a) >= 0
  OBVIOUS
<1>2. c * (b - a) = c * b - c * a
  OBVIOUS
<1> QED BY <1>1, <1>2, Product

(* Quotient and remainder by a positive number.                            *)
LEMMA Division ==
  ASSUME NEW n \in Int, NEW w \in Nat \ {0}
  PROVE  /\ n \div w \in Int /\ n % w \in 0 .. w - 1
         /\ n = w * (n \div w) + (n % w)
OBVIOUS

(* Quotient and remainder are unique.                                      *)
LEMMA Remainder ==
  ASSUME NEW w \in Nat \ {0}, NEW q \in Int, NEW r \in 0 .. w - 1, NEW n \in Int, n = w * q + r
  PROVE  n % w = r /\ n \div w = q
<1> DEFINE p == n \div w
           s == n % w
<1>1. p \in Int /\ s \in 0 .. w - 1 /\ n = w * p + s
  BY Division
<1> HIDE DEF p, s
<1>2. ~(q + 1 <= p)
  <2> SUFFICES ASSUME q + 1 <= p PROVE FALSE
    OBVIOUS
  <2>1. w * (q + 1) <= w * p
    BY <1>1, Monotone
  <2>2. w * (q + 1) = w * q + w
    OBVIOUS
  <2> QED BY <1>1, <2>1, <2>2, Product
<1>3. ~(p + 1 <= q)
  <2> SUFFICES ASSUME p + 1 <= q PROVE FALSE
    OBVIOUS
  <2>1. w * (p + 1) <= w * q
    BY <1>1, Monotone
  <2>2. w * (p + 1) = w * p + w
    BY <1>1
  <2> QED BY <1>1, <2>1, <2>2, Product
<1>4. p = q
  BY <1>1, <1>2, <1>3
<1>5. s = r
  BY <1>1, <1>4, Product
<1> QED BY <1>4, <1>5 DEF p, s

(* A remainder forgets multiples.                                          *)
LEMMA Multiples ==
  ASSUME NEW w \in Nat \ {0}, NEW n \in Int, NEW c \in Int
  PROVE  (n + w * c) % w = n % w
<1>1. n \div w \in Int /\ n % w \in 0 .. w - 1 /\ n = w * (n \div w) + (n % w)
  BY Division
<1>2. w * ((n \div w) + c) = w * (n \div w) + w * c
  BY <1>1
<1>3. n + w * c = w * ((n \div w) + c) + (n % w) /\ n + w * c \in Int /\ (n \div w) + c \in Int
  BY <1>1, <1>2, Product
<1> QED BY <1>1, <1>3, Remainder

(* The next digit of a number.                                             *)
LEMMA Digit ==
  ASSUME NEW n \in Int, NEW w \in Nat \ {0}, NEW b \in Nat \ {0}
  PROVE  /\ ((n \div w) % b) \in 0 .. b - 1
         /\ n % (b * w) = (n % w) + ((n \div w) % b) * w
<1> DEFINE q == n \div w
           r == n % w
           p == q \div b
           s == q % b
<1>1. q \in Int /\ r \in 0 .. w - 1 /\ n = w * q + r
  BY Division
<1> HIDE DEF q, r
<1>2. p \in Int /\ s \in 0 .. b - 1 /\ q = b * p + s
  BY <1>1, Division
<1> HIDE DEF p, s
<1>3. n = (b * w) * p + (r + s * w)
  <2>1. w * (b * p + s) = (b * w) * p + s * w
    BY <1>2
  <2> QED BY <1>1, <1>2, <2>1, Product
<1>4. r + s * w \in 0 .. (b * w) - 1
  <2>1. w * s <= w * (b - 1) /\ w * 0 <= w * s
    BY <1>2, Monotone
  <2>2. w * (b - 1) = b * w - w /\ w * s = s * w
    BY <1>2
  <2> QED BY <1>1, <1>2, <2>1, <2>2, Product
<1> DEFINE v == b * w
           t == r + s * w
<1>5. v \in Nat \ {0} /\ t \in 0 .. v - 1 /\ n = v * p + t
  BY <1>3, <1>4, Positive
<1> HIDE DEF v, t
<1>6. n % v = t
  BY <1>2, <1>5, Remainder
<1> QED BY <1>2, <1>6 DEF p, q, r, s, t, v

-----------------------------------------------------------------------------
(* The place values of the bytes.                                          *)

(* The types of the constants, from the assumptions.                       *)
LEMMA Constants ==
  /\ Period \in Nat /\ Period >= 2 /\ Period = OCR0B + 1
  /\ ByteValues \in Nat /\ ByteValues >= 2
  /\ OCR0B \in Nat /\ LoopCounts \in Nat /\ MicroMod \in Nat /\ Duration \in Nat
  /\ NumBytes \in Nat \ {0}
<1>1. OCR0B \in Nat \ {0} /\ LoopCounts \in Nat /\ MicroMod \in Nat /\ ByteValues \in Nat
      /\ Duration \in Nat /\ NumBytes \in Nat \ {0}
  BY TimingAssumption, WeightAssumption
<1>2. Period \in Nat /\ Period >= 2 /\ Period = OCR0B + 1
  BY <1>1 DEF Period
<1>3. ~(ByteValues - 1 <= 0)
  <2> SUFFICES ASSUME ByteValues - 1 <= 0 PROVE FALSE
    OBVIOUS
  <2>1. Period * (ByteValues - 1) <= Period * 0
    BY <1>1, <1>2, Monotone
  <2>2. (ByteValues - 1) * Period = Period * (ByteValues - 1)
    BY <1>1, <1>2
  <2> QED BY <1>1, <1>2, <2>1, <2>2, TimingAssumption
<1> QED BY <1>1, <1>2, <1>3

(* Place values are positive: a least one that is not has none before it.  *)
LEMMA WeightPositive == \A i \in 0 .. NumBytes : Weight[i] \in Nat \ {0}
<1> DEFINE Bad == {i \in 0 .. NumBytes : Weight[i] \notin Nat \ {0}}
<1> SUFFICES ASSUME Bad # {} PROVE FALSE
  OBVIOUS
<1>1. Bad \in SUBSET Nat
  BY Constants
<1>2. PICK x \in Bad : \A y \in Bad : x <= y
  BY <1>1, LeastNumber
<1>3. x # 0
  BY WeightAssumption
<1>4. x - 1 \in 0 .. NumBytes /\ x \in 1 .. NumBytes
  BY <1>3, Constants
<1>5. Weight[x - 1] \in Nat \ {0}
  BY <1>2, <1>4
<1>6. Weight[x] = ByteValues * Weight[x - 1]
  BY <1>4, WeightAssumption
<1>7. ByteValues * Weight[x - 1] \in Nat \ {0}
  BY <1>5, Constants, Positive
<1> QED BY <1>6, <1>7

(* The place value of the next byte.                                       *)
LEMMA WeightStep ==
  ASSUME NEW i \in 0 .. NumBytes - 1
  PROVE  Weight[i + 1] = ByteValues * Weight[i] /\ i + 1 \in 1 .. NumBytes
<1>1. i + 1 \in 1 .. NumBytes /\ (i + 1) - 1 = i
  BY Constants
<1> QED BY <1>1, WeightAssumption

(* A place value is a multiple of the ones below it.                       *)
LEMMA WeightDivides ==
  ASSUME NEW i \in 0 .. NumBytes, NEW j \in i .. NumBytes
  PROVE  \E c \in Nat \ {0} : Weight[j] = Weight[i] * c
<1> DEFINE Bad == {k \in i .. NumBytes : \A c \in Nat \ {0} : Weight[k] # Weight[i] * c}
<1> SUFFICES ASSUME Bad # {} PROVE FALSE
  OBVIOUS
<1>1. Bad \in SUBSET Nat
  BY Constants
<1>2. PICK x \in Bad : \A y \in Bad : x <= y
  BY <1>1, LeastNumber
<1>3. Weight[i] \in Nat \ {0}
  BY WeightPositive
<1>4. x # i
  <2>1. Weight[i] = Weight[i] * 1
    BY <1>3
  <2> QED BY <2>1
<1>5. x - 1 \in i .. NumBytes /\ x - 1 \in 0 .. NumBytes - 1 /\ (x - 1) + 1 = x
  BY <1>4, Constants
<1>6. PICK c \in Nat \ {0} : Weight[x - 1] = Weight[i] * c
  BY <1>2, <1>5
<1>7. Weight[x] = ByteValues * (Weight[i] * c)
  BY <1>5, <1>6, WeightStep
<1>8. ByteValues * (Weight[i] * c) = Weight[i] * (ByteValues * c)
  BY <1>3, Constants
<1>9. ByteValues * c \in Nat \ {0}
  BY Constants, Positive
<1> QED BY <1>7, <1>8, <1>9

(* Place values grow with the place.                                       *)
LEMMA WeightOrder ==
  ASSUME NEW i \in 0 .. NumBytes, NEW j \in i .. NumBytes
  PROVE  Weight[i] <= Weight[j]
<1>1. PICK c \in Nat \ {0} : Weight[j] = Weight[i] * c
  BY WeightDivides
<1>2. Weight[i] \in Nat \ {0}
  BY WeightPositive
<1>3. Weight[i] * 1 <= Weight[i] * c
  BY <1>2, Monotone
<1>4. Weight[i] * 1 = Weight[i]
  BY <1>2
<1> QED BY <1>1, <1>3, <1>4

(* The counter has at least one value.                                     *)
LEMMA TimeModPositive == TimeMod \in Nat \ {0}
BY WeightPositive, Constants DEF TimeMod

(* The weights a stamp may run ahead by.                                   *)
LEMMA AheadBounds ==
  ASSUME NEW k \in 1 .. NumBytes - 1
  PROVE  /\ Weight[k] \in Nat /\ ByteValues <= Weight[k]
         /\ Duration + Weight[k] + ByteValues <= TimeMod
         /\ \E c \in Nat \ {0} : Weight[k] = ByteValues * c
         /\ \E c \in Nat \ {0} : TimeMod = Weight[k] * c
<1>1. k \in 0 .. NumBytes /\ k - 1 \in 0 .. NumBytes - 1 /\ (k - 1) + 1 = k
      /\ k - 1 \in 0 .. NumBytes
      /\ NumBytes - 1 \in k .. NumBytes /\ NumBytes \in k .. NumBytes /\ NumBytes - 1 \in 0 .. NumBytes
  BY Constants
<1>2. Weight[k] \in Nat \ {0} /\ Weight[k - 1] \in Nat \ {0} /\ Weight[NumBytes - 1] \in Nat
  BY <1>1, WeightPositive
<1>3. Weight[k] = ByteValues * Weight[k - 1]
  BY <1>1, WeightStep
<1>4. ByteValues * 1 <= ByteValues * Weight[k - 1]
  BY <1>2, Constants, Monotone
<1>5. ByteValues <= Weight[k]
  BY <1>3, <1>4, Constants
<1>6. Weight[k] <= Weight[NumBytes - 1]
  BY <1>1, WeightOrder
<1>7. Duration + Weight[k] + ByteValues <= TimeMod
  BY <1>2, <1>6, TimeModPositive, TimingAssumption, Constants
<1>8. \E c \in Nat \ {0} : TimeMod = Weight[k] * c
  BY <1>1, WeightDivides DEF TimeMod
<1> QED BY <1>2, <1>3, <1>5, <1>7, <1>8

-----------------------------------------------------------------------------
(* The counter.                                                            *)

(* The interrupt adds one, modulo the range of the counter.                *)
LEMMA NextCount ==
  ASSUME NEW n \in 0 .. TimeMod - 1
  PROVE  /\ (n + 1) % TimeMod \in 0 .. TimeMod - 1
         /\ \E c \in Int : (n + 1) % TimeMod = (n + 1) + TimeMod * c
<1>1. TimeMod \in Nat \ {0} /\ n + 1 \in Int
  BY TimeModPositive
<1> DEFINE q == (n + 1) \div TimeMod
           r == (n + 1) % TimeMod
<1>2. q \in Int /\ r \in 0 .. TimeMod - 1 /\ n + 1 = TimeMod * q + r
  BY <1>1, Division
<1> HIDE DEF q, r
<1>3. TimeMod * (-q) = -(TimeMod * q) /\ TimeMod * q \in Int /\ -q \in Int
  BY <1>1, <1>2
<1>4. r = (n + 1) + TimeMod * (-q)
  BY <1>1, <1>2, <1>3
<1> QED BY <1>2, <1>3, <1>4 DEF r

(* What a tick does to the lower bytes.                                    *)
LEMMA LowerBytes ==
  ASSUME NEW n \in 0 .. TimeMod - 1, NEW i \in 0 .. NumBytes
  PROVE  /\ ((n + 1) % TimeMod) % Weight[i] = (n + 1) % Weight[i]
         /\ (n + 1) % Weight[i] = 0 => n % Weight[i] = Weight[i] - 1
         /\ (n + 1) % Weight[i] # 0 => (n + 1) % Weight[i] = (n % Weight[i]) + 1
<1> DEFINE w == Weight[i]
<1>1. w \in Nat \ {0} /\ TimeMod \in Nat \ {0}
  BY WeightPositive, TimeModPositive
<1>2. PICK c \in Int : (n + 1) % TimeMod = (n + 1) + TimeMod * c
  BY NextCount
<1>3. PICK b \in Nat \ {0} : TimeMod = w * b
  <2>1. NumBytes \in i .. NumBytes
    BY Constants
  <2> QED BY <2>1, WeightDivides DEF TimeMod
<1> HIDE DEF w
<1>4. TimeMod * c = w * (b * c) /\ b * c \in Int
  BY <1>1, <1>3
<1>5. ((n + 1) % TimeMod) % w = (n + 1) % w
  <2> DEFINE n1 == n + 1
             bc == b * c
  <2>1. n1 \in Int /\ bc \in Int /\ (n + 1) % TimeMod = n1 + w * bc
    BY <1>2, <1>4
  <2> HIDE DEF n1, bc
  <2>2. (n1 + w * bc) % w = n1 % w
    BY <1>1, <2>1, Multiples
  <2> QED BY <2>1, <2>2 DEF n1
<1> DEFINE q == n \div w
           r == n % w
<1>6. q \in Int /\ r \in 0 .. w - 1 /\ n = w * q + r
  BY <1>1, Division
<1> HIDE DEF q, r
<1>7. CASE r = w - 1
  <2>1. w * (q + 1) = w * q + w /\ w * q \in Int
    BY <1>1, <1>6
  <2>2. n + 1 = w * (q + 1) + 0
    BY <1>1, <1>6, <1>7, <2>1
  <2>3. (n + 1) % w = 0
    BY <1>1, <1>6, <2>2, Remainder
  <2> QED BY <1>5, <1>7, <2>3 DEF r, w
<1>8. CASE r # w - 1
  <2>1. r + 1 \in 0 .. w - 1 /\ n + 1 = w * q + (r + 1)
    BY <1>1, <1>6, <1>8, Product
  <2>2. (n + 1) % w = r + 1
    <3> DEFINE n1 == n + 1
               r1 == r + 1
    <3>1. n1 \in Int /\ r1 \in 0 .. w - 1 /\ n1 = w * q + r1
      BY <2>1
    <3> HIDE DEF n1, r1
    <3>2. n1 % w = r1
      BY <1>1, <1>6, <3>1, Remainder
    <3> QED BY <3>2 DEF n1, r1
  <2>3. r + 1 # 0
    BY <1>6
  <2> QED BY <1>5, <2>2, <2>3 DEF r, w
<1> QED BY <1>7, <1>8

(* What GetTime returns: the counter, off by the tick or by a carry.       *)
Offset(d) ==
  d # 0 => /\ TCNT0 = 0 /\ ticked /\ spare = 0
           /\ \/ d = -1
              \/ \E k \in 1 .. NumBytes - 1 : /\ d = Weight[k] - 1 /\ _count_ms % Weight[k] = 0
                                              /\ carried

(* A reading that is complete differs from the counter by an offset that a *)
(* tear can cause.                                                         *)
LEMMA ReturnedStamp ==
  ASSUME TimingTypeOK, ReadingInv, pc = NumBytes
  PROVE  \E d \in Int : millisec = (_count_ms + d) % TimeMod /\ Offset(d)
<1>1. /\ TimeMod \in Nat \ {0} /\ _count_ms \in 0 .. TimeMod - 1
      /\ millisec \in 0 .. TimeMod - 1
  BY TimeModPositive DEF TimingTypeOK
<1>2. pc # Idle
  BY Constants DEF Idle
<1>3. PICK d \in Int : Loaded(d)
  BY <1>2 DEF ReadingInv
<1>4. \A n \in 0 .. TimeMod - 1 : n % TimeMod = n
  <2> SUFFICES ASSUME NEW n \in 0 .. TimeMod - 1 PROVE n % TimeMod = n
    OBVIOUS
  <2>1. n = TimeMod * 0 + n
    BY <1>1
  <2> QED BY <1>1, <2>1, Remainder
<1>5. millisec = _count_ms + d
  BY <1>1, <1>3, <1>4 DEF Loaded, TimeMod
<1>6. millisec = (_count_ms + d) % TimeMod
  BY <1>1, <1>4, <1>5
<1>7. CASE Offset(d)
  BY <1>6, <1>7
<1>8. CASE ~Offset(d)
  <2>1. d # 0 /\ spare = 0 /\ TCNT0 = 0 /\ ticked /\ d # -1
    BY <1>3, <1>8 DEF Loaded, Offset
  <2>2. PICK q \in 1 .. NumBytes : /\ d = Weight[q] - 1 /\ _count_ms % Weight[q] = 0
                                   /\ q < NumBytes => carried
    BY <1>3, <2>1 DEF Loaded
  <2>3. q = NumBytes
    <3> SUFFICES ASSUME q # NumBytes PROVE FALSE
      OBVIOUS
    <3>1. q \in 1 .. NumBytes - 1 /\ carried
      BY <2>2, Constants
    <3> QED BY <1>8, <2>1, <2>2, <3>1 DEF Offset
  <2>4. d = TimeMod - 1 /\ _count_ms = 0
    BY <1>1, <1>4, <2>2, <2>3 DEF TimeMod
  <2>5. (_count_ms + (-1)) % TimeMod = millisec
    <3>1. _count_ms + (-1) = TimeMod * (-1) + millisec
      BY <1>1, <1>5, <2>4
    <3> QED BY <1>1, <3>1, Remainder
  <2>6. Offset(-1)
    BY <2>1 DEF Offset
  <2> QED BY <2>5, <2>6
<1> QED BY <1>7, <1>8

-----------------------------------------------------------------------------
(* The steps.                                                              *)

(* What TimingTypeOK says, fact by fact.                                   *)
LEMMA Types ==
  ASSUME TimingTypeOK
  PROVE  /\ TimeMod \in Nat \ {0} /\ _count_ms \in 0 .. TimeMod - 1 /\ _count_ms \in Int
         /\ TCNT0 \in Int /\ TCNT0 >= 0 /\ TCNT0 <= OCR0B
         /\ pc \in Loads \cup {Idle} /\ millisec \in 0 .. TimeMod - 1
         /\ spare \in Nat /\ age \in Nat
         /\ last_trigger.millisec \in Int
         /\ last_trigger.microsec \in Int /\ last_trigger.microsec >= 0
BY TimeModPositive, Constants DEF TimingTypeOK, Stamp

(* No time at all is a stamp.                                              *)
LEMMA NoDeltaType == NoDelta \in Stamp
<1>1. 0 \in 0 .. TimeMod - 1
  BY TimeModPositive
<1>2. 0 \in 0 .. MicroMod - 1
  BY TimingAssumption
<1> QED BY <1>1, <1>2 DEF NoDelta, Stamp

(* TimingInv holds when the clock starts.                                  *)
LEMMA InitStep == Init => TimingInv
<1> SUFFICES ASSUME Init PROVE TimingInv
  OBVIOUS
<1>1. _count_ms \in 0 .. TimeMod - 1 /\ TCNT0 \in 0 .. OCR0B /\ millisec \in 0 .. TimeMod - 1
  BY TimeModPositive, Constants DEF Init
<1>2. spare \in 0 .. LoopCounts + 1 /\ age \in Nat /\ spare <= LoopCounts
  BY Constants DEF Init
<1>3. last_trigger \in Stamp /\ delta \in Stamp
  BY NoDeltaType DEF Init
<1>4. pc \in Loads \cup {Idle} /\ active \in BOOLEAN /\ carried \in BOOLEAN /\ ticked \in BOOLEAN
  BY DEF Init
<1>5. TimingTypeOK
  BY <1>1, <1>2, <1>3, <1>4 DEF TimingTypeOK
<1>6. ReadingInv
  BY <1>2 DEF Init, ReadingInv
<1>7. ActiveInv /\ EarlyOnlyByCarry /\ DurationOrWrap
  BY DEF Init, ActiveInv, EarlyOnlyByCarry, DurationOrWrap
<1> QED BY <1>5, <1>6, <1>7 DEF TimingInv

(* A step that changes nothing keeps TimingInv.                            *)
LEMMA StutterStep ==
  ASSUME TimingInv, UNCHANGED timingVars
  PROVE  TimingInv'
<1>1. TimingTypeOK'
  BY DEF TimingInv, TimingTypeOK, timingVars
<1>2. ReadingInv'
  BY DEF TimingInv, ReadingInv, Loaded, timingVars
<1>3. ActiveInv'
  BY DEF TimingInv, ActiveInv, Elapsed, Within, timingVars
<1>4. EarlyOnlyByCarry' /\ DurationOrWrap'
  BY DEF TimingInv, EarlyOnlyByCarry, DurationOrWrap, timingVars
<1> QED BY <1>1, <1>2, <1>3, <1>4 DEF TimingInv

(* A count leaves less to wait for, and the flag older by one.             *)
LEMMA Passing ==
  ASSUME TimingTypeOK, ReadingInv, TimePasses, pc' = pc, active' = active
  PROVE  /\ spare' \in 0 .. LoopCounts + 1 /\ age' \in Nat
         /\ active => /\ age' = age + 1 /\ spare' = spare - 1
                      /\ \A m \in Int : Within(m) => Within(m)'
         /\ ~active => age' = age
         /\ pc # Idle => spare' = 0 /\ spare = 1
         /\ pc = Idle => spare' <= LoopCounts /\ (active => spare' # LoopCounts)
<1>1. spare \in 0 .. LoopCounts + 1 /\ age \in Nat /\ LoopCounts \in Nat
  BY Constants DEF TimingTypeOK
<1>2. spare' \in 0 .. LoopCounts + 1 /\ age' \in Nat
  BY <1>1 DEF TimePasses
<1>3. active => age' = age + 1 /\ spare' = spare - 1
  BY DEF TimePasses
<1>4. \A m \in Int : (active /\ Within(m)) => Within(m)'
  BY <1>1, <1>2, <1>3 DEF Within
<1>5. pc # Idle => spare' = 0 /\ spare = 1
  BY <1>1 DEF TimePasses, ReadingInv
<1>6. pc = Idle => spare' <= LoopCounts /\ (active => spare' # LoopCounts)
  BY <1>1 DEF TimePasses, ReadingInv
<1> QED BY <1>2, <1>3, <1>4, <1>5, <1>6 DEF TimePasses

(* A count of TCNT0 within the millisecond: the age grows, no stamp        *)
(* changes.                                                                *)
LEMMA CountStep ==
  ASSUME TimingInv, Count
  PROVE  TimingInv'
<1>1. TimingTypeOK /\ ReadingInv /\ TimePasses /\ pc' = pc /\ active' = active
  BY DEF TimingInv, Count
<1>2. /\ spare' \in 0 .. LoopCounts + 1 /\ age' \in Nat
      /\ active => /\ age' = age + 1 /\ spare' = spare - 1
                   /\ \A m \in Int : Within(m) => Within(m)'
      /\ ~active => age' = age
      /\ pc # Idle => spare' = 0 /\ spare = 1
      /\ pc = Idle => spare' <= LoopCounts /\ (active => spare' # LoopCounts)
  BY <1>1, Passing
<1>3. TCNT0' \in 0 .. OCR0B
  BY <1>1, Types, Constants DEF Count
<1>4. TimingTypeOK'
  BY <1>1, <1>2, <1>3 DEF TimingTypeOK, Count
<1>5. ReadingInv'
  <2>1. CASE pc = Idle
    BY <1>1, <1>2, <2>1 DEF ReadingInv
  <2>2. CASE pc # Idle
    <3>1. PICK d \in Int : Loaded(d)
      BY <1>1, <2>2 DEF ReadingInv
    <3>2. d = 0
      BY <1>2, <2>2, <3>1 DEF Loaded
    <3>3. millisec < Weight[pc]
      BY <1>1, <2>2 DEF ReadingInv
    <3>4. Loaded(0)'
      BY <3>1, <3>2 DEF Loaded, Count
    <3>5. (active' /\ spare' = 0) => age' >= 1
      BY <1>1, <1>2, Types
    <3> QED BY <1>1, <1>2, <2>2, <3>3, <3>4, <3>5 DEF ReadingInv, Count
  <2> QED BY <2>1, <2>2
<1>6. ActiveInv'
  <2> SUFFICES ASSUME active PROVE ActiveInv'
    BY <1>1 DEF ActiveInv
  <2>1. PICK e \in Nat, a \in Int : Elapsed(e, a)
    BY DEF TimingInv, ActiveInv
  <2>2. e * Period \in Int /\ 0 \in Int /\ Duration * Period \in Int
    BY Constants, Product
  <2>3. age' = e * Period + TCNT0' - last_trigger.microsec
    <3>1. \A p, t, u \in Int : (p + t - u) + 1 = p + (t + 1) - u
      OBVIOUS
    <3>2. age = e * Period + TCNT0 - last_trigger.microsec /\ TCNT0' = TCNT0 + 1 /\ age' = age + 1
      BY <1>2, <2>1 DEF Elapsed, Count
    <3>3. TCNT0 \in Int /\ last_trigger.microsec \in Int
      BY <1>1, Types
    <3> QED BY <2>2, <3>1, <3>2, <3>3
  <2>4. Elapsed(e, a)'
    BY <1>2, <2>1, <2>2, <2>3 DEF Elapsed, Count
  <2>5. Within(Duration * Period)'
    BY <1>2, <2>2 DEF TimingInv, ActiveInv
  <2>6. last_trigger'.microsec <= OCR0B
    BY DEF TimingInv, ActiveInv, Count
  <2> QED BY <2>4, <2>5, <2>6 DEF ActiveInv
<1>7. EarlyOnlyByCarry' /\ DurationOrWrap'
  BY <1>1, <1>2 DEF TimingInv, EarlyOnlyByCarry, DurationOrWrap, Count
<1> QED BY <1>4, <1>5, <1>6, <1>7 DEF TimingInv

(* A reading that begins has loaded nothing and has missed no tick.        *)
LEMMA GetTimeStep ==
  ASSUME TimingInv, GetTime
  PROVE  TimingInv'
<1>1. TimingTypeOK /\ ReadingInv
  BY DEF TimingInv
<1>2. pc' = 0 /\ pc = Idle /\ 0 # Idle /\ spare' = 1 /\ millisec' = 0
  BY DEF GetTime, Idle
<1>3. 0 \in Loads /\ spare' \in 0 .. LoopCounts + 1 /\ millisec' \in 0 .. TimeMod - 1
  BY <1>2, Constants, TimeModPositive DEF Loads
<1>4. carried' \in BOOLEAN
  BY <1>1, Zenon DEF TimingTypeOK, GetTime
<1>5. ticked' \in BOOLEAN
  BY <1>1, Zenon DEF TimingTypeOK, GetTime
<1>6. TimingTypeOK'
  BY <1>1, <1>2, <1>3, <1>4, <1>5 DEF TimingTypeOK, GetTime
<1>7. ReadingInv'
  <2>1. Weight[0] = 1
    BY WeightAssumption
  <2>2. _count_ms % 1 = 0
    BY <1>1, Types
  <2>3. Loaded(0)'
    BY <1>2, <2>1, <2>2 DEF Loaded, GetTime
  <2> QED BY <1>2, <2>1, <2>3 DEF ReadingInv
<1>8. ActiveInv'
  <2> SUFFICES ASSUME active PROVE ActiveInv'
    BY DEF ActiveInv, GetTime
  <2>1. PICK e \in Nat, a \in Int : Elapsed(e, a)
    BY DEF TimingInv, ActiveInv
  <2>2. Duration * Period \in Int /\ 0 \in Int
    BY Constants, Product
  <2>3. \A m \in Int : Within(m) => Within(m)'
    BY <1>1, <1>2, Types, Constants DEF Within, GetTime
  <2>4. Elapsed(e, a)'
    BY <2>1, <2>2, <2>3 DEF Elapsed, GetTime
  <2>5. Within(Duration * Period)'
    BY <2>2, <2>3 DEF TimingInv, ActiveInv
  <2>6. last_trigger'.microsec <= OCR0B
    BY DEF TimingInv, ActiveInv, GetTime
  <2> QED BY <2>4, <2>5, <2>6 DEF ActiveInv
<1>9. EarlyOnlyByCarry' /\ DurationOrWrap'
  BY <1>2 DEF EarlyOnlyByCarry, DurationOrWrap
<1> QED BY <1>6, <1>7, <1>8, <1>9 DEF TimingInv

(* The next byte adds its place value times the digit of the counter as it *)
(* is now.                                                                 *)
LEMMA LoadByteStep ==
  ASSUME TimingInv, LoadByte
  PROVE  TimingInv'
<1>1. TimingTypeOK /\ ReadingInv /\ _count_ms \in Int /\ millisec \in Nat
  BY Types DEF TimingInv
<1>2. pc \in 0 .. NumBytes - 1 /\ pc # Idle /\ pc' = pc + 1 /\ pc' # Idle /\ pc' \in Loads
  BY Constants DEF LoadByte, Idle, Loads
<1>3. /\ pc \in 0 .. NumBytes /\ pc' \in 0 .. NumBytes
      /\ Weight[pc] \in Nat \ {0} /\ Weight[pc'] \in Nat \ {0}
      /\ Weight[pc'] = ByteValues * Weight[pc] /\ Weight[pc'] <= TimeMod
  <2>1. pc \in 0 .. NumBytes /\ pc' \in 0 .. NumBytes /\ NumBytes \in pc' .. NumBytes
    BY <1>2, Constants
  <2> QED BY <1>2, <2>1, WeightPositive, WeightStep, WeightOrder DEF TimeMod
<1> DEFINE b == ByteOf(_count_ms, pc)
<1>4. b \in 0 .. ByteValues - 1 /\ _count_ms % Weight[pc'] = (_count_ms % Weight[pc]) + b * Weight[pc]
  <2>1. ByteValues \in Nat \ {0}
    BY Constants
  <2>2. _count_ms % (ByteValues * Weight[pc]) = (_count_ms % Weight[pc]) + b * Weight[pc]
        /\ b \in 0 .. ByteValues - 1
    BY <1>1, <1>3, <2>1, Digit DEF ByteOf
  <2> QED BY <1>3, <2>2
<1>5. millisec' = millisec + b * Weight[pc]
  BY DEF LoadByte
<1> HIDE DEF b
<1>6. b * Weight[pc] \in Nat /\ b * Weight[pc] <= Weight[pc'] - Weight[pc]
  <2>1. b * Weight[pc] = Weight[pc] * b
    BY <1>3, <1>4
  <2>2. Weight[pc] * 0 <= Weight[pc] * b /\ Weight[pc] * b <= Weight[pc] * (ByteValues - 1)
    BY <1>3, <1>4, Constants, Monotone
  <2>3. Weight[pc] * 0 = 0
    BY <1>3
  <2>4. Weight[pc] * (ByteValues - 1) = ByteValues * Weight[pc] - Weight[pc]
    <3>1. \A v, w \in Int : w * (v - 1) = v * w - w
      OBVIOUS
    <3>2. Weight[pc] \in Int /\ ByteValues \in Int
      BY <1>3, Constants
    <3> QED BY <3>1, <3>2, Zenon
  <2>5. Weight[pc] * b \in Int
    BY <1>3, <1>4, Product
  <2> QED BY <1>3, <2>1, <2>2, <2>3, <2>4, <2>5
<1>7. millisec < Weight[pc] /\ (\E d \in Int : Loaded(d)) /\ spare <= 1
      /\ (active /\ spare = 0 => age >= 1)
  BY <1>1, <1>2 DEF ReadingInv
<1>8. millisec' \in Nat /\ millisec' < Weight[pc']
  BY <1>1, <1>3, <1>5, <1>6, <1>7
<1>9. TimingTypeOK'
  <2>1. millisec' \in 0 .. TimeMod - 1
    BY <1>3, <1>8, TimeModPositive
  <2> QED BY <1>1, <1>2, <2>1 DEF TimingTypeOK, LoadByte
<1>10. ReadingInv'
  <2>1. PICK d \in Int : Loaded(d)
    BY <1>7
  <2>2. \A m, p, r \in Int : m = r + d => m + p = (r + p) + d
    OBVIOUS
  <2>3. _count_ms % Weight[pc] \in Int
    BY <1>1, <1>3, Division
  <2>4. millisec' = (_count_ms % Weight[pc']) + d
    BY <1>1, <1>4, <1>5, <1>6, <2>1, <2>2, <2>3 DEF Loaded
  <2>5. Loaded(d)'
    <3>1. _count_ms' = _count_ms /\ UNCHANGED <<spare, TCNT0, ticked, carried>>
      BY DEF LoadByte
    <3>2. \A q \in 1 .. pc : q \in 1 .. pc'
      BY <1>2
    <3> QED BY <2>1, <2>4, <3>1, <3>2 DEF Loaded
  <2> QED BY <1>2, <1>7, <1>8, <2>5 DEF ReadingInv, LoadByte
<1>11. ActiveInv'
  <2> SUFFICES ASSUME active PROVE ActiveInv'
    BY DEF ActiveInv, LoadByte
  <2>1. \A m \in Int : Within(m) => Within(m)'
    BY <1>2 DEF Within, LoadByte
  <2>2. Duration * Period \in Int /\ 0 \in Int
    BY Constants, Product
  <2>3. PICK e \in Nat, a \in Int : Elapsed(e, a)
    BY DEF TimingInv, ActiveInv
  <2>4. Elapsed(e, a)'
    BY <2>1, <2>2, <2>3 DEF Elapsed, LoadByte
  <2> QED BY <2>1, <2>2, <2>4 DEF TimingInv, ActiveInv, LoadByte
<1>12. EarlyOnlyByCarry' /\ DurationOrWrap'
  BY <1>2 DEF EarlyOnlyByCarry, DurationOrWrap
<1> QED BY <1>9, <1>10, <1>11, <1>12 DEF TimingInv

(* A flag that is armed begins with the offset of its stamp.               *)
LEMMA ArmStep ==
  ASSUME TimingInv, Arm
  PROVE  TimingInv'
<1>1. TimingTypeOK /\ ReadingInv /\ pc = NumBytes /\ pc' = Idle
  BY DEF TimingInv, Arm
<1>2. Returned \in Stamp /\ Returned.microsec = TCNT0 /\ Returned.millisec = millisec
  <2>1. TCNT0 \in 0 .. MicroMod - 1 /\ millisec \in 0 .. TimeMod - 1
    BY <1>1, Types, TimingAssumption
  <2> QED BY <2>1 DEF Returned, Stamp
<1>3. spare' = LoopCounts /\ age' = 0 /\ delta' = NoDelta /\ last_trigger' = Returned /\ active' = TRUE
  BY DEF Arm
<1>4. spare' \in 0 .. LoopCounts + 1 /\ age' \in Nat
  BY <1>3, Constants
<1>5. active' \in BOOLEAN
  BY <1>3, Zenon
<1>6. TimingTypeOK'
  BY <1>1, <1>2, <1>3, <1>4, <1>5, NoDeltaType DEF TimingTypeOK, Arm
<1>7. ReadingInv'
  BY <1>1, <1>3, Constants DEF ReadingInv
<1>8. ActiveInv'
  <2>1. PICK d \in Int : millisec = (_count_ms + d) % TimeMod /\ Offset(d)
    BY <1>1, ReturnedStamp
  <2>2. 0 * Period = 0 /\ Duration * Period \in Nat
    BY Constants
  <2>3. age' = 0 * Period + TCNT0' - last_trigger'.microsec
    BY <1>1, <1>2, <1>3, <2>2, Types DEF Arm
  <2>4. _count_ms' = _count_ms /\ _count_ms - 0 = _count_ms
    BY <1>1, Types DEF Arm
  <2>5. \A m \in Nat : Within(m)'
    BY <1>1, <1>3, Constants DEF Within
  <2>6. Elapsed(0, d)'
    <3>1. last_trigger'.millisec = (_count_ms' - 0 + d) % TimeMod
      BY <1>2, <1>3, <2>1, <2>4
    <3>2. d # 0 => last_trigger'.microsec = 0 /\ ticked' /\ (carried => carried')
      BY <1>2, <1>3, <2>1 DEF Offset, Arm
    <3>3. ASSUME d # 0, d # -1
          PROVE  \E k \in 1 .. NumBytes - 1 : /\ d = Weight[k] - 1
                                              /\ (_count_ms' - 0) % Weight[k] = 0 /\ carried'
      BY <2>1, <2>4, <3>2, <3>3 DEF Offset
    <3> QED BY <2>3, <2>5, <3>1, <3>2, <3>3 DEF Elapsed
  <2>7. last_trigger'.microsec <= OCR0B
    BY <1>1, <1>2, <1>3, Types
  <2> QED BY <2>2, <2>5, <2>6, <2>7 DEF ActiveInv
<1>9. EarlyOnlyByCarry' /\ DurationOrWrap'
  BY <1>3 DEF EarlyOnlyByCarry, DurationOrWrap
<1> QED BY <1>6, <1>7, <1>8, <1>9 DEF TimingInv

(* The interrupt falls between two loads: the bytes loaded before it lag   *)
(* by one or run ahead by a carry.                                         *)
LEMMA TickStep ==
  ASSUME TimingInv, TIMER0_COMPB_vect
  PROVE  TimingInv'
<1>1. TimingTypeOK /\ ReadingInv /\ TimePasses /\ pc' = pc /\ active' = active
  BY DEF TimingInv, TIMER0_COMPB_vect
<1>2. /\ spare' \in 0 .. LoopCounts + 1 /\ age' \in Nat
      /\ active => /\ age' = age + 1 /\ spare' = spare - 1
                   /\ \A m \in Int : Within(m) => Within(m)'
      /\ ~active => age' = age
      /\ pc # Idle => spare' = 0 /\ spare = 1
      /\ pc = Idle => spare' <= LoopCounts /\ (active => spare' # LoopCounts)
  BY <1>1, Passing
<1>3. /\ _count_ms' = (_count_ms + 1) % TimeMod /\ TCNT0' = 0 /\ TCNT0 = OCR0B
      /\ _count_ms \in 0 .. TimeMod - 1 /\ _count_ms \in Int /\ TimeMod \in Nat \ {0}
  BY <1>1, Types DEF TIMER0_COMPB_vect
<1>4. TimingTypeOK'
  <2>1. _count_ms' \in 0 .. TimeMod - 1 /\ TCNT0' \in 0 .. OCR0B
    BY <1>3, NextCount, Constants
  <2>2. ticked' \in BOOLEAN
    BY <1>1, Zenon DEF TimingTypeOK, TIMER0_COMPB_vect
  <2>3. carried' \in BOOLEAN
    BY <1>1, Zenon DEF TimingTypeOK, TIMER0_COMPB_vect
  <2> QED BY <1>1, <1>2, <2>1, <2>2, <2>3 DEF TimingTypeOK, TIMER0_COMPB_vect
<1>5. ReadingInv'
  <2>1. CASE pc = Idle
    BY <1>1, <1>2, <2>1 DEF ReadingInv
  <2>2. CASE pc # Idle
    <3>1. pc \in 0 .. NumBytes /\ Weight[pc] \in Nat \ {0} /\ millisec \in Int
      BY <1>1, <2>2, Types, WeightPositive DEF Loads
    <3>2. PICK d \in Int : Loaded(d)
      BY <1>1, <2>2 DEF ReadingInv
    <3>3. d = 0
      BY <1>2, <2>2, <3>2 DEF Loaded
    <3>4. _count_ms % Weight[pc] \in Int
      BY <1>3, <3>1, Division
    <3>5. millisec = _count_ms % Weight[pc]
      BY <3>2, <3>3, <3>4 DEF Loaded
    <3>6. _count_ms' % Weight[pc] = (_count_ms + 1) % Weight[pc]
      BY <1>3, <3>1, LowerBytes
    <3>7. spare' = 0 /\ TCNT0' = 0 /\ ticked' /\ millisec' = millisec
      BY <1>2, <1>3, <2>2 DEF TIMER0_COMPB_vect
    <3>8. \E c \in Int : Loaded(c)'
      <4>1. CASE CarriesOutOf(pc)
        <5>1. millisec = Weight[pc] - 1 /\ _count_ms' % Weight[pc] = 0
          BY <1>3, <3>1, <3>5, <3>6, <4>1, LowerBytes DEF CarriesOutOf
        <5>2. PICK c \in Int : c = Weight[pc] - 1
          BY <3>1
        <5>3. millisec' = (_count_ms' % Weight[pc']) + c
          BY <1>1, <3>1, <3>7, <5>1, <5>2
        <5>4. c # 0 => /\ pc \in 1 .. pc' /\ _count_ms' % Weight[pc] = 0
                       /\ pc < NumBytes => carried'
          <6>1. c # 0 => pc # 0
            BY <5>2, WeightAssumption
          <6>2. (pc # 0 /\ pc < NumBytes) => pc \in 1 .. NumBytes - 1
            BY <3>1, Constants
          <6>3. pc # 0 => pc \in 1 .. pc'
            BY <1>1, <3>1, Constants
          <6> QED BY <4>1, <5>1, <6>1, <6>2, <6>3 DEF TIMER0_COMPB_vect
        <5>5. Loaded(c)'
          <6>1. c # 0 => \E q \in 1 .. pc' : /\ c = Weight[q] - 1 /\ _count_ms' % Weight[q] = 0
                                             /\ q < NumBytes => carried'
            BY <5>4, <5>2
          <6> QED BY <3>7, <5>3, <6>1 DEF Loaded
        <5> QED BY <5>5
      <4>2. CASE ~CarriesOutOf(pc)
        <5>1. _count_ms' % Weight[pc'] = millisec + 1
          BY <1>1, <1>3, <3>1, <3>5, <3>6, <4>2, LowerBytes DEF CarriesOutOf
        <5>2. millisec' = (_count_ms' % Weight[pc']) + (-1)
          BY <3>1, <3>7, <5>1
        <5>3. Loaded(-1)'
          BY <3>7, <5>2 DEF Loaded
        <5> QED BY <5>3
      <4> QED BY <4>1, <4>2
    <3>9. (active' /\ spare' = 0) => age' >= 1
      BY <1>1, <1>2, Types
    <3> QED BY <1>1, <2>2, <3>7, <3>8, <3>9 DEF ReadingInv
  <2> QED BY <2>1, <2>2
<1>6. ActiveInv'
  <2> SUFFICES ASSUME active PROVE ActiveInv'
    BY <1>1 DEF ActiveInv
  <2>1. PICK e \in Nat, a \in Int : Elapsed(e, a)
    BY DEF TimingInv, ActiveInv
  <2>2. PICK c \in Int : _count_ms' = (_count_ms + 1) + TimeMod * c
    BY <1>3, NextCount
  <2>3. e + 1 \in Nat /\ e * Period \in Int /\ 0 \in Int /\ Duration * Period \in Int
    BY Constants, Product
  <2>4. age' = (e + 1) * Period + TCNT0' - last_trigger.microsec
    <3>1. \A m, p \in Int : (m + 1) * p = m * p + p
      OBVIOUS
    <3>2. (e + 1) * Period = e * Period + Period
      BY <3>1, Constants
    <3>3. \A p, u, o \in Int : (p + o - u) + 1 = (p + (o + 1)) + 0 - u
      OBVIOUS
    <3>4. age = e * Period + OCR0B - last_trigger.microsec /\ age' = age + 1
      BY <1>2, <1>3, <2>1 DEF Elapsed
    <3>5. OCR0B \in Int /\ last_trigger.microsec \in Int /\ Period = OCR0B + 1
      BY <1>1, Types, Constants
    <3> QED BY <1>3, <2>3, <3>2, <3>3, <3>4, <3>5
  <2> DEFINE x == _count_ms - e
             v == TimeMod * c
  <2>5. x \in Int /\ v \in Int /\ _count_ms' - (e + 1) = x + v
        /\ _count_ms' - (e + 1) + a = (x + a) + v
    BY <1>3, <2>2, Product
  <2>6. last_trigger.millisec = (_count_ms' - (e + 1) + a) % TimeMod
    <3> DEFINE y == x + a
    <3>1. y \in Int /\ last_trigger.millisec = y % TimeMod
      BY <2>1, <2>5 DEF Elapsed
    <3> HIDE DEF x, y
    <3>2. (y + TimeMod * c) % TimeMod = y % TimeMod
      BY <1>3, <3>1, Multiples
    <3> QED BY <2>5, <3>1, <3>2 DEF y
  <2>7. \A k \in 1 .. NumBytes - 1 : (_count_ms' - (e + 1)) % Weight[k] = (_count_ms - e) % Weight[k]
    <3> SUFFICES ASSUME NEW k \in 1 .. NumBytes - 1
                 PROVE  (x + v) % Weight[k] = x % Weight[k]
      BY <2>5
    <3> DEFINE w == Weight[k]
    <3>1. w \in Nat \ {0}
      BY WeightPositive, Constants
    <3>2. PICK b \in Nat \ {0} : TimeMod = w * b
      BY AheadBounds
    <3> HIDE DEF w, x
    <3> DEFINE bc == b * c
    <3>3. bc \in Int /\ v = w * bc
      BY <3>1, <3>2
    <3> HIDE DEF bc, v
    <3>4. (x + w * bc) % w = x % w
      BY <2>5, <3>1, <3>3, Multiples
    <3> QED BY <3>3, <3>4 DEF w
  <2>8. Elapsed(e + 1, a)'
    <3> HIDE DEF x, v
    <3>1. last_trigger' = last_trigger /\ (ticked => ticked') /\ (carried => carried')
      BY DEF TIMER0_COMPB_vect
    <3>2. Within(0) => Within(0)'
      BY <1>2, <2>3
    <3> QED BY <2>1, <2>4, <2>6, <2>7, <3>1, <3>2 DEF Elapsed
  <2>9. Within(Duration * Period)'
    BY <1>2, <2>3 DEF TimingInv, ActiveInv
  <2>10. last_trigger'.microsec <= OCR0B
    BY DEF TimingInv, ActiveInv, TIMER0_COMPB_vect
  <2> QED BY <2>3, <2>8, <2>9, <2>10 DEF ActiveInv
<1>7. EarlyOnlyByCarry' /\ DurationOrWrap'
  <2>1. (carried => carried') /\ (ticked => ticked') /\ delta' = delta
    BY DEF TIMER0_COMPB_vect
  <2> QED BY <1>1, <1>2, <2>1 DEF TimingInv, EarlyOnlyByCarry, DurationOrWrap
<1> QED BY <1>4, <1>5, <1>6, <1>7 DEF TimingInv

-----------------------------------------------------------------------------
(* The poll.                                                               *)

(* The difference of two remainders.                                       *)
LEMMA Difference ==
  ASSUME NEW w \in Nat \ {0}, NEW x \in Int, NEW y \in Int
  PROVE  ((x % w) - (y % w)) % w = (x - y) % w
<1> DEFINE p == x \div w
           q == y \div w
           r == x % w
           s == y % w
<1>1. p \in Int /\ r \in Int /\ x = w * p + r
  BY Division
<1>2. q \in Int /\ s \in Int /\ y = w * q + s
  BY Division
<1> HIDE DEF p, q, r, s
<1> DEFINE z == r - s
           c == p - q
<1>3. w * c = w * p - w * q
  BY <1>1, <1>2
<1>4. z \in Int /\ c \in Int /\ x - y = z + w * c
  BY <1>1, <1>2, <1>3, Product
<1> HIDE DEF z, c
<1>5. (z + w * c) % w = z % w
  BY <1>4, Multiples
<1> QED BY <1>4, <1>5 DEF z, r, s

(* Small numbers are their own remainders, and small negative ones wrap.   *)
LEMMA Small ==
  ASSUME NEW w \in Nat \ {0}, NEW z \in Int
  PROVE  /\ (0 <= z /\ z < w) => z % w = z
         /\ (-w <= z /\ z < 0) => z % w = z + w
<1>1. ASSUME 0 <= z, z < w PROVE z % w = z
  <2>1. z = w * 0 + z /\ z \in 0 .. w - 1
    BY <1>1
  <2> QED BY <2>1, Remainder
<1>2. ASSUME -w <= z, z < 0 PROVE z % w = z + w
  <2> DEFINE r == z + w
  <2>1. z = w * (-1) + r /\ r \in 0 .. w - 1
    BY <1>2
  <2> HIDE DEF r
  <2>2. z % w = r
    BY <2>1, Remainder
  <2> QED BY <2>2 DEF r
<1> QED BY <1>1, <1>2

(* A multiple of w * c is one of w.                                        *)
LEMMA Reduce ==
  ASSUME NEW w \in Nat \ {0}, NEW v \in Int, \E c \in Nat \ {0} : v = w * c,
         NEW n \in Int, n % v = 0
  PROVE  n % w = 0
<1>1. PICK c \in Nat \ {0} : v = w * c
  OBVIOUS
<1>2. v \in Nat \ {0}
  BY <1>1, Positive
<1> DEFINE f == n \div v
           g == c * f
<1>3. f \in Int /\ n = v * f + 0
  BY <1>2, Division
<1> HIDE DEF f
<1>4. (w * c) * f = w * (c * f) /\ c * f \in Int /\ w * (c * f) \in Int
  BY <1>3
<1>5. g \in Int /\ n = w * g + 0
  BY <1>1, <1>3, <1>4
<1> HIDE DEF g
<1> QED BY <1>5, Remainder

(* Two multiples of w are not a little apart.                              *)
LEMMA Congruent ==
  ASSUME NEW w \in Nat \ {0}, NEW n \in Int, NEW e \in Nat, e < w, n % w = 0, (n - e) % w = 0
  PROVE  e = 0
<1> DEFINE m == n - e
<1>1. m \in Int /\ m % w = 0 /\ n - m = e
  OBVIOUS
<1> HIDE DEF m
<1>2. ((n % w) - (m % w)) % w = (n - m) % w
  BY <1>1, Difference
<1>3. e % w = e /\ 0 % w = 0
  BY Small
<1> QED BY <1>1, <1>2, <1>3

(* A bound on a product bounds its factor.                                 *)
LEMMA Factor ==
  ASSUME NEW e \in Int, NEW m \in Int, NEW p \in Nat \ {0}, e * p < (m + 1) * p
  PROVE  e <= m
<1> SUFFICES ASSUME m + 1 <= e PROVE FALSE
  OBVIOUS
<1> DEFINE k == m + 1
<1>1. k \in Int /\ k <= e /\ e * p < k * p
  OBVIOUS
<1> HIDE DEF k
<1>2. p * k <= p * e
  BY <1>1, Monotone
<1>3. p * k = k * p /\ p * e = e * p /\ p * k \in Int /\ p * e \in Int
  BY <1>1
<1> QED BY <1>1, <1>2, <1>3

(* What GetTime adds to a poll's view of the flag.                         *)
LEMMA SinceMillis ==
  ASSUME NEW e \in Int, NEW a \in Int, NEW d \in Int, TimingTypeOK,
         millisec = (_count_ms + d) % TimeMod,
         last_trigger.millisec = (_count_ms - e + a) % TimeMod
  PROVE  SecondsSince(last_trigger).millisec = (e + d - a) % TimeMod
<1> DEFINE x == _count_ms + d
           y == _count_ms - e + a
<1>1. x \in Int /\ y \in Int /\ TimeMod \in Nat \ {0} /\ x - y = e + d - a
  BY Types
<1>2. SecondsSince(last_trigger).millisec = ((x % TimeMod) - (y % TimeMod)) % TimeMod
  BY DEF SecondsSince, Returned
<1> HIDE DEF x, y
<1>3. ((x % TimeMod) - (y % TimeMod)) % TimeMod = (x - y) % TimeMod
  BY <1>1, Difference
<1> QED BY <1>1, <1>2, <1>3

(* The age of a flag in milliseconds and in counts.                        *)
LEMMA AgeBounds ==
  ASSUME TimingTypeOK, ActiveInv, active, NEW e \in Nat, NEW a \in Int, Elapsed(e, a),
         NEW m \in Int
  PROVE  /\ m * Period \in Int /\ (m + 1) * Period = m * Period + Period
         /\ e <= m => age <= m * Period + TCNT0
         /\ e >= m => age >= m * Period - last_trigger.microsec
         /\ age + last_trigger.microsec - TCNT0 < (m + 1) * Period => e <= m
<1>1. /\ age = e * Period + TCNT0 - last_trigger.microsec
      /\ TCNT0 \in Int /\ TCNT0 >= 0
      /\ last_trigger.microsec \in Int /\ last_trigger.microsec >= 0
  BY Types DEF Elapsed
<1>2. Period \in Nat \ {0}
  BY Constants
<1> DEFINE P == Period
<1>3. e * P \in Int /\ m * P \in Int /\ (m + 1) * P = m * P + P /\ P * e = e * P /\ P * m = m * P
  BY <1>2
<1>4. e <= m => e * P <= m * P
  BY <1>2, <1>3, Monotone
<1>5. e >= m => e * P >= m * P
  BY <1>2, <1>3, Monotone
<1>6. e * P < (m + 1) * P => e <= m
  BY <1>2, Factor
<1>7. age + last_trigger.microsec - TCNT0 = e * P
  BY <1>1, <1>3
<1> HIDE DEF P
<1>8. e <= m => age <= m * P + TCNT0
  BY <1>1, <1>3, <1>4, <1>7
<1>9. e >= m => age >= m * P - last_trigger.microsec
  BY <1>1, <1>3, <1>5, <1>7
<1> QED BY <1>3, <1>6, <1>7, <1>8, <1>9 DEF P

(* A poll is never so late that the counter could come round.              *)
LEMMA PollBounds ==
  ASSUME TimingInv, active, pc = NumBytes, NEW e \in Nat, NEW a \in Int, Elapsed(e, a),
         NEW d \in Int, Offset(d)
  PROVE  /\ e <= Duration + ByteValues - 1
         /\ d # 0 => e >= 1
         /\ (Within(0) /\ last_trigger.microsec = 0) => e <= ByteValues - 2
<1>1. /\ TimingTypeOK /\ ActiveInv /\ pc # Idle
      /\ TCNT0 \in Int /\ TCNT0 >= 0 /\ spare \in Nat /\ age \in Nat
      /\ last_trigger.microsec \in Int /\ last_trigger.microsec >= 0
      /\ last_trigger.microsec <= OCR0B
  BY Types, Constants DEF TimingInv, ActiveInv, Idle
<1>2. /\ Period \in Nat /\ Period = OCR0B + 1 /\ ByteValues \in Nat /\ Duration \in Nat
      /\ LoopCounts \in Nat /\ OCR0B \in Nat /\ LoopCounts + 1 < (ByteValues - 1) * Period
  BY Constants, TimingAssumption
<1> DEFINE L == (ByteValues - 1) * Period
           D == Duration * Period
           m == Duration + ByteValues - 1
<1>3. L \in Int /\ D \in Int /\ m \in Int /\ LoopCounts + 1 < L
  BY <1>2
<1>4. e <= m
  <2>1. (m + 1) * Period = D + L + Period
    BY <1>2
  <2>2. age + spare <= D + LoopCounts + 1
    BY <1>1 DEF ActiveInv, Within
  <2> HIDE DEF D, L, m
  <2>3. age + last_trigger.microsec - TCNT0 < (m + 1) * Period
    BY <1>1, <1>2, <1>3, <2>1, <2>2
  <2> QED BY <1>1, <1>3, <2>3, AgeBounds
<1>5. ASSUME d # 0 PROVE e >= 1
  <2>1. TCNT0 = 0 /\ spare = 0
    BY <1>5 DEF Offset
  <2>2. age >= 1
    BY <1>1, <2>1 DEF TimingInv, ReadingInv
  <2>3. e <= 0 => age <= 0 * Period + TCNT0
    BY <1>1, AgeBounds
  <2>4. 0 * Period = 0
    BY <1>2
  <2> QED BY <1>1, <2>1, <2>2, <2>3, <2>4
<1>6. ASSUME Within(0), last_trigger.microsec = 0 PROVE e <= ByteValues - 2
  <2> DEFINE b == ByteValues - 2
  <2>1. age + spare <= LoopCounts + 1
    BY <1>1, <1>2, <1>6 DEF Within
  <2>2. b \in Int /\ b + 1 = ByteValues - 1
    BY <1>2
  <2>3. (b + 1) * Period = L
    BY <2>2
  <2> HIDE DEF L, b
  <2>4. age + last_trigger.microsec - TCNT0 < (b + 1) * Period
    BY <1>1, <1>2, <1>3, <1>6, <2>1, <2>3
  <2>5. e <= b
    BY <1>1, <2>2, <2>4, AgeBounds
  <2> QED BY <2>5 DEF b
<1> QED BY <1>4, <1>5, <1>6

(* A poll of a flag whose stamp did not run ahead.                         *)
LEMMA PollPlain ==
  ASSUME TimingInv, active, pc = NumBytes, NEW e \in Nat, NEW a \in Int, Elapsed(e, a),
         NEW d \in Int, Offset(d), millisec = (_count_ms + d) % TimeMod, a \in {0, -1}
  PROVE  SecondsSince(last_trigger).millisec = e + d - a
<1>1. TimingTypeOK /\ last_trigger.millisec = (_count_ms - e + a) % TimeMod
  BY DEF TimingInv, Elapsed
<1>2. SecondsSince(last_trigger).millisec = (e + d - a) % TimeMod
  BY <1>1, SinceMillis
<1>3. e <= Duration + ByteValues - 1 /\ (d # 0 => e >= 1)
  BY PollBounds
<1>4. Duration \in Nat /\ ByteValues \in Nat /\ ByteValues >= 2
  BY Constants
<1>5. 0 <= e + d - a /\ e + d - a < TimeMod
  <2>1. CASE d \in {0, -1}
    <3>1. Weight[NumBytes - 1] \in Nat \ {0}
      BY WeightPositive, Constants
    <3>2. Duration + ByteValues + 1 <= TimeMod
      BY <1>4, <3>1, TimeModPositive, TimingAssumption
    <3> QED BY <1>3, <1>4, <2>1, <3>2, TimeModPositive
  <2>2. CASE d \notin {0, -1}
    <3>1. PICK k \in 1 .. NumBytes - 1 : d = Weight[k] - 1
      BY <2>2 DEF Offset
    <3>2. Weight[k] \in Nat /\ ByteValues <= Weight[k] /\ Duration + Weight[k] + ByteValues <= TimeMod
      BY AheadBounds
    <3> QED BY <1>3, <1>4, <3>1, <3>2, TimeModPositive
  <2> QED BY <2>1, <2>2
<1> DEFINE z == e + d - a
<1>6. z \in Int /\ 0 <= z /\ z < TimeMod
  BY <1>5
<1> HIDE DEF z
<1>7. z % TimeMod = z
  BY <1>6, TimeModPositive, Small
<1> QED BY <1>2, <1>7 DEF z

(* A poll of a flag whose stamp ran ahead finds it due at once.            *)
LEMMA PollAhead ==
  ASSUME TimingInv, active, pc = NumBytes, NEW e \in Nat, NEW a \in Int, Elapsed(e, a),
         NEW d \in Int, Offset(d), millisec = (_count_ms + d) % TimeMod, a \notin {0, -1}
  PROVE  SecondsSince(last_trigger).millisec >= Duration /\ carried /\ ticked
<1>1. TimingTypeOK /\ last_trigger.millisec = (_count_ms - e + a) % TimeMod
      /\ last_trigger.microsec = 0 /\ ticked
  BY DEF TimingInv, Elapsed
<1>2. SecondsSince(last_trigger).millisec = (e + d - a) % TimeMod
  BY <1>1, SinceMillis
<1>3. PICK k \in 1 .. NumBytes - 1 : /\ a = Weight[k] - 1 /\ (_count_ms - e) % Weight[k] = 0
                                     /\ carried /\ Within(0)
  BY DEF Elapsed
<1>4. e <= ByteValues - 2 /\ (d # 0 => e >= 1)
  BY <1>1, <1>3, PollBounds
<1>5. /\ Weight[k] \in Nat /\ ByteValues <= Weight[k] /\ Duration + Weight[k] + ByteValues <= TimeMod
      /\ Duration \in Nat /\ ByteValues \in Nat \ {0} /\ TimeMod \in Nat \ {0}
  BY AheadBounds, Constants, TimeModPositive
<1>6. d \in {0, -1}
  <2> SUFFICES ASSUME d \notin {0, -1} PROVE FALSE
    OBVIOUS
  <2>1. PICK j \in 1 .. NumBytes - 1 : d = Weight[j] - 1 /\ _count_ms % Weight[j] = 0
    BY DEF Offset
  <2>2. Weight[j] \in Nat \ {0} /\ Weight[k] \in Nat \ {0}
    BY WeightPositive, Constants
  <2>3. _count_ms \in Int /\ _count_ms - e \in Int
    BY <1>1, Types
  <2>4. _count_ms % ByteValues = 0
    <3>1. \E c \in Nat \ {0} : Weight[j] = ByteValues * c
      BY AheadBounds
    <3>2. Weight[j] \in Int
      BY <2>2
    <3> QED BY <1>5, <2>1, <2>3, <3>1, <3>2, Reduce
  <2>5. (_count_ms - e) % ByteValues = 0
    <3>1. \E c \in Nat \ {0} : Weight[k] = ByteValues * c
      BY AheadBounds
    <3>2. Weight[k] \in Int
      BY <2>2
    <3> DEFINE y == _count_ms - e
    <3>3. y \in Int /\ y % Weight[k] = 0
      BY <1>3, <2>3
    <3> HIDE DEF y
    <3>4. y % ByteValues = 0
      BY <1>5, <3>1, <3>2, <3>3, Reduce
    <3> QED BY <3>4 DEF y
  <2>6. e = 0
    BY <1>4, <1>5, <2>3, <2>4, <2>5, Congruent
  <2> QED BY <1>4, <2>6
<1> DEFINE z == e + d - a
<1>7. z \in Int /\ -TimeMod <= z /\ z < 0 /\ z + TimeMod >= Duration
  BY <1>3, <1>4, <1>5, <1>6
<1> HIDE DEF z
<1>8. z % TimeMod = z + TimeMod
  BY <1>5, <1>7, Small
<1> QED BY <1>1, <1>2, <1>3, <1>7, <1>8 DEF z

(* What a poll knows: a flag that is not due is not older than its         *)
(* duration, one that is due is not younger, but for its last millisecond  *)
(* or a carry, and the difference is the age unless the readings were torn.*)
LEMMA Poll ==
  ASSUME TimingInv, active, pc = NumBytes
  PROVE  LET s == SecondsSince(last_trigger) IN
         /\ s.millisec < Duration =>
              /\ age <= Duration * Period
              /\ \E e \in Nat, a \in {0, -1} : Elapsed(e, a)
         /\ (s.millisec >= Duration /\ ~carried) => age >= (Duration - 1) * Period
         /\ ~ticked => s.millisec * Period + s.microsec \in {age, age + MicroMod}
<1> DEFINE s == SecondsSince(last_trigger)
           x == TCNT0
           u == last_trigger.microsec
<1>1. /\ TimingTypeOK /\ ReadingInv /\ ActiveInv
      /\ x \in Int /\ x >= 0 /\ x <= OCR0B
      /\ u \in Int /\ u >= 0 /\ u <= OCR0B /\ age \in Nat
  BY Types DEF TimingInv, ActiveInv
<1>2. PICK e \in Nat, a \in Int : Elapsed(e, a)
  BY <1>1 DEF ActiveInv
<1>3. PICK d \in Int : millisec = (_count_ms + d) % TimeMod /\ Offset(d)
  BY <1>1, ReturnedStamp
<1>4. CASE a \notin {0, -1}
  <2>1. s.millisec >= Duration /\ carried /\ ticked
    BY <1>2, <1>3, <1>4, PollAhead
  <2>2. s.millisec \in Int
    <3>1. s.millisec = (e + d - a) % TimeMod
      BY <1>1, <1>2, <1>3, SinceMillis DEF Elapsed
    <3>2. e + d - a \in Int
      OBVIOUS
    <3> QED BY <3>1, <3>2, TimeModPositive
  <2> QED BY <2>1, <2>2, Constants
<1>5. CASE a \in {0, -1}
  <2>1. s.millisec = e + d - a
    BY <1>2, <1>3, <1>5, PollPlain
  <2>2. /\ Period \in Nat /\ Period = OCR0B + 1 /\ OCR0B \in Nat /\ Duration \in Nat
        /\ ByteValues \in Nat /\ ByteValues >= 2
    BY Constants
  <2>3. d \in {0, -1} \/ (d >= 1 /\ carried)
    <3> SUFFICES ASSUME d \notin {0, -1} PROVE d >= 1 /\ carried
      OBVIOUS
    <3>1. PICK k \in 1 .. NumBytes - 1 : d = Weight[k] - 1 /\ carried
      BY <1>3 DEF Offset
    <3>2. Weight[k] \in Nat /\ ByteValues <= Weight[k]
      BY AheadBounds
    <3> QED BY <2>2, <3>1, <3>2
  <2>4. (d # 0 => x = 0 /\ ticked) /\ (a # 0 => u = 0 /\ ticked)
    BY <1>2, <1>3 DEF Offset, Elapsed
  <2>5. PICK D \in Int : D = Duration - 1
    BY <2>2
  <2>6. /\ Duration * Period \in Int
        /\ e <= Duration => age <= Duration * Period + x
        /\ e >= Duration => age >= Duration * Period - u
    <3>1. PICK C \in Int : C = Duration
      BY <2>2
    <3>2. /\ C * Period \in Int
          /\ e <= C => age <= C * Period + x
          /\ e >= C => age >= C * Period - u
      BY <1>1, <1>2, AgeBounds
    <3> QED BY <3>1, <3>2
  <2>7. /\ D * Period \in Int /\ Duration * Period = D * Period + Period
        /\ e <= D => age <= D * Period + x
        /\ e >= D => age >= D * Period - u
    <3>1. /\ D * Period \in Int /\ (D + 1) * Period = D * Period + Period
          /\ e <= D => age <= D * Period + x
          /\ e >= D => age >= D * Period - u
      BY <1>1, <1>2, <2>5, AgeBounds
    <3>2. D + 1 = Duration
      BY <2>2, <2>5
    <3> QED BY <3>1, <3>2
  <2> HIDE DEF s, x, u
  <2>8. ASSUME s.millisec < Duration PROVE age <= Duration * Period
    <3>1. e <= Duration /\ (e <= D \/ x = 0)
      BY <1>5, <2>1, <2>2, <2>3, <2>4, <2>5, <2>8
    <3> QED BY <1>1, <2>2, <2>6, <2>7, <3>1
  <2>9. ASSUME s.millisec >= Duration, ~carried PROVE age >= (Duration - 1) * Period
    <3>1. e >= D /\ (e >= Duration \/ u = 0)
      BY <1>5, <2>1, <2>2, <2>3, <2>4, <2>5, <2>9
    <3> QED BY <1>1, <2>2, <2>5, <2>6, <2>7, <3>1
  <2>10. ASSUME ~ticked PROVE s.millisec * Period + s.microsec \in {age, age + MicroMod}
    <3>1. s.millisec = e
      BY <2>1, <2>4, <2>10
    <3>2. MicroMod \in Nat \ {0} /\ MicroMod > OCR0B
      BY TimingAssumption
    <3> DEFINE z == x - u
    <3>3. z \in Int /\ -MicroMod <= z /\ z < MicroMod
      BY <1>1, <2>2, <3>2
    <3>4. s.microsec = z % MicroMod
      BY DEF s, x, u, SecondsSince, Returned
    <3>5. age = e * Period + x - u
      BY <1>2 DEF Elapsed, x, u
    <3>6. e * Period \in Int
      BY <2>2, Product
    <3>7. age = e * Period + z
      BY <1>1, <3>5, <3>6
    <3> HIDE DEF z
    <3>8. z % MicroMod = z \/ z % MicroMod = z + MicroMod
      BY <3>2, <3>3, Small
    <3> QED BY <3>1, <3>2, <3>3, <3>4, <3>6, <3>7, <3>8
  <2> QED BY <1>2, <1>5, <2>8, <2>9, <2>10 DEF s
<1> QED BY <1>4, <1>5

(* A poll finds the flag due, or young enough to be polled once more in    *)
(* time.                                                                   *)
LEMMA ExecuteStep ==
  ASSUME TimingInv, MSG_FLAG_Execute
  PROVE  TimingInv'
<1> DEFINE s == SecondsSince(last_trigger)
<1>1. TimingTypeOK /\ active /\ pc = NumBytes /\ pc' = Idle /\ delta' = s /\ spare' = LoopCounts
      /\ active' = ~(s.millisec >= Duration)
  BY DEF TimingInv, MSG_FLAG_Execute
<1>2. /\ s.millisec < Duration =>
           /\ age <= Duration * Period
           /\ \E e \in Nat, a \in {0, -1} : Elapsed(e, a)
      /\ (s.millisec >= Duration /\ ~carried) => age >= (Duration - 1) * Period
      /\ ~ticked => s.millisec * Period + s.microsec \in {age, age + MicroMod}
  BY <1>1, Poll
<1>3. s \in Stamp /\ s.millisec \in Int
  <2>1. TimeMod \in Nat \ {0} /\ MicroMod \in Nat \ {0}
    BY TimeModPositive, TimingAssumption
  <2>2. Returned.millisec - last_trigger.millisec \in Int /\ Returned.microsec - last_trigger.microsec \in Int
    BY <1>1, Types DEF Returned
  <2>3. s.millisec \in 0 .. TimeMod - 1 /\ s.microsec \in 0 .. MicroMod - 1
    BY <2>1, <2>2, Division DEF SecondsSince
  <2> QED BY <2>3 DEF SecondsSince, Stamp
<1> HIDE DEF s
<1>4. TimingTypeOK'
  <2>1. active' \in BOOLEAN
    BY <1>1, Zenon
  <2>2. spare' \in 0 .. LoopCounts + 1
    BY <1>1, Constants
  <2> QED BY <1>1, <1>3, <2>1, <2>2 DEF TimingTypeOK, MSG_FLAG_Execute
<1>5. ReadingInv'
  BY <1>1, Constants DEF ReadingInv
<1>6. ActiveInv'
  <2> SUFFICES ASSUME active' PROVE ActiveInv'
    BY DEF ActiveInv
  <2>1. s.millisec < Duration
    <3>1. ~(s.millisec >= Duration)
      BY <1>1, Zenon
    <3> QED BY <1>3, <3>1, Constants
  <2>2. PICK e \in Nat, a \in {0, -1} : Elapsed(e, a)
    BY <1>2, <2>1
  <2>3. a = 0 \/ a = -1
    BY <2>2
  <2>4. Elapsed(e, a)'
    BY <2>2, <2>3 DEF Elapsed, MSG_FLAG_Execute
  <2>5. Within(Duration * Period)'
    <3>1. Duration * Period \in Int /\ age \in Int /\ age' = age
      BY <1>1, Types, Constants, Product DEF MSG_FLAG_Execute
    <3> QED BY <1>1, <1>2, <2>1, <3>1, Constants DEF Within
  <2>6. last_trigger'.microsec <= OCR0B
    BY <1>1 DEF TimingInv, ActiveInv, MSG_FLAG_Execute
  <2> QED BY <2>4, <2>5, <2>6 DEF ActiveInv
<1>7. EarlyOnlyByCarry'
  BY <1>1, <1>2 DEF EarlyOnlyByCarry, MSG_FLAG_Execute
<1>8. DurationOrWrap'
  BY <1>1, <1>2 DEF DurationOrWrap, MSG_FLAG_Execute
<1> QED BY <1>4, <1>5, <1>6, <1>7, <1>8 DEF TimingInv

(* TimingInv is inductive: one lemma per action.                           *)
LEMMA TimingStep == TimingInv /\ [Next]_timingVars => TimingInv'
BY CountStep, TickStep, GetTimeStep, LoadByteStep, ArmStep, ExecuteStep, StutterStep DEF Next

(* TimingInv holds in every reachable state.                               *)
LEMMA TimingInductive == Spec => []TimingInv
BY InitStep, TimingStep, PTL DEF Spec

-----------------------------------------------------------------------------
(* The clock and its stamps stay in range: the counter and what GetTime    *)
(* puts together fit a uint32_t, the microseconds a uint16_t.              *)
THEOREM TimingTypeCorrect == Spec => []TimingTypeOK
<1>1. TimingInv => TimingTypeOK
  BY DEF TimingInv
<1> QED BY <1>1, TimingInductive, PTL

(* GetTime, torn by the interrupt, returns a counter that is right, one    *)
(* tick behind, or ahead by the carry out of its k lowest bytes.           *)
THEOREM TornReadsTheorem == Spec => []TornReadsRunAhead
<1>1. TimingInv => TornReadsRunAhead
  <2> SUFFICES ASSUME TimingInv, pc = NumBytes
               PROVE  (millisec - _count_ms) % TimeMod
                        \in {0, TimeMod - 1} \cup {Weight[k] - 1 : k \in 1 .. NumBytes - 1}
    BY DEF TornReadsRunAhead
  <2>1. TimingTypeOK /\ ReadingInv /\ _count_ms \in 0 .. TimeMod - 1 /\ TimeMod \in Nat \ {0}
    BY Types DEF TimingInv
  <2>2. PICK d \in Int : millisec = (_count_ms + d) % TimeMod /\ Offset(d)
    BY <2>1, ReturnedStamp
  <2> DEFINE n == _count_ms
             m == n + d
  <2>3. n \in Int /\ m \in Int /\ 0 <= n /\ n < TimeMod /\ m - n = d
    BY <2>1
  <2> HIDE DEF n, m
  <2>4. ((m % TimeMod) - (n % TimeMod)) % TimeMod = (m - n) % TimeMod
    BY <2>1, <2>3, Difference
  <2>5. n % TimeMod = n
    BY <2>1, <2>3, Small
  <2>6. (millisec - _count_ms) % TimeMod = d % TimeMod
    BY <2>2, <2>3, <2>4, <2>5 DEF n, m
  <2>7. CASE d \in {0, -1}
    <3>1. d = 0 => d % TimeMod = 0
      BY <2>1, Small
    <3>2. d = -1 => d % TimeMod = TimeMod - 1
      BY <2>1, Small
    <3> QED BY <2>6, <2>7, <3>1, <3>2
  <2>8. CASE d \notin {0, -1}
    <3>1. PICK k \in 1 .. NumBytes - 1 : d = Weight[k] - 1
      BY <2>2, <2>8 DEF Offset
    <3>2. 0 <= d /\ d < TimeMod
      BY <3>1, AheadBounds, Constants, TimeModPositive
    <3>3. d % TimeMod = d
      BY <2>1, <3>2, Small
    <3> QED BY <2>6, <3>1, <3>3
  <2> QED BY <2>7, <2>8
<1> QED BY <1>1, TimingInductive, PTL

(* MSG_FLAG_Execute finds a flag due by the first poll after its duration. *)
THEOREM NeverLateTheorem == Spec => []NeverLate
<1>1. TimingInv => NeverLate
  <2> SUFFICES ASSUME TimingInv, active PROVE age <= Duration * Period + LoopCounts + 1
    BY DEF NeverLate
  <2>1. Within(Duration * Period) /\ spare \in Nat /\ age \in Nat
    BY Types DEF TimingInv, ActiveInv
  <2>2. Duration * Period \in Int /\ LoopCounts \in Nat
    BY Constants, Product
  <2> QED BY <2>1, <2>2 DEF Within
<1> QED BY <1>1, TimingInductive, PTL

(* A flag executes early, by more than a millisecond, only after a carry   *)
(* has torn a reading.                                                     *)
THEOREM EarlyTheorem == Spec => []EarlyOnlyByCarry
<1>1. TimingInv => EarlyOnlyByCarry
  BY DEF TimingInv
<1> QED BY <1>1, TimingInductive, PTL

(* SecondsSince is right or too long by the range of the microseconds.     *)
THEOREM DurationTheorem == Spec => []DurationOrWrap
<1>1. TimingInv => DurationOrWrap
  BY DEF TimingInv
<1> QED BY <1>1, TimingInductive, PTL

-----------------------------------------------------------------------------
(* Encoder: arithmetic of its counter.                                     *)

(* Wrapping early or late makes no difference.                             *)
LEMMA WrapOnce ==
  ASSUME NEW a \in Int, NEW b \in Int, NEW M \in Nat \ {0}
  PROVE  ((a % M) + b) % M = (a + b) % M
<1> DEFINE q == a \div M
           p == ((a % M) + b) \div M
           s == ((a % M) + b) % M
<1>1. q \in Int /\ a % M \in 0 .. M - 1 /\ a = M * q + (a % M)
  BY Division
<1>2. p \in Int /\ s \in 0 .. M - 1 /\ (a % M) + b = M * p + s
  <2>1. (a % M) + b \in Int
    BY <1>1
  <2> QED BY <2>1, Division
<1> HIDE DEF q, p
<1>3. a + b = M * (q + p) + s
  <2> HIDE DEF s
  <2> QED BY <1>1, <1>2
<1>4. (a + b) % M = s
  <2> HIDE DEF s
  <2>1. PICK c \in Int, k \in Int : c = a + b /\ k = q + p
    BY <1>1, <1>2
  <2>2. c = M * k + s
    BY <1>3, <2>1
  <2>3. c % M = s
    BY <1>2, <2>2, Remainder
  <2> QED BY <2>1, <2>3
<1> QED BY <1>4

(* A counter whose modulus is a multiple of four keeps the phase.          *)
LEMMA WrapInPhase ==
  ASSUME NEW a \in Int, NEW M \in Nat \ {0}, M % 4 = 0
  PROVE  (a % M) % 4 = a % 4
<1>1. a = M * (a \div M) + (a % M)
  BY Division
<1>2. \E k \in Int : M = 4 * k
  BY Division
<1>3. PICK k \in Int : M = 4 * k
  BY <1>2
<1>4. a = 4 * (k * (a \div M)) + (a % M)
  BY <1>1, <1>3
<1>5. k * (a \div M) \in Int /\ a % M \in Int
  BY <1>3, Division
<1> QED BY <1>4, <1>5

(* The counter has at least one value.                                     *)
LEMMA Modulus == CountMod \in Nat \ {0} /\ Half \in Nat \ {0}
BY EncoderAssumption DEF CountMod

-----------------------------------------------------------------------------
(* The inductive invariant of Encoder.                                     *)

(* Counts_Left keeps interrupts masked from its first load to the last, so *)
(* that what it has loaded is still what the counter holds.                *)
CountsReadInv ==
  /\ masked <=> read_pc # "idle"
  /\ read_pc = "high" => loaded = counts % Half
  /\ read_pc = "restore" => loaded = counts

(* The three remembered levels are those of the edge counted last.         *)
Remembered ==
  last_A = ChannelA(seen) /\ last_B = ChannelB(seen) /\ last_XOR = PinXOR(seen)

(* Without delays the wheel is at most one edge ahead of the counter.      *)
OneEdge == \/ pos = seen
           \/ pending /\ pos \in {seen - 1, seen + 1}

EncoderInv ==
  /\ EncoderTypeOK
  /\ CountsReadInv
  /\ ~torn => Remembered /\ Error % 4 = 0
  /\ ~late => ~torn /\ OneEdge /\ Error = 0

-----------------------------------------------------------------------------
(* The interrupt.                                                          *)

(* An edge that is found changes the count by the way the wheel has gone,  *)
(* up to whole cycles; exactly so, if it has gone one edge.                *)
LEMMA CountedPhase ==
  ASSUME NEW p \in Int, Remembered, seen \in Int, last_XOR # PinXOR(p)
  PROVE  /\ Counted(ChannelA(p), ChannelB(p)) \in {-1, 1}
         /\ (Counted(ChannelA(p), ChannelB(p)) - (p - seen)) % 4 = 0
         /\ p \in {seen - 1, seen + 1} => Counted(ChannelA(p), ChannelB(p)) = p - seen
BY DEF Counted, Bit, Xor, Remembered, PinXOR, ChannelA, ChannelB

(* The second channel is computed from the two pins.                       *)
LEMMA ChannelFromPins == ASSUME NEW p \in Int PROVE Left_A(p, p) = ChannelA(p)
BY DEF Left_A, PinXOR, Xor, ChannelA, ChannelB

(* The interrupt finds the wheel at rest, with an edge to count.           *)
LEMMA SampleInv ==
  ASSUME EncoderInv, PCINT0_vect, last_XOR # PinXOR(pos)
  PROVE  EncoderInv'
<1> DEFINE k == Counted(ChannelA(pos), ChannelB(pos))
           at == [i \in 1 .. 8 |-> pos]
<1>1. /\ EncoderTypeOK /\ CountsReadInv
      /\ ~masked /\ read_pc = "idle"
      /\ pending' = FALSE
      /\ UNCHANGED <<pos, masked, read_pc, loaded, base, late, torn>>
  BY DEF PCINT0_vect, EncoderInv, CountsReadInv
<1>2. Sample(at)
  BY DEF PCINT0_vect
<1>3. /\ last_A' = ChannelA(pos) /\ last_B' = ChannelB(pos) /\ last_XOR' = PinXOR(pos)
      /\ seen' = pos
      /\ counts' = (counts + k) % CountMod
  BY <1>1, <1>2, ChannelFromPins DEF Sample, EncoderTypeOK
<1>4. k \in Int /\ counts + k \in Int
  BY <1>1 DEF Counted, Bit, EncoderTypeOK
<1>5. Remembered'
  BY <1>1, <1>3 DEF Remembered, ChannelA, ChannelB, PinXOR, Xor
<1>6. EncoderTypeOK'
  <2>1. counts' \in 0 .. CountMod - 1
    BY <1>3, <1>4, Modulus, Division
  <2>2. last_A' \in BOOLEAN /\ last_B' \in BOOLEAN /\ last_XOR' \in BOOLEAN
    BY <1>3 DEF ChannelA, ChannelB, PinXOR, Xor
  <2> QED BY <1>1, <1>3, <2>1, <2>2 DEF EncoderTypeOK
<1>7. CountsReadInv'
  BY <1>1 DEF CountsReadInv
<1> HIDE DEF k
<1>8. Error' = (counts - (seen - base) + (k - (pos - seen))) % CountMod
  <2>1. Error' = (((counts + k) % CountMod) - (pos - base)) % CountMod
    BY <1>1, <1>3 DEF Error
  <2>2. pos \in Int /\ base \in Int /\ seen \in Int /\ counts \in Int
    BY <1>1 DEF EncoderTypeOK
  <2>3. Error' = (((counts + k) % CountMod) + (base - pos)) % CountMod
    BY <1>4, <2>1, <2>2, Modulus, Division
  <2>4. Error' = (counts + k + (base - pos)) % CountMod
    <3> DEFINE a == counts + k
               b == base - pos
    <3>1. a \in Int /\ b \in Int
      BY <1>4, <2>2
    <3> HIDE DEF a, b
    <3>2. ((a % CountMod) + b) % CountMod = (a + b) % CountMod
      BY <3>1, Modulus, WrapOnce
    <3> QED BY <2>3, <3>2 DEF a, b
  <2>5. counts + k + (base - pos) = counts - (seen - base) + (k - (pos - seen))
    BY <1>4, <2>2
  <2> QED BY <2>4, <2>5
<1>9. ASSUME ~torn PROVE Error' % 4 = 0
  <2>1. (k - (pos - seen)) % 4 = 0
    BY <1>1, <1>9, CountedPhase DEF EncoderInv, EncoderTypeOK, k
  <2> DEFINE e == counts - (seen - base)
             j == k - (pos - seen)
  <2>2. e \in Int /\ j \in Int
    BY <1>1, <1>4 DEF EncoderTypeOK
  <2>3. e % 4 = 0
    <3>1. (e % CountMod) % 4 = 0
      BY <1>9 DEF EncoderInv, Error
    <3> HIDE DEF e
    <3> QED BY <2>2, <3>1, Modulus, EncoderAssumption, WrapInPhase
  <2>4. (e + j) % 4 = 0
    <3>1. j % 4 = 0
      BY <2>1
    <3> HIDE DEF e, j
    <3> QED BY <2>2, <2>3, <3>1
  <2>5. ((e + j) % CountMod) % 4 = (e + j) % 4
    <3> HIDE DEF e, j
    <3>1. e + j \in Int
      BY <2>2
    <3> QED BY <3>1, Modulus, EncoderAssumption, WrapInPhase
  <2> QED BY <1>8, <2>4, <2>5
<1>10. ASSUME ~late PROVE Error' = 0
  <2>1. ~torn /\ Remembered /\ OneEdge /\ Error = 0
    BY <1>10 DEF EncoderInv
  <2>2. pos \in {seen - 1, seen + 1}
    BY <1>1, <2>1 DEF OneEdge, Remembered
  <2>3. k = pos - seen
    BY <1>1, <2>1, <2>2, CountedPhase DEF EncoderTypeOK, k
  <2>4. counts - (seen - base) + (k - (pos - seen)) = counts - (seen - base)
    BY <1>1, <2>3 DEF EncoderTypeOK
  <2> QED BY <1>8, <2>1, <2>4 DEF Error
<1>11. OneEdge'
  BY <1>1, <1>3 DEF OneEdge
<1> QED BY <1>1, <1>5, <1>6, <1>7, <1>9, <1>10, <1>11 DEF EncoderInv

(* The interrupt finds nothing to count: the wheel is back where it was,   *)
(* or has gone on by an even number of edges.                              *)
LEMMA NothingInv ==
  ASSUME EncoderInv, PCINT0_vect, last_XOR = PinXOR(pos)
  PROVE  EncoderInv'
<1>1. /\ pending' = FALSE
      /\ UNCHANGED <<counts, last_A, last_B, last_XOR, seen, pos, masked, read_pc, loaded, base, late, torn>>
  BY DEF PCINT0_vect, lastVars
<1>2. ASSUME ~late PROVE pos = seen
  BY <1>2 DEF EncoderInv, EncoderTypeOK, OneEdge, Remembered, PinXOR, Xor, ChannelA, ChannelB
<1> QED BY <1>1, <1>2 DEF EncoderInv, EncoderTypeOK, CountsReadInv, Remembered, OneEdge, Error,
                          ChannelA, ChannelB, PinXOR, Xor

(* An edge falls into the interrupt: only the types remain.                *)
LEMMA TornInv ==
  ASSUME EncoderInv, NEW d \in {-1, 1}, NEW i \in 2 .. 8, PCINT0_vect_Torn(d, i)
  PROVE  EncoderInv'
<1> DEFINE at == [j \in 1 .. 8 |-> IF j < i THEN pos ELSE pos + d]
           k == Counted(Left_A(at[2], at[3]), ChannelB(at[4]))
<1>1. /\ pos' = pos + d /\ torn' = TRUE /\ late' = TRUE
      /\ UNCHANGED <<pending, masked, read_pc, loaded, base>>
      /\ ~masked
  BY DEF PCINT0_vect_Torn
<1>2. /\ counts' = (counts + k) % CountMod
      /\ seen' = pos
      /\ last_A' \in BOOLEAN /\ last_B' \in BOOLEAN /\ last_XOR' \in BOOLEAN
  BY DEF PCINT0_vect_Torn, Sample, Left_A, Xor, ChannelB, PinXOR
<1>3. counts + k \in Int
  BY DEF EncoderInv, EncoderTypeOK, Counted, Bit
<1> HIDE DEF k
<1>4. counts' \in 0 .. CountMod - 1
  BY <1>2, <1>3, Modulus, Division
<1>5. EncoderTypeOK'
  BY <1>1, <1>2, <1>4 DEF EncoderInv, EncoderTypeOK
<1>6. CountsReadInv'
  BY <1>1 DEF EncoderInv, CountsReadInv, EncoderTypeOK
<1> QED BY <1>1, <1>5, <1>6 DEF EncoderInv

-----------------------------------------------------------------------------
(* The wheel and the program.                                              *)

(* An edge of the wheel: an interrupt that is still pending has become     *)
(* late.                                                                   *)
LEMMA EdgeInv ==
  ASSUME EncoderInv, NEW d \in {-1, 1}, Edge(d)
  PROVE  EncoderInv'
<1>1. /\ pos' = pos + d /\ pending' = TRUE /\ late' = (late \/ pending)
      /\ UNCHANGED <<masked, last_A, last_B, last_XOR, counts, read_pc, loaded, seen, base, torn>>
  BY DEF Edge, lastVars
<1>2. EncoderTypeOK'
  BY <1>1 DEF EncoderInv, EncoderTypeOK
<1>3. CountsReadInv' /\ (~torn' => Remembered' /\ Error' % 4 = 0)
  BY <1>1 DEF EncoderInv, CountsReadInv, Remembered, Error, ChannelA, ChannelB, PinXOR, Xor
<1>4. ASSUME ~late' PROVE ~torn' /\ OneEdge' /\ Error' = 0
  BY <1>1, <1>4 DEF EncoderInv, EncoderTypeOK, OneEdge, Error
<1> QED BY <1>2, <1>3, <1>4 DEF EncoderInv

(* The two halves make the whole.                                          *)
LEMMA Halves ==
  ASSUME NEW n \in 0 .. CountMod - 1
  PROVE  /\ n % Half \in 0 .. CountMod - 1
         /\ (n % Half) + Half * (n \div Half) = n
<1>1. n \in Int /\ Half \in Nat \ {0} /\ CountMod \in Nat \ {0}
  BY Modulus
<1>2. n = Half * (n \div Half) + (n % Half) /\ n % Half \in 0 .. Half - 1 /\ n \div Half \in Int
  BY <1>1, Division
<1>3. Half <= CountMod
  BY <1>1 DEF CountMod
<1> QED BY <1>1, <1>2, <1>3

(* The steps of Counts_Left change no count and mask the interrupts        *)
(* meanwhile.                                                              *)
LEMMA CountsLeftInv ==
  ASSUME EncoderInv, Counts_Left \/ LoadLow \/ LoadHigh \/ RestoreSREG
  PROVE  EncoderInv'
<1>1. UNCHANGED <<pos, pending, seen, base, late, torn, last_A, last_B, last_XOR, counts>>
  BY DEF Counts_Left, LoadLow, LoadHigh, RestoreSREG, wheelVars, lastVars
<1>2. /\ ~torn' => Remembered' /\ Error' % 4 = 0
      /\ ~late' => ~torn' /\ OneEdge' /\ Error' = 0
  BY <1>1 DEF EncoderInv, Remembered, OneEdge, Error, ChannelA, ChannelB, PinXOR, Xor
<1>3. EncoderTypeOK' /\ CountsReadInv'
  <2> USE <1>1 DEF EncoderInv, EncoderTypeOK, CountsReadInv
  <2>1. CASE Counts_Left
    BY <2>1 DEF Counts_Left
  <2>2. CASE LoadLow
    BY <2>2, Halves DEF LoadLow
  <2>3. CASE LoadHigh
    BY <2>3, Halves DEF LoadHigh
  <2>4. CASE RestoreSREG
    BY <2>4 DEF RestoreSREG
  <2> QED BY <2>1, <2>2, <2>3, <2>4
<1> QED BY <1>2, <1>3 DEF EncoderInv

(* Zeroing between two edges: the next one is counted from the level of    *)
(* the last one, which Zero_Encoders leaves alone.                         *)
LEMMA ZeroInv ==
  ASSUME EncoderInv, Zero_Encoders
  PROVE  EncoderInv'
<1>1. /\ read_pc = "idle" /\ counts' = 0 /\ base' = seen
      /\ UNCHANGED <<pos, pending, seen, late, torn, masked, last_A, last_B, last_XOR, read_pc, loaded>>
  BY DEF Zero_Encoders, lastVars
<1>2. Error' = 0
  <2>1. 0 - (seen - seen) = 0 /\ 0 % CountMod = 0
    BY Modulus DEF EncoderInv, EncoderTypeOK
  <2> QED BY <1>1, <2>1 DEF Error
<1>3. EncoderTypeOK' /\ CountsReadInv'
  BY <1>1, Modulus DEF EncoderInv, EncoderTypeOK, CountsReadInv
<1> QED BY <1>1, <1>2, <1>3 DEF EncoderInv, Remembered, OneEdge, ChannelA, ChannelB, PinXOR, Xor

-----------------------------------------------------------------------------
(* The invariant holds at first and after every step.                      *)

(* EncoderInv holds after Encoders_Init.                                   *)
LEMMA EncoderInvInit == EncoderInit => EncoderInv
<1> SUFFICES ASSUME EncoderInit PROVE EncoderInv
  OBVIOUS
<1>1. ChannelA(0) = FALSE /\ ChannelB(0) = FALSE /\ PinXOR(0) = FALSE
  BY DEF ChannelA, ChannelB, PinXOR, Xor
<1>2. last_A = FALSE /\ last_B = FALSE /\ last_XOR = FALSE
  BY <1>1 DEF EncoderInit, Xor
<1>3. Remembered
  BY <1>1, <1>2 DEF EncoderInit, Remembered
<1>4. EncoderTypeOK
  <2>1. 0 \in 0 .. CountMod - 1
    BY Modulus
  <2>2. /\ pos = 0 /\ seen = 0 /\ base = 0 /\ counts = 0 /\ loaded = 0 /\ read_pc = "idle"
        /\ pending = FALSE /\ masked = FALSE /\ late = FALSE /\ torn = FALSE
    BY DEF EncoderInit
  <2>3. pos \in Int /\ seen \in Int /\ base \in Int
    BY <2>2
  <2> QED BY <1>2, <2>1, <2>2, <2>3, Zenon DEF EncoderTypeOK
<1>5. CountsReadInv /\ OneEdge
  BY DEF EncoderInit, CountsReadInv, OneEdge
<1>6. Error = 0
  BY Modulus DEF EncoderInit, Error
<1> QED BY <1>3, <1>4, <1>5, <1>6 DEF EncoderInv, EncoderInit

(* EncoderInv is inductive: one lemma per action.                          *)
LEMMA EncoderStep == EncoderInv /\ [EncoderNext]_encoderVars => EncoderInv'
<1> SUFFICES ASSUME EncoderInv, [EncoderNext]_encoderVars PROVE EncoderInv'
  OBVIOUS
<1>1. CASE UNCHANGED encoderVars
  BY <1>1 DEF encoderVars, EncoderInv, EncoderTypeOK, CountsReadInv, Remembered, OneEdge, Error,
              ChannelA, ChannelB, PinXOR, Xor
<1> QED BY <1>1, EdgeInv, SampleInv, NothingInv, TornInv, CountsLeftInv, ZeroInv, Zenon DEF EncoderNext

(* EncoderInv holds in every reachable state.                              *)
LEMMA EncoderInvHolds == EncoderSpec => []EncoderInv
BY EncoderInvInit, EncoderStep, PTL DEF EncoderSpec

-----------------------------------------------------------------------------
(* The counter, the remembered levels and what Counts_Left has loaded are  *)
(* of their types.                                                         *)
THEOREM EncoderTypeCorrect == EncoderSpec => []EncoderTypeOK
<1>1. EncoderInv => EncoderTypeOK
  BY DEF EncoderInv
<1> QED BY <1>1, EncoderInvHolds, PTL

(* When the interrupt keeps up with the edges the counter is exact,        *)
(* through reversals, zeroing and wrapping, for every width of it.         *)
THEOREM CountsExactTheorem == EncoderSpec => []CountsExact
<1>1. EncoderInv => CountsExact
  BY DEF EncoderInv, CountsExact, OneEdge
<1> QED BY <1>1, EncoderInvHolds, PTL

(* An interrupt that comes late loses whole cycles only: the error is      *)
(* always a multiple of four edges.                                        *)
THEOREM SlipsByCyclesTheorem == EncoderSpec => []SlipsByCycles
<1>1. EncoderInv => SlipsByCycles
  BY DEF EncoderInv, SlipsByCycles
<1> QED BY <1>1, EncoderInvHolds, PTL

(* Counts_Left never returns two halves of two values.                     *)
THEOREM ReadsWholeTheorem == EncoderSpec => []ReadsWhole
<1>1. EncoderInv => ReadsWhole
  BY DEF EncoderInv, CountsReadInv, ReadsWhole
<1> QED BY <1>1, EncoderInvHolds, PTL
=============================================================================
