------------------------------- MODULE Timing -------------------------------
(***************************************************************************)
(* Timing.c: the millisecond counter, which the interrupt of timer 0       *)
(* advances, and GetTime, which reads it without masking that interrupt.   *)
(*                                                                         *)
(* The counter is a uint32_t on an 8-bit machine: avr-gcc loads it byte by *)
(* byte, lowest first, and then the hardware count TCNT0, and the          *)
(* interrupt may fall between any two loads.  Around the clock stands its  *)
(* use in the program: a flag takes last_trigger_time from GetTime and     *)
(* MSG_FLAG_Execute polls it once per iteration of the loop.               *)
(*                                                                         *)
(* Time is counted in counts of TCNT0 (4 microseconds); microsec is kept   *)
(* in the same unit.                                                       *)
(***************************************************************************)
EXTENDS Integers

CONSTANTS ByteValues,   \* values of a byte (256 in the code)
          NumBytes,     \* bytes of _count_ms (4)
          Weight,       \* the place values of its bytes (1, 256, ... and 2^32)
          OCR0B,        \* the compare value (249)
          MicroMod,     \* values of microsec, a uint16_t (65536 / 4 counts)
          LoopCounts,   \* most counts between two polls
          Duration      \* .duration of the flag, in milliseconds

Period == OCR0B + 1     \* counts in a millisecond
TimeMod == Weight[NumBytes]

ASSUME WeightAssumption ==
  /\ ByteValues \in Nat /\ NumBytes \in Nat \ {0}
  /\ Weight \in [0 .. NumBytes -> Nat] /\ Weight[0] = 1
  /\ \A i \in 1 .. NumBytes : Weight[i] = ByteValues * Weight[i - 1]

(* An iteration is shorter than 255 ms, and a duration than 49 days: what  *)
(* is left of 2^32 ms when a stamp runs ahead by its highest byte.         *)
ASSUME TimingAssumption ==
  /\ OCR0B \in Nat \ {0}
  /\ MicroMod \in Nat /\ MicroMod > OCR0B
  /\ LoopCounts \in Nat /\ LoopCounts + 1 < (ByteValues - 1) * Period
  /\ Duration \in Nat /\ Duration >= 2
  /\ Duration + Weight[NumBytes - 1] + ByteValues <= TimeMod

VARIABLES _count_ms, TCNT0,
          pc,             \* the part of the clock GetTime loads next, or Idle
          millisec,       \* what GetTime has put together of .millisec
          active,         \* .active of the flag
          last_trigger,   \* .last_trigger_time of the flag
          delta,          \* what SecondsSince returned last, or NoDelta
          spare,          \* counts that may pass before the next step
          carried,        \* history: a reading was torn by a carry
          ticked,         \* history: the interrupt fell into a reading
          age             \* history: counts since last_trigger was taken

timingVars == <<_count_ms, TCNT0, pc, millisec, active, last_trigger, delta,
                spare, carried, ticked, age>>

Loads == 0 .. NumBytes          \* the bytes of the counter, then TCNT0
Idle == -1
Stamp == [millisec : 0 .. TimeMod - 1, microsec : 0 .. MicroMod - 1]
NoDelta == [millisec |-> 0, microsec |-> 0]

(* SetupTimer0; the flag is not active at first.                           *)
Init ==
  /\ _count_ms = 0 /\ TCNT0 = 0
  /\ pc = Idle /\ millisec = 0
  /\ active = FALSE /\ last_trigger = NoDelta /\ delta = NoDelta
  /\ spare = LoopCounts
  /\ carried = FALSE /\ ticked = FALSE /\ age = 0

-----------------------------------------------------------------------------
(* The hardware counts; on the count after OCR0B the interrupt takes over. *)

(* Time that may pass here: a poll comes within LoopCounts, and the loads  *)
(* of one GetTime take less than one count.                                *)
TimePasses ==
  /\ active \/ pc # Idle => spare > 0
  /\ spare' = IF active \/ pc # Idle THEN spare - 1 ELSE spare
  /\ age' = IF active THEN age + 1 ELSE age

Count ==
  /\ TCNT0 < OCR0B
  /\ TCNT0' = TCNT0 + 1
  /\ TimePasses
  /\ UNCHANGED <<_count_ms, pc, millisec, active, last_trigger, delta, carried, ticked>>

(* The increment carries out of the n lowest bytes.                        *)
CarriesOutOf(n) == (_count_ms + 1) % Weight[n] = 0

TIMER0_COMPB_vect ==
  /\ TCNT0 = OCR0B
  /\ _count_ms' = (_count_ms + 1) % TimeMod
  /\ TCNT0' = 0
  /\ TimePasses
  /\ ticked' = (ticked \/ pc # Idle)
  /\ carried' = (carried \/ (pc \in 1 .. NumBytes - 1 /\ CarriesOutOf(pc)))
  /\ UNCHANGED <<pc, millisec, active, last_trigger, delta>>

-----------------------------------------------------------------------------
(* GetTime.                                                                *)

ByteOf(n, i) == (n \div Weight[i]) % ByteValues

(* The program calls GetTime: to set last_trigger_time of the flag it      *)
(* raises, or to poll the active flag.                                     *)
GetTime ==
  /\ pc = Idle /\ pc' = 0
  /\ millisec' = 0 /\ spare' = 1
  /\ carried' = (active /\ carried) /\ ticked' = (active /\ ticked)
  /\ UNCHANGED <<_count_ms, TCNT0, active, last_trigger, delta, age>>

Mut_LoadByte ==
  /\ pc \in 0 .. NumBytes - 1 /\ pc' = pc + 1
  /\ LET i == NumBytes - 1 - pc IN millisec' = millisec + ByteOf(_count_ms, i) * Weight[i]
  /\ UNCHANGED <<_count_ms, TCNT0, active, last_trigger, delta, spare, carried, ticked, age>>
LoadByte ==
  /\ pc \in 0 .. NumBytes - 1 /\ pc' = pc + 1
  /\ millisec' = millisec + ByteOf(_count_ms, pc) * Weight[pc]
  /\ UNCHANGED <<_count_ms, TCNT0, active, last_trigger, delta, spare, carried, ticked, age>>

(* The last load makes the stamp GetTime returns.                          *)
Returned == [millisec |-> millisec, microsec |-> TCNT0]

Arm ==
  /\ pc = NumBytes /\ pc' = Idle /\ ~active
  /\ last_trigger' = Returned
  /\ active' = TRUE
  /\ delta' = NoDelta /\ age' = 0 /\ spare' = LoopCounts
  /\ UNCHANGED <<_count_ms, TCNT0, millisec, carried, ticked>>

(* Each field is an unsigned difference of its own.                        *)
Mut_SecondsSince(t) ==
  [millisec |-> (t.millisec - Returned.millisec) % TimeMod,
   microsec |-> (t.microsec - Returned.microsec) % MicroMod]
Mut2_SecondsSince(t) ==
  [millisec |-> (Returned.millisec - t.millisec) % TimeMod,
   microsec |-> IF Returned.microsec < t.microsec THEN 0 ELSE Returned.microsec - t.microsec]
SecondsSince(t) ==
  [millisec |-> (Returned.millisec - t.millisec) % TimeMod,
   microsec |-> (Returned.microsec - t.microsec) % MicroMod]

(* MSG_FLAG_Execute on the active flag, whose handler clears it.           *)
Mut_MSG_FLAG_Execute ==
  /\ pc = NumBytes /\ pc' = Idle /\ active
  /\ delta' = SecondsSince(last_trigger)
  /\ active' = ~(delta'.millisec > Duration)
  /\ spare' = LoopCounts
  /\ UNCHANGED <<_count_ms, TCNT0, millisec, last_trigger, carried, ticked, age>>
MSG_FLAG_Execute ==
  /\ pc = NumBytes /\ pc' = Idle /\ active
  /\ delta' = SecondsSince(last_trigger)
  /\ active' = ~(delta'.millisec >= Duration)
  /\ spare' = LoopCounts
  /\ UNCHANGED <<_count_ms, TCNT0, millisec, last_trigger, carried, ticked, age>>

Next == Count \/ TIMER0_COMPB_vect \/ GetTime \/ LoadByte \/ Arm \/ MSG_FLAG_Execute

Spec == Init /\ [][Next]_timingVars

-----------------------------------------------------------------------------
(* Properties.                                                             *)

TimingTypeOK ==
  /\ _count_ms \in 0 .. TimeMod - 1 /\ TCNT0 \in 0 .. OCR0B
  /\ pc \in Loads \cup {Idle} /\ millisec \in 0 .. TimeMod - 1
  /\ active \in BOOLEAN /\ last_trigger \in Stamp /\ delta \in Stamp
  /\ spare \in 0 .. LoopCounts + 1 /\ age \in Nat
  /\ carried \in BOOLEAN /\ ticked \in BOOLEAN

(* How far a stamp can be off: because the lowest byte is loaded first, a  *)
(* torn reading of GetTime is never behind the counter by more than the    *)
(* tick that tore it, and ahead of it only by 255, 65535 or 16777215 ms.   *)
TornReadsRunAhead ==
  pc = NumBytes =>
    (millisec - _count_ms) % TimeMod
      \in {0, TimeMod - 1} \cup {Weight[k] - 1 : k \in 1 .. NumBytes - 1}

(* MSG_FLAG_Execute is never late: an active flag is found due by the      *)
(* first poll after its duration, whichever readings were torn; a stamp    *)
(* that runs ahead makes the unsigned difference wrap, and the flag due.   *)
NeverLate == active => age <= Duration * Period + LoopCounts + 1

(* A flag executes before "its time" (the comment of MSG_FLAG_Execute), by *)
(* more than the millisecond its stamps are good for, only when a carry    *)
(* has torn one of them.                                                   *)
EarlyOnlyByCarry ==
  (pc = Idle /\ ~active /\ delta # NoDelta /\ ~carried) => age >= (Duration - 1) * Period

(* "The time since that time": SecondsSince does not borrow, so a duration *)
(* is right or, when the microseconds have wrapped, too long by 65.536 ms, *)
(* and nothing else, unless the interrupt fell into a reading.             *)
DurationOrWrap ==
  (pc = Idle /\ delta # NoDelta /\ ~ticked /\ (active => spare = LoopCounts)) =>
    delta.millisec * Period + delta.microsec \in {age, age + MicroMod}
=============================================================================
