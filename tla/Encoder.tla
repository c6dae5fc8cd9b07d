------------------------------ MODULE Encoder -------------------------------
(***************************************************************************)
(* Encoder.c for one wheel (PCINT0_vect and INT6_vect are the same text):  *)
(* the quadrature interrupt, Counts_Left and Zero_Encoders.                *)
(*                                                                         *)
(* The board wires B and A xor B to pins; every edge of A or B toggles the *)
(* second and requests the interrupt.  Other interrupts and the masked     *)
(* sections of the program delay it, so that the wheel may have moved on   *)
(* when it runs, and may move once more while it reads the pins.           *)
(***************************************************************************)
EXTENDS Integers

CONSTANTS Half,       \* values of one half of the counter (2^16 in the code)
          MaxTurn     \* bound: how far the wheel turns from where it began

CountMod == Half * Half

(* The counter's modulus is a multiple of the four edges of a cycle.       *)
ASSUME EncoderAssumption ==
  /\ Half \in Nat /\ MaxTurn \in Nat
  /\ CountMod \in Nat \ {0} /\ CountMod % 4 = 0

VARIABLES pos,          \* the wheel, in edges
          pending,      \* the interrupt is requested
          masked,       \* SREG has the global interrupt bit cleared
          last_A, last_B, last_XOR,
          counts,       \* _left_counts, a two's complement number
          read_pc,           \* where Counts_Left is
          loaded,       \* what it has loaded of the counter
          seen,         \* history: where the wheel was at the last count
          base,         \* history: and where it was when the counter was zeroed
          late,         \* history: an edge came before the last one was counted
          torn          \* history: an edge fell into a running interrupt

wheelVars == <<pos, pending, seen, base, late, torn>>
lastVars == <<last_A, last_B, last_XOR>>
encoderVars == <<pos, pending, masked, last_A, last_B, last_XOR, counts, read_pc, loaded,
                 seen, base, late, torn>>

Xor(a, b) == a # b
Bit(a) == IF a THEN 1 ELSE 0

(* The channels at an edge count: A leads B when the wheel turns forwards. *)
ChannelA(p) == p % 4 \in {1, 2}
ChannelB(p) == p % 4 \in {2, 3}
PinXOR(p) == Xor(ChannelA(p), ChannelB(p))

(* Encoders_Init.                                                          *)
EncoderInit ==
  /\ pos = 0 /\ pending = FALSE /\ masked = FALSE
  /\ last_B = ChannelB(0) /\ last_XOR = PinXOR(0) /\ last_A = Xor(last_B, last_XOR)
  /\ counts = 0
  /\ read_pc = "idle" /\ loaded = 0
  /\ seen = 0 /\ base = 0 /\ late = FALSE /\ torn = FALSE

-----------------------------------------------------------------------------
(* The wheel.                                                              *)

Edge(d) ==
  /\ pos + d \in -MaxTurn .. MaxTurn
  /\ pos' = pos + d
  /\ pending' = TRUE
  /\ late' = (late \/ pending)
  /\ UNCHANGED <<masked, lastVars, counts, read_pc, loaded, seen, base, torn>>

-----------------------------------------------------------------------------
(* The interrupt.                                                          *)

(* Left_XOR, Left_B and Left_A, which reads both pins, when the wheel is   *)
(* at p for the first reading and at q for the second.                     *)
Left_A(p, q) == Xor(PinXOR(p), ChannelB(q))

Mut_Counted(a, b) == Bit(Xor(last_B, a)) + Bit(Xor(last_A, b))
Counted(a, b) == Bit(Xor(last_B, a)) - Bit(Xor(last_A, b))

(* The pins are read eight times; at(i) is where the wheel is for the i-th *)
(* reading, the first of which decides whether there is an edge to count.  *)
Sample(at) ==
  /\ counts' = (counts + Counted(Left_A(at[2], at[3]), ChannelB(at[4]))) % CountMod
  /\ last_A' = Left_A(at[5], at[6])
  /\ last_B' = ChannelB(at[7])
  /\ last_XOR' = PinXOR(at[8])
  /\ seen' = pos

(* The interrupt finds the wheel at rest.                                  *)
PCINT0_vect ==
  /\ pending /\ ~masked
  /\ pending' = FALSE
  /\ \/ last_XOR # PinXOR(pos) /\ Sample([i \in 1 .. 8 |-> pos])
     \/ last_XOR = PinXOR(pos) /\ UNCHANGED <<counts, lastVars, seen>>
  /\ UNCHANGED <<pos, masked, read_pc, loaded, base, late, torn>>

(* The wheel passes an edge before the i-th reading, which requests the    *)
(* interrupt again.                                                        *)
PCINT0_vect_Torn(d, i) ==
  /\ pending /\ ~masked
  /\ last_XOR # PinXOR(pos)
  /\ pos + d \in -MaxTurn .. MaxTurn
  /\ pos' = pos + d
  /\ Sample([j \in 1 .. 8 |-> IF j < i THEN pos ELSE pos + d])
  /\ torn' = TRUE /\ late' = TRUE
  /\ UNCHANGED <<pending, masked, read_pc, loaded, base>>

-----------------------------------------------------------------------------
(* The program.                                                            *)

(* Counts_Left masks interrupts, loads the counter and restores SREG.      *)
Mut_Counts_Left ==
  /\ read_pc = "idle" /\ read_pc' = "low"
  /\ UNCHANGED <<wheelVars, lastVars, counts, loaded, masked>>
Counts_Left ==
  /\ read_pc = "idle" /\ read_pc' = "low"
  /\ masked' = TRUE
  /\ UNCHANGED <<wheelVars, lastVars, counts, loaded>>

LoadLow ==
  /\ read_pc = "low" /\ read_pc' = "high"
  /\ loaded' = counts % Half
  /\ UNCHANGED <<wheelVars, masked, lastVars, counts>>

LoadHigh ==
  /\ read_pc = "high" /\ read_pc' = "restore"
  /\ loaded' = loaded + Half * (counts \div Half)
  /\ UNCHANGED <<wheelVars, masked, lastVars, counts>>

RestoreSREG ==
  /\ read_pc = "restore" /\ read_pc' = "idle"
  /\ masked' = FALSE
  /\ UNCHANGED <<wheelVars, lastVars, counts, loaded>>

(* Nothing but an edge can happen while interrupts are masked here.        *)
Mut_Zero_Encoders ==
  /\ read_pc = "idle"
  /\ counts' = 0 /\ base' = seen
  /\ last_A' = FALSE /\ last_B' = FALSE /\ last_XOR' = FALSE
  /\ UNCHANGED <<pos, pending, seen, late, torn, masked, read_pc, loaded>>
Zero_Encoders ==
  /\ read_pc = "idle"
  /\ counts' = 0 /\ base' = seen
  /\ UNCHANGED <<pos, pending, seen, late, torn, masked, lastVars, read_pc, loaded>>

EncoderNext == \/ \E d \in {-1, 1} : Edge(d)
        \/ PCINT0_vect
        \/ \E d \in {-1, 1}, i \in 2 .. 8 : PCINT0_vect_Torn(d, i)
        \/ Counts_Left \/ LoadLow \/ LoadHigh \/ RestoreSREG \/ Zero_Encoders

EncoderSpec == EncoderInit /\ [][EncoderNext]_encoderVars

-----------------------------------------------------------------------------
(* Properties.                                                             *)

EncoderTypeOK ==
  /\ pos \in Int /\ seen \in Int /\ base \in Int
  /\ counts \in 0 .. CountMod - 1 /\ loaded \in 0 .. CountMod - 1
  /\ last_A \in BOOLEAN /\ last_B \in BOOLEAN /\ last_XOR \in BOOLEAN
  /\ pending \in BOOLEAN /\ masked \in BOOLEAN /\ late \in BOOLEAN /\ torn \in BOOLEAN
  /\ read_pc \in {"idle", "low", "high", "restore"}

(* The error of the counter: counts that the wheel did not make.           *)
Error == (counts - (seen - base)) % CountMod

(* When every edge is counted before the next one, the counter is exact,   *)
(* through reversals, zeroing at any moment and delays of the interrupt.   *)
CountsExact == ~late => Error = 0 /\ (~pending => seen = pos)

(* An interrupt that comes late, however late and however often, costs     *)
(* whole cycles of four edges: the counter stays in phase with the wheel   *)
(* and never drifts by a fraction of a cycle.                              *)
SlipsByCycles == ~torn => Error % 4 = 0

(* Counts_Left returns a value the counter had, not two halves of two.     *)
ReadsWhole == read_pc = "restore" => loaded = counts
=============================================================================
