SPECIFICATION EncoderSpec
CONSTANTS
  Half = 4
  MaxTurn = 4
INVARIANTS CountsExact SlipsByCycles ReadsWhole
