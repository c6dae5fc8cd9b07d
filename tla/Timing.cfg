SPECIFICATION Spec
CONSTANTS
  ByteValues = 3
  NumBytes = 3
  Weight <- MCWeight
  OCR0B = 2
  MicroMod = 7
  LoopCounts = 4
  Duration = 3
INVARIANTS TornReadsRunAhead NeverLate EarlyOnlyByCarry DurationOrWrap
