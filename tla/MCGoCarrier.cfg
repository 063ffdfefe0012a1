SPECIFICATION AttendedSpec
CONSTANTS
  Asks = {a1, a2}
  MaxLines = 2
  MaxRogue = 1
  Room = 1
  NoLine = NoLine
  NoAsk = NoAsk
  NoFrame = NoFrame
  Shut = Shut
  Forged = Forged
INVARIANTS OneHandOnEach NoneForgotten OneLine
PROPERTIES EveryCarryEnds IsACarrier
CHECK_DEADLOCK FALSE
