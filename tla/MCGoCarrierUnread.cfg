SPECIFICATION FairGoCarrierSpec
CONSTANTS
  Asks = {a1, a2}
  MaxLines = 1
  MaxRogue = 0
  Room = 1
  NoLine = NoLine
  NoAsk = NoAsk
  NoFrame = NoFrame
  Shut = Shut
  Forged = Forged
PROPERTY EveryCarryEnds
CHECK_DEADLOCK FALSE
