SPECIFICATION FairLinesSpec
CONSTANTS
  Asks = {a1, a2}
  MaxConns = 2
  MaxRogue = 2
  NoConn = NoConn
  Forged = Forged
INVARIANTS LinesTypeOK WaitingIsPending OneConnection
PROPERTIES EveryDialEnds IsACarrier
CHECK_DEADLOCK FALSE
