SPECIFICATION DoorSpec
CONSTANTS
  h1 = h1
  k1 = k1
  k2 = k2
  Heirs = {h1}
  Keys = {h1, k1, k2}
  Secrets = {s1}
  NoHeir = NoHeir
  NoKey = NoKey
  NoCt = NoCt
  MaxCount = 3
  ZeroAnswers = TRUE
INVARIANTS DoorTypeOK NumbersClimb HeirDiesAtItsKnock OneChain AdmitsByHistory
PROPERTIES ReleasedForGood
