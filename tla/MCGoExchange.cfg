SPECIFICATION GoExchangeSpec
CONSTANTS
  h1 = h1
  Heirs = {h1}
  Parties = {p1, p2}
  Invitation <- MCInvitation
  Keys <- MCKeys
  Secrets <- MCDrawn
  NoHeir = NoHeir
  NoKey = NoKey
  Nobody = Nobody
  NoCt = NoCt
  MaxCount = 3
  MaxAsks = 3
  MaxShared = 2
  MaxFlight = 1
  UnreadArgs = {FALSE}
  ZeroAnswers = FALSE
SYMMETRY PartySymmetry
INVARIANTS GoExchangeTypeOK AdmittedUnlessPassed BoundOnlyByOwnKnock
PROPERTY KeepsThePromise
