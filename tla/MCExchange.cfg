SPECIFICATION ExchangeSpec
CONSTANTS
  h1 = h1
  Heirs = {h1}
  Parties = {p1, p2}
  Invitation <- MCInvitation
  Keys <- MCKeys
  Secrets <- MCDrawn
  NoHeir = NoHeir
  NoKey = NoKey
  Nobody = Nobody
  NoCt = NoCt
  MaxCount = 3
  MaxAsks = 2
  ZeroAnswers = FALSE
SYMMETRY PartySymmetry
INVARIANTS ExchangeTypeOK BoundOnlyByOwnKnock MovedWasHonoured SilenceToTheRest
PROPERTY KeepsThePromise
