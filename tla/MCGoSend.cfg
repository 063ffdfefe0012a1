SPECIFICATION FairGoSendSpec
CONSTANTS
  h1 = h1
  Heirs = {h1}
  Parties = {p1}
  Invitation <- MCInvitation
  Keys <- MCKeys
  Secrets <- MCDrawn
  NoHeir = NoHeir
  NoKey = NoKey
  Nobody = Nobody
  NoCt = NoCt
  MaxCount = 5
  ZeroAnswers = FALSE
  UnreadArgs = {FALSE}
  MaxFlight = 2
  MaxAsks = 4
  MaxShared = 4
  Addresses = 2
  MaxFailures = 1
  Alterations = TRUE
INVARIANT QuietIsAdmitted
PROPERTY Settles
CHECK_DEADLOCK FALSE
