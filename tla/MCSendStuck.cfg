SPECIFICATION SendSpec
CONSTANTS
  h1 = h1
  Heirs = {h1}
  Parties = {p1}
  Invitation <- MCInvitation
  Keys <- MCKeys
  Secrets <- MCDrawn
  NoHeir = NoHeir
  NoKey = NoKey
  Nobody = Nobody
  NoCt = NoCt
  MaxCount = 5
  MaxAsks = 3
  ZeroAnswers = FALSE
  Addresses = 1
  MaxFailures = 3
  Carriers = {{"late", "altered"}}
  UnreadArgs = {FALSE}
INVARIANT BoundIsAdmitted
CHECK_DEADLOCK FALSE
