SPECIFICATION FairVerifySpec
CONSTANTS
  Heirs <- MCHeirs
  Keys <- MCKeys
  Secrets <- MCSecrets
  NoHeir = NoHeir
  NoKey = NoKey
  NoCt = NoCt
  MaxCount = 99
  ZeroAnswers = TRUE
  Parties <- MCParties
  Invitation <- MCInvitation
  MaxAsks <- MCAsks
  MaxGivenUp = 2
  MaxAfter = 3
  Kits = {"right", "door", "short", "stray", "silent", "nothing"}
INVARIANTS PassesARightKit FailsAWrongKit FailsAMuteKit TracksTheDoor TracksTheStanding AnswerIsOwn
PROPERTIES EndsEveryScenario
CHECK_DEADLOCK FALSE
