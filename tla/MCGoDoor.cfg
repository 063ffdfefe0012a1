SPECIFICATION MCGoSpec
CONSTANTS
  Heirs = {h1, h2}
  Keys = {h1, h2, k1}
  Secrets = {s1}
  NoHeir = NoHeir
  NoKey = NoKey
  NoCt = NoCt
  MaxCount = 3
  ZeroAnswers = TRUE
  Names = {n1, n2}
SYMMETRY GoSymmetry
INVARIANTS GoTypeOK NamesLeadToTheHeld SaysTheSame
PROPERTIES IsTheDoor
