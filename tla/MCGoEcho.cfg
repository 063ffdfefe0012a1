SPECIFICATION GoSpec
CONSTANTS
  Heirs = {h1}
  Keys = {h1, k1, k2}
  Secrets = {s1}
  NoHeir = NoHeir
  NoKey = NoKey
  NoCt = NoCt
  MaxCount = 3
  ZeroAnswers = TRUE
  Names = {n1, n2}
SYMMETRY GoSymmetry
INVARIANTS EchoesWhatItIsGiven
