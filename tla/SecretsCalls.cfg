CONSTANTS
  Call = {c1, c2}
  Name = {n1, n2}
  Kinds = {"set", "delete", "rotate", "get", "start"}
  MaxDeaths = 1
  Cloned = FALSE
  Missing = Missing
  Torn = Torn
  None = None
SPECIFICATION SecretsSpec
SYMMETRY Symmetry
INVARIANTS SecretsInv AnswersHold StartsAgree
CHECK_DEADLOCK FALSE
