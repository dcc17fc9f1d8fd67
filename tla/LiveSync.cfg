SPECIFICATION FairSpec
CONSTANTS
  Jobs = {j1, j2}
  Chars = {"a", "b", " ", "."}
  Texts <- SomeTexts
  CompareLength = 3
  MaxDisturbances = 2
INVARIANTS
  TypeOK
PROPERTIES
  Converges
  StyleKept
