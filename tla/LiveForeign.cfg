SPECIFICATION Spec
CONSTANTS
  Jobs = {j1}
  Chars = {"a", "b", " ", "."}
  Texts <- SomeTexts
  CompareLength = 3
  MaxDisturbances = 1
INVARIANTS
  SyncedFromOwnPage
