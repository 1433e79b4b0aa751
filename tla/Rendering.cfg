SPECIFICATION Spec
CONSTANTS
  Queries <- MCQueries
  Parts <- MCParts
  Texts <- MCTexts
  Skipped = "int64"
  Printed = "<nil>"
  Numbers <- MCNumbers
  Objects <- MCObjects
  Keys <- MCKeys
  Whole = ""
  Names <- MCNames
  Clean <- MCClean
  Size <- MCSize
  Alpha <- MCAlpha
  GVK <- MCGVK
  Configs <- MCConfigs
  MaxCalls = 3
CHECK_DEADLOCK FALSE
INVARIANTS
  TypeOK
  LabelsFaithful
  OneSampleEach
  LabelsOrdered
  PanicsOnlyMismatched
