SPECIFICATION FairSpec
CONSTANTS
  Workers = {w1}
  Names = {n1}
  UIDs = {u1}
  Configs = {c1, c2, bad}
  BadConfigs = {bad}
  Budget <- EditsCrashGap
  Items <- MCItems
  StoreCount <- MCStoreCount
  EmptyConfig = empty
  NoItem = NoItem
  Absent = Absent
  Nothing = Nothing
  c1 = c1
  c2 = c2
  bad = bad
  empty = empty
CHECK_DEADLOCK FALSE
INVARIANTS
  OneBuild
  NoLostUpdate
  ProcessedTellsOutcome
  FailedExplained
PROPERTIES
  ImplementsExposure
  Converges
  Quiesces
