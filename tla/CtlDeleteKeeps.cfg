SPECIFICATION Spec
CONSTANTS
  Workers = {w1}
  Names = {n1}
  UIDs = {u1}
  Configs = {c1, c2}
  BadConfigs = {}
  Budget <- OneDelete
  Items <- MCItems
  StoreCount <- MCStoreCount
  EmptyConfig = empty
  NoItem = NoItem
  Absent = Absent
  Nothing = Nothing
  c1 = c1
  c2 = c2
  bad = bad
  empty = empty
CHECK_DEADLOCK FALSE
INVARIANT DeletedDropped
