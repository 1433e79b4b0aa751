SPECIFICATION Spec
CONSTANTS
  Workers = {w1, w2}
  Names = {n1, n2}
  UIDs = {u1, u2}
  Configs = {c2, empty}
  BadConfigs = {}
  Budget <- Everything
  Items <- MCItems
  StoreCount <- MCStoreCount
  EmptyConfig = empty
  NoItem = NoItem
  Absent = Absent
  Nothing = Nothing
  c1 = c1
  c2 = c2
  bad = bad
  empty = empty
CHECK_DEADLOCK FALSE
INVARIANTS
  TypeOK
  WorkerInv
  StoresFed
  UndisturbedServed
CONSTRAINT FewDisturbances
SYMMETRY Symmetry
