SPECIFICATION WQFairSpec
CONSTANTS
  Items = {i1, i2, i3}
  Workers = {w1, w2}
  NoItem = NoItem
INVARIANTS
  WQTypeOK
  WQInv
PROPERTIES
  ImplementsWorkSet
  EveryMarkServed
CHECK_DEADLOCK FALSE
