SPECIFICATION Spec
CONSTANTS
  Objects = {o1, o2}
  None = None
  StoreKeys <- NoKeys
  FamilyKeys <- NoKeys
  MetricKeys <- TheMetricKeys
  MaxChanges = 2
  MaxGaps = 1
CHECK_DEADLOCK FALSE
INVARIANT Mirror
