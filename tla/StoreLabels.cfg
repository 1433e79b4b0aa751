SPECIFICATION Spec
CONSTANTS
  Objects = {o1, o2}
  None = None
  StoreKeys <- TheStoreKeys
  FamilyKeys <- TheFamilyKeys
  MetricKeys <- TheMetricKeys
  MaxChanges = 2
  MaxGaps = 0
CHECK_DEADLOCK FALSE
INVARIANT LabelsOnce
