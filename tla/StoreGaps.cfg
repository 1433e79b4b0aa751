SPECIFICATION FairSpec
CONSTANTS
  Objects = {o1, o2, o3}
  None = None
  StoreKeys <- TheStoreKeys
  FamilyKeys <- TheFamilyKeys
  MetricKeys <- TheMetricKeys
  MaxChanges = 4
  MaxGaps = 2
CHECK_DEADLOCK FALSE
INVARIANTS
  TypeOK
  LiveServed
  MirrorUnbroken
  LabelsInherited
PROPERTIES
  NeverBack
  Settles
