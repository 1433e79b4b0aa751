SPECIFICATION FairSpec
CONSTANTS
  Items = {i1, i2}
  Workers <- MCWorkers
  NoItem = NoItem
  Flags <- MCFlags
  Default <- MCDefault
  Values <- MCValues
  Bad = Bad
  Unset = Unset
  Requests = {c1}
  Commands <- MCCommands
  Envs <- MCEnvs
  Running = Running
CHECK_DEADLOCK FALSE
INVARIANTS
  TypeOK
  ReadyMeansRunning
  CleanExit
  FlagsPrecede
PROPERTIES
  SignalEnds
  StartEnds
  QueuedIsHandled
