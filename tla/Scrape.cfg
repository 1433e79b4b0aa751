SPECIFICATION FairSpec
CONSTANTS
  Scrapers = {p1, p2}
  Resources = {r1}
  Stores = {s1, s2}
  MaxUpdates = 2
  MaxDrops = 1
INVARIANTS
  TypeOK
  LockDiscipline
  OneMoment
PROPERTIES
  ScrapesEnd
  UpdatesApplied
