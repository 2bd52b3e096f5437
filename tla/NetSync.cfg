SPECIFICATION FairSpec
CONSTANTS
  m1 = m1  m2 = m2  north = north
  Mac = {m1, m2}
  None = None
  Worlds <- SomeWorlds
  MaxKey = 2
  Paths = 2
  Router = {north}
  Syncer = {nightly, manual}
  Crosser = {x1}
  MaxFaults = 1
  MaxEdits = 1
INVARIANTS
  TypeOK
  TablesFit
PROPERTIES
  CacheAdvances
  SyncWorksAgain
