SPECIFICATION FairSpec
CONSTANTS
  Warmup = 2
  SampleCap = 2
  Hop = {1, 2}
  Ip = {a}
  None = None
  Latency = {1, 3}
  MaxSends = 4
INVARIANTS
  TypeOK
  CountsHonest
  LogTellsRun
PROPERTIES
  LeftRunsEnd
CHECK_DEADLOCK FALSE
