SPECIFICATION FairSpec
CONSTANTS
  MaxClones = 2
  MaxPromotions = 1
  MaxFaults = 1
  MaxEdits = 1
INVARIANTS
  TypeOK
  SlotTellsRunner
PROPERTIES
  PromotedNeverPushes
  SlotComesFree
CHECK_DEADLOCK FALSE
