SPECIFICATION FairSpec
CONSTANTS
  fibre = fibre
  Phone = {ann}
  Campaign = {fibre}
  DefaultFlow <- Default
  Flows <- Packages
  Choice = {"package"}
  None = None
  Worker = {w1, w2}
  MaxFaults = 1
  MaxEdits = 1
  MaxPushes = 1
INVARIANTS
  TypeOK
  RecordsAddUp
PROPERTIES
  SignupEnds
