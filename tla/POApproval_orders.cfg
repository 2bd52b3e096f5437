SPECIFICATION FairSpec
CONSTANTS
  p1 = p1  p2 = p2  req = req  ann = ann  bob = bob
  small = small  big = big  r1 = r1  r2 = r2  r3 = r3
  PO = {p1, p2}
  User = {req, ann}
  NoUser = NoUser
  Root = {}
  Content = {small}
  Rule = {r1}
  StepOf <- OneStepOf
  Approver <- OneApprover
  Backup <- OneBackup
  Matches <- OneMatches
  Fallback = {r1}
  MaxSeq = 3
PROPERTIES
  PostponedReturns
