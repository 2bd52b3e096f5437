SPECIFICATION Spec
CONSTANTS
  p1 = p1  p2 = p2  req = req  ann = ann  bob = bob
  small = small  big = big  r1 = r1  r2 = r2  r3 = r3
  PO = {p1}
  User = {req, ann, bob}
  NoUser = NoUser
  Root = {req}
  Content = {small, big}
  Rule = {r1, r2, r3}
  StepOf <- MCStepOf
  Approver <- MCApprover
  Backup <- MCBackup
  Matches <- MCMatches
  Fallback = {r1}
  MaxSeq = 3
INVARIANTS
  TypeOK
  WaitingIsActionable
  StepsInOrder
  ApprovedByEveryRule
  RemindersFollowStep
  ApproversAsked
PROPERTIES
  DeclinedStaysDeclined
  LockedWhileWaiting
