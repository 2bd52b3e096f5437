SPECIFICATION TxSpec
CONSTANTS
  p1 = p1  p2 = p2  req = req  ann = ann  bob = bob  small = small  big = big
  r1 = r1  r2 = r2  r3 = r3  w1 = w1  w2 = w2
  PO = {p1}
  User = {req, ann, bob}
  NoUser = NoUser
  Root = {}
  Content = {small, big}
  Rule = {r1, r2, r3}
  StepOf <- TxStepOf
  Approver <- TxApprover
  Backup <- TxBackup
  Matches <- TxMatches
  Fallback = {r1}
  MaxSeq = 1
  Worker = {w1, w2}
  Op = {"approve", "submit"}
  Alone = {}
  NoRow = NoRow
INVARIANTS
  CompletedIsApproved
