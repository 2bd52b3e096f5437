SPECIFICATION TxSpec
CONSTANTS
  p1 = p1  p2 = p2  req = req  ann = ann  bob = bob  small = small  big = big
  r1 = r1  r2 = r2  r3 = r3  w1 = w1  w2 = w2
  PO = {p1, p2}
  User = {ann, bob}
  NoUser = NoUser
  Root = {bob}
  Content = {big}
  Rule = {r1, r2, r3}
  StepOf <- TxStepOf
  Approver <- TxApprover
  Backup <- TxBackup
  Matches <- TxMatches
  Fallback = {r1}
  MaxSeq = 2
  Worker = {w1, w2}
  Op = {"approve", "reject", "changes", "postpone", "submit", "resume"}
  Alone = {"approve", "reject", "changes", "postpone", "submit", "resume"}
  NoRow = NoRow
SYMMETRY Interchangeable
PROPERTIES
  SerialIsAtomic
