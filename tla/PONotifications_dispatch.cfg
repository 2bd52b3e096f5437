SPECIFICATION FairSpec
CONSTANTS
  n1 = n1  n2 = n2  p1 = p1  sched = sched  web = web
  Note = {n1, n2}
  App = {n2}
  Approval = {n1}
  PO = {p1}
  POOf <- OnePO
  Worker = {sched, web}
  Scheduler = sched
  Limit = 1
  NoNote = NoNote
  MaxFaults = 2
INVARIANTS
  AtMostOnce
  SentWasAccepted
PROPERTIES
  ImplementsDelivery
  EveryNoteSettles
