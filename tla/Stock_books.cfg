SPECIFICATION Spec
CONSTANTS
  radios = radios  cables = cables  wires = wires
  cpe = cpe  cat6 = cat6  cat6b = cat6b
  i1 = i1  i2 = i2  ann = ann  mast = mast  w1 = w1  w2 = w2
  Vendor = {radios, cables, wires}
  Misc = {cables, wires}
  Product = {cpe, cat6, cat6b}
  VendorOf <- ByKind
  NameOf <- Names
  Item = {i1, i2}
  Customer = {ann}
  Site = {mast}
  NoOne = NoOne  Absent = Absent  NoLog = NoLog
  Quantity = {2, 3}
  Slack = 1
  MaxLots = 2
  MaxSignOuts = 2
  Worker = {w1, w2}
  TakeTurns = TRUE
CONSTRAINT TwoRows
SYMMETRY Interchangeable
INVARIANTS
  TypeOK
  LogTellsState
  BooksBalance
PROPERTIES
  HeldItemsStay
