CONSTANTS
  r1 = r1
  r2 = r2
  NoTxn = NoTxn
  Requests = {r1, r2}
  BadRequests = {}
  LossModes = {"unread"}
  MaxWire = 2
SPECIFICATION Spec
PROPERTIES SeqnoChangeMeansReestablished
CHECK_DEADLOCK FALSE
