CONSTANTS
  r1 = r1
  r2 = r2
  r3 = r3
  NoTxn = NoTxn
  Requests = {r1, r2, r3}
  BadRequests = {r3}
  LossModes = {"unread", "send"}
  MaxWire = 2
SPECIFICATION Spec
SYMMETRY RequestSymmetry
INVARIANTS TypeOK NoLostWakeup SignalIsCurrent AnswerMatchesDatabase PolledUnlessSignalled HeardOnce
PROPERTIES ImplementsTxnService
CHECK_DEADLOCK FALSE
