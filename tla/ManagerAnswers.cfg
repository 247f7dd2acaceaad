CONSTANTS
  r1 = r1
  r2 = r2
  NoTxn = NoTxn
  Requests = {r1, r2}
  BadRequests = {}
  LossModes = {}
  MaxWire = 1
SPECIFICATION FairSpec
PROPERTIES CompletedIsAnsweredIfChecked AloneIsAnswered
