CONSTANTS
  w1 = w1
  Sockets = {w1}
  Failures = {}
  MaxRestarts = 0
SPECIFICATION FairSpec
PROPERTIES ClosedIsCleaned
CHECK_DEADLOCK FALSE
