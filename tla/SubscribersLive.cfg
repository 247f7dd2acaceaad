CONSTANTS
  w1 = w1
  w2 = w2
  Sockets = {w1, w2}
  Failures = {"lose"}
  MaxRestarts = 0
SPECIFICATION FairSpec
PROPERTIES OpenEnds SubscriberIsCleaned
CHECK_DEADLOCK FALSE
