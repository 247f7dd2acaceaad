CONSTANTS
  w1 = w1
  w2 = w2
  Sockets = {w1, w2}
  Failures = {"reject", "lose", "restart"}
  MaxRestarts = 1
SPECIFICATION Spec
SYMMETRY SocketSymmetry
INVARIANTS SubscriberIsThere DeletedForGood
CHECK_DEADLOCK FALSE
