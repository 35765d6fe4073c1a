CONSTANTS
  None = None
  Convs = {k1}
  Mine = {m1}
  Theirs = {m2}
  ConvOf <- MCConvOf
  MaxSockets = 3
  MaxSent = 1
  MaxDrops = 1
SPECIFICATION Spec
INVARIANT DeliveredMeansReceived
CHECK_DEADLOCK FALSE
