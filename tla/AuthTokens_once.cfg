CONSTANTS
  NoPair = NoPair
  Pairs = {p1, p2, p3}
  Calls = {c1, c2, c3}
  Ops = {"signin", "refresh"}
  AccessTTL = 2
  RefreshTTL = 3
  BlackTTL = 2
  KeyTTL = 3
  MaxTime = 2
  MaxFaults = 0
SYMMETRY AuthSymmetry
SPECIFICATION Spec
INVARIANT ExchangedOnce
CHECK_DEADLOCK FALSE
