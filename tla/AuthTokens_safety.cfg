CONSTANTS
  NoPair = NoPair
  Pairs = {p1, p2, p3}
  Calls = {c1, c2, c3, c4}
  Ops = {"signin", "refresh", "logout", "api", "connect"}
  AccessTTL = 2
  RefreshTTL = 3
  BlackTTL = 2
  KeyTTL = 3
  MaxTime = 3
  MaxFaults = 1
SYMMETRY AuthSymmetry
SPECIFICATION Spec
INVARIANTS TypeOK LoggedOutStaysOut SpentStaysSpent OldTokenDead
CHECK_DEADLOCK FALSE
