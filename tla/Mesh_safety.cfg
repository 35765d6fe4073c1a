CONSTANTS
  a = a
  b = b
  c = c
  All = All
  Silence = Silence
  Nodes = {a, b, c}
  Ids = {i1}
  Near <- MCLine
  Net <- MCNet
  DedupSize = 1
  DedupTTL = 2
  DefaultTTL = 2
  MaxTTL = 2
  Wrap = 3
  MaxTime = 3
  MaxReboots = 1
SPECIFICATION FairSpec
INVARIANTS TypeOK HopsAccounted
PROPERTIES DedupWindow ImplementsService FallsQuiet
