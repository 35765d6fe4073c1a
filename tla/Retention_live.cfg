CONSTANTS
  Convs = {k1}
  Msgs = {m1}
  Deletes = {}
  MsgTtls = {0, 1}
  ConvTtls = {0, 2}
  Burns = {FALSE, TRUE}
  Grace = 2
  Serverless = FALSE
  MaxTime = 3
  MaxFaults = 1
SPECIFICATION FairSpec
PROPERTIES ExpiredIsRemoved BurnHappens
CHECK_DEADLOCK FALSE
