CONSTANTS
  Convs = {k1}
  Msgs = {m1}
  Deletes = {}
  MsgTtls = {0}
  ConvTtls = {0}
  Burns = {TRUE}
  Grace = 2
  Serverless = FALSE
  MaxTime = 3
  MaxFaults = 1
SPECIFICATION TtlFairSpec
PROPERTY BurnSurvivesCrash
CHECK_DEADLOCK FALSE
