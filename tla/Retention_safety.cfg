CONSTANTS
  Convs = {k1}
  Msgs = {m1}
  Deletes = {d1}
  MsgTtls = {0, 1}
  ConvTtls = {0, 2}
  Burns = {FALSE, TRUE}
  Grace = 2
  Serverless = TRUE
  MaxTime = 3
  MaxFaults = 1
SPECIFICATION Spec
INVARIANTS TypeOK StatusTruthful ConvKeptUntilAsked
PROPERTY DeletionJustified
CHECK_DEADLOCK FALSE
