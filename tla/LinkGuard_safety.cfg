CONSTANTS
  u1 = u1
  i1 = i1
  i2 = i2
  Never = Never
  Nobody = Nobody
  Tokens = {t1, t2}
  Users = {u1}
  Convs = {k1}
  Members <- MCMembers
  IPs = {i1, i2, i3}
  Options <- MCOptions
  Days <- MCDays
  MaxLinks <- MCMaxLinks
  IPLimit = 1
  Retention = 2
  MaxTime = 3
SPECIFICATION FairSpec
PROPERTIES ImplementsService LinksWithinPlan LinksForgotten
CHECK_DEADLOCK FALSE
