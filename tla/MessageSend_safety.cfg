CONSTANTS
  alice = alice
  bob = bob
  carol = carol
  a1 = a1
  c1 = c1
  k1 = k1
  NoRequest = NoRequest
  Users = {alice, bob, carol}
  Sockets = {a1, c1}
  UserOf <- MCUserOf
  Convs = {k1}
  Sends = {m1, m2}
  Nonces = {n1}
  Requests <- MCRequests
  Groups <- MCGroups
  NonceTTL = 2
  MaxTime = 3
  MaxCrashes = 1
SYMMETRY SendSymmetry
SPECIFICATION Spec
INVARIANTS TypeOK NonceWindow ClientsToldTheTruth LastMessageAtIsReal OnlyParticipantsReceive
CHECK_DEADLOCK FALSE
