CONSTANTS
  a = a
  All = All
  None = None
  Peers = {a}
  Texts = {t1}
  PeerOf <- MCPeerOf
  Burns = {TRUE}
  MaxMsgs = 2
  MaxPeers = 1
  MsgTTL = 1
  MaxGen = 2
  MaxOut = 2
  MaxTime = 2
  MaxLosses = 1
SPECIFICATION FairSpec
INVARIANTS TypeOK IdentityWhole KeyedWhenIdle BlankUntilSetUp ScreenFitsState
PROPERTIES OldestGoesFirst QueueSettles
