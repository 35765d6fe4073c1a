CONSTANTS
  MaxTime = 6
  Jtis = {j1, j2, j3}  OwnerOf <- MCOwnerOf  Prints = {p1, p2}
  MaxSessions = 2  Inactive = 2  Rate = 1  MaxRequests = 1  NoSession = NoSession
  Targets = {t1}  Severities = {3, 6, 9}  Hour = 2  Minor = 1
  KeptSignals = 2  MaxReports = 3  NoRecord = NoRecord
  Users = {a}  IPs = {ip1, ip2}  Devices = {d1, d2}  PublicKeys = {k1, k2}
  Anomaly <- MCAnomaly  Behavior <- MCBehavior  Crypto <- MCCrypto  Phantom <- MCPhantom
  MaxCalls = 3  NoProfile = NoProfile
  Callers = {a, b}  Address <- MCAddress  Window <- MCWindow  Limit <- MCLimit
  BlockAt = 2  MaxHits = 4  NoEntry = NoEntry
  Sockets = {s1, s2}  SocketUser <- MCSocketUser  PresenceTTL = 2  TypingTTL = 1
  MaxBeats = 2  MaxCrashes = 1
  Requests = {r1, r2, r3}  MaxContainers = 2
  Tabs = {x, y}  MaxAccounts = 2  MaxPairs = 3  None = None
  j1 = j1  j2 = j2  j3 = j3  a = a  b = b  s1 = s1  s2 = s2  ip1 = ip1
SPECIFICATION FairSpec
INVARIANTS SessionTablesAgree WindowBound OfflineInTheEnd NoneBeforeConnected KeyHalvesMatch
PROPERTIES ThreatsReleased ProfilesForgotten
CHECK_DEADLOCK FALSE
