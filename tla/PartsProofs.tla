---------------------------- MODULE PartsProofs ----------------------------
(***************************************************************************)
(* Proofs about the small components, for every number of sessions, users, *)
(* sockets, requests and tabs, and every limit.                            *)
(***************************************************************************)
EXTENDS Parts, FiniteSetTheorems, SequenceTheorems, TLAPS

-----------------------------------------------------------------------------
(* The parts do not disturb each other *)

LEMMA PartSteps ==
    ASSUME [Next]_vars
    PROVE  /\ SessionNext \/ UNCHANGED sessionVars
           /\ LimitNext \/ UNCHANGED limitVars
           /\ PresenceNext \/ UNCHANGED presenceVars
           /\ StartNext \/ UNCHANGED startVars
           /\ ClientNext \/ UNCHANGED clientVars
  BY DEF Next, Sessions, Threats, Agents, Limits, Presences, Starts, Clients, vars, partVars

-----------------------------------------------------------------------------
(* Startup *)

\* A promise that is fulfilled, or pending at Redis, has both databases, or
\* the first, behind it; who goes on found it fulfilled.
StartInv ==
    /\ req = [r \in Requests |-> req[r]]
    /\ _connected => mongo /\ redis
    /\ _connecting = "redis" => mongo
    /\ \A r \in Requests : req[r] = "going" => _connected
    /\ lost = {}

LEMMA StartInit_ == StartInit => StartInv
  BY DEF StartInit, StartInv

LEMMA StartStep == StartInv /\ (StartNext \/ UNCHANGED startVars) => StartInv'
<1> SUFFICES ASSUME StartInv, StartNext \/ UNCHANGED startVars PROVE StartInv'
  OBVIOUS
<1>1. ASSUME NEW r \in Requests, ensureConnected(r) PROVE StartInv'
  BY <1>1 DEF ensureConnected, ConnectFirst, StartInv
<1>2. ASSUME NEW r \in Requests, Settled(r) PROVE StartInv'
  BY <1>2 DEF Settled, StartInv
<1>3. ASSUME NEW r \in Requests, Handler(r) PROVE StartInv'
  BY <1>3 DEF Handler, StartInv
<1>4. CASE MongoConnects
  BY <1>4 DEF MongoConnects, StartInv
<1>5. CASE RedisConnects
  BY <1>5 DEF RedisConnects, StartInv
<1>6. CASE ConnectFails
  BY <1>6 DEF ConnectFails, StartInv
<1>7. CASE NewContainer
  BY <1>7 DEF NewContainer, StartInv
<1>8. CASE UNCHANGED startVars
  BY <1>8 DEF startVars, StartInv
<1> QED
  BY <1>1, <1>2, <1>3, <1>4, <1>5, <1>6, <1>7, <1>8 DEF StartNext

\* However many requests wake a container together, none reaches a route
\* before both databases are connected (startup.ts:14-48).
THEOREM RequestsWait == Spec => []NoneBeforeConnected
<1>1. Init => StartInv
  BY StartInit_ DEF Init
<1>2. StartInv /\ [Next]_vars => StartInv'
  BY PartSteps, StartStep
<1>3. StartInv => NoneBeforeConnected
  BY DEF StartInv, NoneBeforeConnected
<1> QED
  BY <1>1, <1>2, <1>3, PTL DEF Spec

-----------------------------------------------------------------------------
(* SessionProtector *)

ClockType == now \in Nat \ {0}

LEMMA ClockMoves == [Next]_vars => Tick \/ UNCHANGED now
<1>1. SessionNext => Tick \/ UNCHANGED now
  BY DEF SessionNext, removeSession, registerSession, validateSession, CleanSessions
<1>2. ThreatNext => Tick \/ UNCHANGED now
  BY DEF ThreatNext, checkThreatStatus, reportThreatSignal, DecayThreats
<1>3. AgentNext => Tick \/ UNCHANGED now
  <2>1. ASSUME NEW u \in Users, NEW ip \in IPs, recordMessageEvent(u, ip) PROVE UNCHANGED now
    BY <2>1, Zenon DEF recordMessageEvent
  <2>2. ASSUME NEW u \in Users, NEW ds, recordLoginEvent(u, ds) PROVE UNCHANGED now
    BY <2>2, Zenon DEF recordLoginEvent
  <2>3. ASSUME NEW u \in Users, NEW fire, analyzeMessageBehavior(u, fire) PROVE UNCHANGED now
    BY <2>3, Zenon DEF analyzeMessageBehavior
  <2>4. ASSUME NEW u \in Users, recordConversationInitiation(u) PROVE UNCHANGED now
    BY <2>4, Zenon DEF recordConversationInitiation
  <2>5. ASSUME NEW u \in Users, NEW key, monitorKeyExchange(u, key) PROVE UNCHANGED now
    BY <2>5, Zenon DEF monitorKeyExchange
  <2>6. ASSUME NEW u \in Users, NEW cadence, monitorDecryption(u, cadence) PROVE UNCHANGED now
    BY <2>6, Zenon DEF monitorDecryption
  <2>7. Clean => UNCHANGED now
    BY Zenon DEF Clean, CleanAnomaly, CleanBehavior, CleanCrypto, CleanPhantom
  <2> QED
    BY <2>1, <2>2, <2>3, <2>4, <2>5, <2>6, <2>7, Zenon DEF AgentNext
<1>4. LimitNext => Tick \/ UNCHANGED now
  BY DEF LimitNext, isSocketRateLimited, checkRateLimit, recordReplayAttempt, integrityGuard,
         HttpRequest, cleanupSocketBuckets
<1>5. PresenceNext => Tick \/ UNCHANGED now
  BY DEF PresenceNext, PresenceConnect, PresenceDisconnect, Heartbeat, TypingStart, TypingStop,
         Answer, RedisFails, ExpireKeys
<1> QED
  BY <1>1, <1>2, <1>3, <1>4, <1>5
     DEF Next, Sessions, Threats, Agents, Limits, Presences, Starts, Clients, vars

LEMMA ClockStep == ClockType /\ [Next]_vars => ClockType'
<1> SUFFICES ASSUME ClockType, [Next]_vars PROVE ClockType'
  OBVIOUS
<1>1. Tick => ClockType'
  BY DEF ClockType, Tick
<1>2. UNCHANGED now => ClockType'
  BY DEF ClockType
<1> QED
  BY <1>1, <1>2, ClockMoves

\* The tables agree, with the types that make a session differ from none.
SessionInv ==
    /\ sessions \in [Jtis -> SessionDoc \cup {NoSession}]
    /\ userSessions \in [SessionUsers -> SUBSET Jtis]
    /\ \A u \in SessionUsers : userSessions[u] = {j \in Jtis : OwnerOf[j] = u /\ Known(j)}
    /\ \A u \in SessionUsers : Cardinality(userSessions[u]) <= MaxSessions

LEMMA SessionInit_ == SessionInit => SessionInv
<1> SUFFICES ASSUME SessionInit PROVE SessionInv
  OBVIOUS
<1>1. sessions \in [Jtis -> SessionDoc \cup {NoSession}] /\ \A j \in Jtis : ~Known(j)
  BY DEF SessionInit, Known
<1>2. userSessions \in [SessionUsers -> SUBSET Jtis] /\ \A u \in SessionUsers : userSessions[u] = {}
  BY DEF SessionInit
<1>3. Cardinality({}) <= MaxSessions
  BY FS_EmptySet, SessionAssumption
<1> QED
  BY <1>1, <1>2, <1>3 DEF SessionInv

LEMMA SessionStep == SessionInv /\ ClockType /\ (SessionNext \/ UNCHANGED sessionVars) => SessionInv'
<1> SUFFICES ASSUME SessionInv, ClockType, SessionNext \/ UNCHANGED sessionVars PROVE SessionInv'
  OBVIOUS
<1> USE SessionAssumption
<1>t. \A j \in Jtis : OwnerOf[j] \in SessionUsers
  BY DEF SessionUsers
<1>f. \A S \in SUBSET Jtis : IsFiniteSet(S)
  BY FS_Subset
\* The tables after a step that takes sessions away.
<1>r. ASSUME NEW out \in SUBSET Jtis,
             sessions' = [j \in Jtis |-> IF j \in out THEN NoSession ELSE sessions[j]],
             userSessions' = [u \in SessionUsers |-> userSessions[u] \ out]
      PROVE  SessionInv'
  <2>1. \A u \in SessionUsers : Cardinality(userSessions[u] \ out) <= MaxSessions
    <3> TAKE u \in SessionUsers
    <3>1. userSessions[u] \in SUBSET Jtis /\ Cardinality(userSessions[u]) <= MaxSessions
      BY DEF SessionInv
    <3>2. Cardinality(userSessions[u] \ out) <= Cardinality(userSessions[u])
      BY <1>f, <3>1, FS_Subset
    <3>3. Cardinality(userSessions[u] \ out) \in Nat /\ Cardinality(userSessions[u]) \in Nat
      BY <1>f, <3>1, FS_CardinalityType
    <3> QED
      BY <3>1, <3>2, <3>3
  <2>2. sessions' \in [Jtis -> SessionDoc \cup {NoSession}]
    BY <1>r DEF SessionInv
  <2>3. userSessions' \in [SessionUsers -> SUBSET Jtis]
    BY <1>r DEF SessionInv
  <2>4. \A j \in Jtis : Known(j)' <=> Known(j) /\ j \notin out
    BY <1>r DEF Known
  <2>5. \A u \in SessionUsers : userSessions'[u] = userSessions[u] \ out
    BY <1>r
  <2> QED
    BY <2>1, <2>2, <2>3, <2>4, <2>5 DEF SessionInv
<1>1. ASSUME NEW j \in Jtis, removeSession(j) PROVE SessionInv'
  <2>1. sessions' = [i \in Jtis |-> IF i \in {j} THEN NoSession ELSE sessions[i]]
    BY <1>1 DEF removeSession, SessionInv
  <2>2. \A u \in SessionUsers : u # OwnerOf[j] => userSessions[u] \ {j} = userSessions[u]
    BY DEF SessionInv
  <2>3. userSessions' = [u \in SessionUsers |-> userSessions[u] \ {j}]
    BY <1>1, <1>t, <2>2 DEF removeSession, SessionInv
  <2>4. {j} \in SUBSET Jtis
    OBVIOUS
  <2> QED
    BY ONLY <1>r, <2>1, <2>3, <2>4
<1>2. CASE CleanSessions
  <2> DEFINE idle == {j \in Jtis : Known(j) /\ sessions[j].lastSeen < now - Inactive}
  <2>1. idle \in SUBSET Jtis
    OBVIOUS
  <2>2. sessions' = [j \in Jtis |-> IF j \in idle THEN NoSession ELSE sessions[j]]
    BY <1>2 DEF CleanSessions
  <2>3. userSessions' = [u \in SessionUsers |-> userSessions[u] \ idle]
    BY <1>2 DEF CleanSessions
  <2> HIDE DEF idle
  <2> QED
    BY <1>r, <2>1, <2>2, <2>3
<1>3. ASSUME NEW j \in Jtis, NEW f \in Prints, validateSession(j, f) PROVE SessionInv'
  <2>1. sessions[j] \in SessionDoc
    BY <1>3 DEF validateSession, Known, SessionInv
  <2>2. \A s \in SessionDoc, b \in BOOLEAN :
           [s EXCEPT !.lastSeen = now, !.requests = @ + 1, !.suspicious = b] \in SessionDoc
    <3> TAKE s \in SessionDoc, b \in BOOLEAN
    <3>1. now \in Nat /\ s.requests + 1 \in Nat
      BY DEF SessionDoc, ClockType
    <3> DEFINE r == s.requests + 1
               d == [s EXCEPT !.lastSeen = now, !.requests = r, !.suspicious = b]
    <3> HIDE DEF r
    <3>2. d \in SessionDoc
      BY <3>1, Zenon DEF SessionDoc, r
    <3> QED
      BY <3>2, Zenon DEF r
  <2>3. sessions[j].suspicious \in BOOLEAN
    BY <2>1 DEF SessionDoc
  <2>4. sessions'[j] \in SessionDoc
    <3>1. PICK b \in BOOLEAN : sessions' = [sessions EXCEPT ![j].lastSeen = now,
                                        ![j].requests = @ + 1, ![j].suspicious = b]
      BY <1>3, <2>3 DEF validateSession
    <3>2. sessions'[j] = [sessions[j] EXCEPT !.lastSeen = now, !.requests = @ + 1, !.suspicious = b]
      BY <3>1 DEF SessionInv
    <3> QED
      BY <2>1, <2>2, <3>2
  <2>5. \A i \in Jtis : i # j => sessions'[i] = sessions[i]
    BY <1>3 DEF validateSession, SessionInv
  <2>6. sessions' = [i \in Jtis |-> sessions'[i]]
    BY <1>3 DEF validateSession, SessionInv
  <2>7. sessions' \in [Jtis -> SessionDoc \cup {NoSession}]
    BY <2>4, <2>5, <2>6 DEF SessionInv
  <2>8. \A i \in Jtis : Known(i)' <=> Known(i)
    BY <1>3, <2>4, <2>5 DEF Known, validateSession
  <2> QED
    BY <1>3, <2>7, <2>8 DEF SessionInv, validateSession
<1>4. ASSUME NEW j \in Jtis, NEW f \in Prints, registerSession(j, f) PROVE SessionInv'
  <2> DEFINE o == OwnerOf[j]
             doc == [fp |-> f, createdAt |-> now, lastSeen |-> now, requests |-> 0, suspicious |-> FALSE]
  <2>1. doc \in SessionDoc
    BY DEF SessionDoc, ClockType
  <2>2. o \in SessionUsers
    BY <1>t
  <2>3. Live(o) = userSessions[o] /\ userSessions[o] \in SUBSET Jtis
    BY <2>2 DEF Live, SessionInv
  <2>4. PICK out \in Evictable(Live(o)) :
           /\ sessions' = [i \in Jtis |-> CASE i = j -> doc
                                           [] i # j /\ i \in out -> NoSession
                                           [] OTHER -> sessions[i]]
           /\ userSessions' = [userSessions EXCEPT ![o] = (Live(o) \ out) \cup {j}]
    BY <1>4 DEF registerSession
  <2> HIDE DEF doc
  <2>5. out \subseteq userSessions[o]
    BY <2>3, <2>4 DEF Evictable, Oldest
  <2>6. /\ sessions'[j] = doc
        /\ \A i \in Jtis : i # j => sessions'[i] = IF i \in out THEN NoSession ELSE sessions[i]
        /\ sessions' = [i \in Jtis |-> sessions'[i]]
    BY <2>4
  <2>7. sessions' \in [Jtis -> SessionDoc \cup {NoSession}]
    BY <2>1, <2>6 DEF SessionInv
  <2>8. Known(j)' /\ \A i \in Jtis : i # j => (Known(i)' <=> Known(i) /\ i \notin out)
    BY <2>1, <2>6 DEF Known
  <2>9. /\ userSessions'[o] = (userSessions[o] \ out) \cup {j}
        /\ \A u \in SessionUsers : u # o => userSessions'[u] = userSessions[u]
        /\ userSessions' \in [SessionUsers -> SUBSET Jtis]
    BY <2>2, <2>3, <2>4 DEF SessionInv
  <2>10. \A u \in SessionUsers : userSessions'[u] = {i \in Jtis : OwnerOf[i] = u /\ Known(i)'}
    <3>1. \A i \in out : OwnerOf[i] = o
      BY <2>2, <2>5 DEF SessionInv
    <3>2. userSessions'[o] = {i \in Jtis : OwnerOf[i] = o /\ Known(i)'}
      BY <2>2, <2>8, <2>9 DEF SessionInv
    <3>3. ASSUME NEW u \in SessionUsers, u # o
          PROVE  userSessions'[u] = {i \in Jtis : OwnerOf[i] = u /\ Known(i)'}
      BY <3>1, <3>3, <2>8, <2>9 DEF SessionInv
    <3> QED
      BY <3>2, <3>3
  <2>11. Cardinality(userSessions'[o]) <= MaxSessions
    <3> DEFINE L == userSessions[o]
               K == L \ out
    <3>1. IsFiniteSet(L) /\ IsFiniteSet(K) /\ Cardinality(L) \in Nat /\ Cardinality(K) \in Nat
      BY <1>f, <2>3, FS_CardinalityType
    <3>2. Cardinality(L) <= MaxSessions
      BY <2>2 DEF SessionInv
    <3>3. Cardinality(K) + 1 <= MaxSessions
      <4>1. CASE Cardinality(L) >= MaxSessions
        <5>1. PICK i \in L : out = {i}
          BY <2>3, <2>4, <4>1 DEF Evictable, Oldest
        <5>2. Cardinality(K) = Cardinality(L) - 1
          BY <3>1, <5>1, FS_RemoveElement
        <5> QED
          BY <3>1, <3>2, <5>2
      <4>2. CASE ~(Cardinality(L) >= MaxSessions)
        <5>1. out = {}
          BY <2>3, <2>4, <4>2 DEF Evictable
        <5>2. Cardinality(K) = Cardinality(L)
          <6>1. K = L
            BY <5>1
          <6> QED
            BY <6>1, Zenon
        <5> HIDE DEF K, L
        <5> QED
          BY <3>1, <4>2, <5>2
      <4> QED
        BY <4>1, <4>2
    <3>4. Cardinality(K \cup {j}) <= Cardinality(K) + 1
      <4>1. Cardinality(K \cup {j}) = IF j \in K THEN Cardinality(K) ELSE Cardinality(K) + 1
        BY <3>1, FS_AddElement, Zenon
      <4> HIDE DEF K
      <4> QED
        BY <3>1, <4>1
    <3>5. Cardinality(K \cup {j}) \in Nat
      BY <3>1, FS_AddElement, FS_CardinalityType
    <3> QED
      BY <2>9, <3>1, <3>3, <3>4, <3>5
  <2> QED
    BY <2>7, <2>9, <2>10, <2>11 DEF SessionInv, Known
<1>5. CASE UNCHANGED sessionVars
  BY <1>5 DEF sessionVars, SessionInv, Known
<1> QED
  BY <1>1, <1>2, <1>3, <1>4, <1>5 DEF SessionNext

\* The maps of sessions and of the tokens of a user never come apart and no
\* user keeps more than MaxSessions sessions, for every limit and every
\* order of logins, evictions, logouts and cleanups
\* (sessionProtector.ts:45-101, 161-170, 191-201).
THEOREM SessionTables == Spec => []SessionTablesAgree
<1>1. Init => SessionInv /\ ClockType
  BY SessionInit_ DEF Init, ClockInit, ClockType
<1>2. SessionInv /\ ClockType /\ [Next]_vars => (SessionInv /\ ClockType)'
  BY PartSteps, SessionStep, ClockStep
<1>3. SessionInv => SessionTablesAgree
  BY DEF SessionInv, SessionTablesAgree
<1> QED
  BY <1>1, <1>2, <1>3, PTL DEF Spec

-----------------------------------------------------------------------------
(* ClientSession *)

Ids == Nat \cup {None}
Locals == [user : Ids, token : Ids, pair : Ids]

\* The types, and what the storage of a tab holds in between: the private
\* half is missing or belongs to the public one; an import read such a half,
\* and found none only where there is none; a renewed public half is the one
\* of the pair whose private half is about to be stored.
ClientInv ==
    /\ accounts \in Nat /\ pairs \in Nat
    /\ userId \in Ids
    /\ token \in [Tabs -> Ids]
    /\ pk \in [Tabs -> Ids]
    /\ pub \in [Tabs -> Ids]
    /\ local \in [Tabs -> Locals]
    /\ keyPair \in [Tabs -> [private : Ids, public : Ids]]
    /\ step = [t \in Tabs |-> step[t]]
    /\ \A t \in Tabs :
          /\ pk[t] \in {None, pub[t]}
          /\ step[t] = "import" => local[t].pair \in {None, pub[t]}
          /\ step[t] = "import" /\ local[t].pair = None => pk[t] = None
          /\ step[t] = "storeRenewed" => local[t].pair = pub[t]
          /\ keyPair[t].private = keyPair[t].public

LEMMA ClientInit_ == ClientInit => ClientInv
<1> SUFFICES ASSUME ClientInit PROVE ClientInv
  OBVIOUS
<1>1. NoLocal \in Locals
  BY DEF NoLocal, Locals, Ids
<1>2. NoPair \in [private : Ids, public : Ids] /\ NoPair.private = NoPair.public
  BY DEF NoPair, Ids
<1>3. 0 \in Nat /\ None \in Ids
  BY DEF Ids
<1> QED
  BY <1>1, <1>2, <1>3 DEF ClientInit, ClientInv

LEMMA Beginning ==
    ASSUME ClientInv, NEW t \in Tabs, Begin(t)
    PROVE  /\ pairs' \in Nat
           /\ local' \in [Tabs -> Locals]
           /\ \A u \in Tabs : u # t => local'[u] = local[u]
           /\ \E s \in {"refresh", "register"} : To(t, s)
<1>1. loadPersistedAuth(t) \in Locals
  BY DEF loadPersistedAuth, Locals, Ids, ClientInv
<1>2. CASE Registration(t)
  <2>1. /\ pairs' = pairs + 1 /\ pairs + 1 \in Nat
        /\ local' = [local EXCEPT ![t].pair = pairs + 1]
        /\ To(t, "register")
    BY <1>2 DEF Registration, generateKeyPair, ClientInv
  <2>2. \A v \in Ids, r \in Locals : [r EXCEPT !.pair = v] \in Locals
    BY DEF Locals
  <2>3. [local[t] EXCEPT !.pair = pairs + 1] \in Locals
    BY <2>1, <2>2 DEF ClientInv, Ids
  <2>4. local' = [local EXCEPT ![t] = [local[t] EXCEPT !.pair = pairs + 1]]
    BY <2>1
  <2> QED
    BY <2>1, <2>3, <2>4 DEF ClientInv
<1>3. CASE ~Registration(t)
  <2>1. local' = [local EXCEPT ![t] = loadPersistedAuth(t)] /\ To(t, "refresh") /\ UNCHANGED pairs
    BY <1>3 DEF Begin
  <2> QED
    BY <1>1, <2>1 DEF ClientInv
<1> QED
  BY <1>2, <1>3

LEMMA ClientStep == ClientInv /\ (ClientNext \/ UNCHANGED clientVars) => ClientInv'
<1> SUFFICES ASSUME ClientInv, ClientNext \/ UNCHANGED clientVars PROVE ClientInv'
  OBVIOUS
<1> USE ClientAssumption
<1>n. None \in Ids /\ Nat \subseteq Ids
  BY DEF Ids
<1>p. \A k \in Ids : Pair(k) \in [private : Ids, public : Ids] /\ Pair(k).private = Pair(k).public
  BY DEF Pair
<1>o. NoPair \in [private : Ids, public : Ids] /\ NoPair.private = NoPair.public
  BY <1>n DEF NoPair
<1>l. NoLocal \in Locals
  BY <1>n DEF NoLocal, Locals
<1>m. \A v \in Ids, r \in Locals : [r EXCEPT !.pair = v] \in Locals /\ [r EXCEPT !.pair = v].pair = v
  BY DEF Locals
<1>v. \A t \in Tabs : local[t] \in Locals /\ local[t].pair \in Ids
  BY DEF ClientInv, Locals
\* init starts: the storage of the tab is as it was.
<1>b. ASSUME NEW t \in Tabs, Begin(t), UNCHANGED <<userId, token, pk, pub, accounts>>,
             keyPair' \in {keyPair, [keyPair EXCEPT ![t] = NoPair]}
      PROVE  ClientInv'
  <2>1. /\ pairs' \in Nat /\ local' \in [Tabs -> Locals]
        /\ \A u \in Tabs : u # t => local'[u] = local[u]
    BY <1>b, Beginning
  <2>2. PICK w \in {"refresh", "register"} : step' = [step EXCEPT ![t] = w]
    BY <1>b, Beginning DEF To
  <2>3. /\ step' = [u \in Tabs |-> step'[u]]
        /\ step'[t] \notin {"import", "storeRenewed"}
        /\ \A u \in Tabs : u # t => step'[u] = step[u]
    BY <2>2 DEF ClientInv
  <2>4. /\ keyPair' \in [Tabs -> [private : Ids, public : Ids]]
        /\ \A u \in Tabs : keyPair'[u].private = keyPair'[u].public
    BY <1>b, <1>o DEF ClientInv
  <2>5. ASSUME NEW u \in Tabs
        PROVE  /\ pk[u] \in {None, pub[u]}
               /\ step'[u] = "import" => local'[u].pair \in {None, pub[u]}
               /\ step'[u] = "import" /\ local'[u].pair = None => pk[u] = None
               /\ step'[u] = "storeRenewed" => local'[u].pair = pub[u]
    BY <2>1, <2>3 DEF ClientInv
  <2> QED
    BY <1>b, <2>1, <2>3, <2>4, <2>5 DEF ClientInv
<1>1. ASSUME NEW t \in Tabs, LoadPage(t) PROVE ClientInv'
  BY <1>1, <1>b DEF LoadPage
<1>2. ASSUME NEW t \in Tabs, handleRetry(t) PROVE ClientInv'
  BY <1>2, <1>b DEF handleRetry
<1>3. ASSUME NEW t \in Tabs, CloseTab(t) PROVE ClientInv'
  BY <1>3, <1>n, <1>o, <1>l DEF CloseTab, To, ClientInv
<1>4. ASSUME NEW t \in Tabs, handleLogout(t) PROVE ClientInv'
  BY <1>4, <1>n, <1>o DEF handleLogout, clearPrivateKey, clearAuth, ClientInv
<1>5. ASSUME NEW t \in Tabs, Refreshed(t) PROVE ClientInv'
  <2>1. local' = [local EXCEPT ![t] = [local[t] EXCEPT !.pair = pk[t]]]
    BY <1>5 DEF Refreshed, loadPrivateKey
  <2>2. local'[t].pair = pk[t] /\ local' \in [Tabs -> Locals] /\ \A u \in Tabs : u # t => local'[u] = local[u]
    BY <2>1, <1>m, <1>v DEF ClientInv
  <2>3. userId' \in Ids /\ token' \in [Tabs -> Ids]
    BY <1>5, <1>v DEF Refreshed, setAuth, ClientInv, Locals
  <2>4. step' = [step EXCEPT ![t] = "import"] /\ UNCHANGED <<pk, pub, keyPair, accounts, pairs>>
    BY <1>5 DEF Refreshed, To
  <2> QED
    BY <2>2, <2>3, <2>4 DEF ClientInv
<1>6. ASSUME NEW t \in Tabs, RestoreKeys(t) PROVE ClientInv'
  <2>1. local[t].pair = pub[t]
    BY <1>6 DEF RestoreKeys, ClientInv
  <2>2. keyPair' = [keyPair EXCEPT ![t] = Pair(pub[t])] /\ pub[t] \in Ids
    BY <1>6, <2>1 DEF RestoreKeys, Pair, ClientInv
  <2>3. step' = [step EXCEPT ![t] = "ready"]
        /\ UNCHANGED <<userId, token, pk, pub, auth, local, accounts, pairs>>
    BY <1>6 DEF RestoreKeys, To
  <2> QED
    BY <2>2, <2>3, <1>p DEF ClientInv
<1>7. ASSUME NEW t \in Tabs, RenewKeys(t) PROVE ClientInv'
  <2>1. pk[t] = None
    BY <1>7 DEF RenewKeys, ClientInv
  <2> DEFINE k == pairs + 1
  <2>2. pairs' = k /\ k \in Nat /\ k \in Ids
    BY <1>7, <1>n DEF RenewKeys, generateKeyPair, ClientInv
  <2>3. local' = [local EXCEPT ![t] = [local[t] EXCEPT !.pair = k]]
    BY <1>7 DEF RenewKeys, generateKeyPair
  <2>4. /\ pub' = [pub EXCEPT ![t] = k]
        /\ keyPair' = [keyPair EXCEPT ![t] = Pair(k)]
        /\ step' = [step EXCEPT ![t] = "storeRenewed"]
        /\ UNCHANGED <<userId, token, pk, auth, accounts>>
    BY <1>7 DEF RenewKeys, To
  <2> HIDE DEF k
  <2>5. local'[t].pair = k /\ local' \in [Tabs -> Locals] /\ \A u \in Tabs : u # t => local'[u] = local[u]
    BY <2>2, <2>3, <1>m, <1>v DEF ClientInv
  <2> QED
    BY <2>1, <2>2, <2>4, <2>5, <1>p DEF ClientInv
<1>8. ASSUME NEW t \in Tabs, RestoreFails(t) PROVE ClientInv'
  <2> DEFINE k == pairs + 1
  <2>2. pairs' = k /\ k \in Nat /\ k \in Ids
    BY <1>8, <1>n DEF RestoreFails, Registration, generateKeyPair, ClientInv
  <2>3. local' = [local EXCEPT ![t] = [local[t] EXCEPT !.pair = k]]
    BY <1>8 DEF RestoreFails, Registration, generateKeyPair
  <2>4. /\ step' = [step EXCEPT ![t] = "register"]
        /\ UNCHANGED <<userId, token, pk, pub, auth, keyPair, accounts>>
    BY <1>8 DEF RestoreFails, Registration, To
  <2> HIDE DEF k
  <2>5. local' \in [Tabs -> Locals] /\ \A u \in Tabs : u # t => local'[u] = local[u]
    BY <2>2, <2>3, <1>m, <1>v DEF ClientInv
  <2> QED
    BY <2>2, <2>4, <2>5 DEF ClientInv
<1>9. ASSUME NEW t \in Tabs, Registered(t) PROVE ClientInv'
  <2>1. /\ accounts' \in Nat /\ userId' \in Ids /\ token' \in [Tabs -> Ids]
    BY <1>9, <1>n DEF Registered, setAuth, ClientInv
  <2>2. /\ keyPair' = [keyPair EXCEPT ![t] = Pair(local[t].pair)]
        /\ step' = [step EXCEPT ![t] = "store"]
        /\ UNCHANGED <<pk, pub, local, pairs>>
    BY <1>9 DEF Registered, To
  <2>3. /\ keyPair' \in [Tabs -> [private : Ids, public : Ids]]
        /\ \A u \in Tabs : keyPair'[u].private = keyPair'[u].public
    BY <1>p, <1>v, <2>2 DEF ClientInv
  <2> QED
    BY <2>1, <2>2, <2>3 DEF ClientInv
<1>10. ASSUME NEW t \in Tabs, RegistrationFails(t) PROVE ClientInv'
  BY <1>10 DEF RegistrationFails, To, ClientInv
<1>11. ASSUME NEW t \in Tabs, Stored(t) PROVE ClientInv'
  <2>1. pub' = [pub EXCEPT ![t] = local[t].pair]
    BY <1>11 DEF Stored, ClientInv
  <2>2. /\ pk' = [pk EXCEPT ![t] = local[t].pair]
        /\ step' = [step EXCEPT ![t] = "ready"]
        /\ UNCHANGED <<userId, token, auth, keyPair, local, accounts, pairs>>
    BY <1>11 DEF Stored, storePrivateKey, To
  <2> QED
    BY <2>1, <2>2, <1>v DEF ClientInv
<1>12. CASE UNCHANGED clientVars
  BY <1>12 DEF clientVars, ClientInv
<1> QED
  BY <1>1, <1>2, <1>3, <1>4, <1>5, <1>6, <1>7, <1>8, <1>9, <1>10, <1>11, <1>12 DEF ClientNext

\* A tab never works with halves of two key pairs, whatever reloads, failed
\* refreshes, logouts and closings fall between the two instants at which
\* the halves are stored (AnonymousLogin.tsx:69-82, 110-116,
\* settings/page.tsx:27-41).
THEOREM KeyHalves == Spec => []KeyHalvesMatch
<1>1. Init => ClientInv
  BY ClientInit_ DEF Init
<1>2. ClientInv /\ [Next]_vars => ClientInv'
  BY PartSteps, ClientStep
<1>3. ClientInv => KeyHalvesMatch
  BY DEF ClientInv, KeyHalvesMatch
<1> QED
  BY <1>1, <1>2, <1>3, PTL DEF Spec

-----------------------------------------------------------------------------
(* Presence *)

Commands == {"online", "beat", "type", "untype", "offline"} \X PresenceUsers

\* A command that sets the key of u.
Wakes(c, u) == c = <<"online", u>> \/ c = <<"beat", u>>

Quiet(u) ==
    /\ presence[u] = 0 /\ word[u] # "online"
    /\ \A i \in 1..Len(cmds) : ~Wakes(cmds[i], u)

OfflineQueued(u) ==
    \E i \in 1..Len(cmds) :
        /\ cmds[i] = <<"offline", u>>
        /\ \A k \in 1..Len(cmds) : k > i => ~Wakes(cmds[k], u)

NoneUp(u) == \A s \in Sockets : SocketUser[s] = u => conn[s] # "up"

\* A user without a connection is offline and nothing under way changes it,
\* or an offline is under way that nothing under way follows.
PresenceInv ==
    /\ conn = [s \in Sockets |-> conn[s]]
    /\ cmds \in Seq(Commands)
    /\ presence = [u \in PresenceUsers |-> presence[u]]
    /\ word = [u \in PresenceUsers |-> word[u]]
    /\ crashes \in Nat
    /\ \A u \in PresenceUsers :
          crashes = 0 /\ NoneUp(u) => Quiet(u) \/ OfflineQueued(u)

LEMMA PresenceInit_ == PresenceInit => PresenceInv
  BY DEF PresenceInit, PresenceInv, Quiet

LEMMA AppendCommand ==
    ASSUME cmds \in Seq(Commands), NEW x \in Commands, cmds' = Append(cmds, x)
    PROVE  /\ cmds' \in Seq(Commands)
           /\ Len(cmds) \in Nat /\ Len(cmds') = Len(cmds) + 1
           /\ \A i \in 1..Len(cmds) : cmds'[i] = cmds[i]
           /\ cmds'[Len(cmds')] = x
  BY SMT

\* A command of another kind or of another user changes nothing for u.
LEMMA OtherCommand ==
    ASSUME PresenceInv, NEW u \in PresenceUsers,
           NEW x \in Commands, cmds' = Append(cmds, x), ~Wakes(x, u),
           UNCHANGED <<presence, word>>,
           Quiet(u) \/ OfflineQueued(u)
    PROVE  Quiet(u)' \/ OfflineQueued(u)'
<1>1. /\ Len(cmds) \in Nat /\ Len(cmds') = Len(cmds) + 1
      /\ \A i \in 1..Len(cmds) : cmds'[i] = cmds[i]
      /\ cmds'[Len(cmds')] = x
  BY AppendCommand DEF PresenceInv
<1>2. \A i \in 1..Len(cmds') : i \in 1..Len(cmds) \/ i = Len(cmds')
  BY <1>1
<1>3. \A i \in 1..Len(cmds) : i \in 1..Len(cmds')
  BY <1>1
<1>4. CASE Quiet(u)
  <2>1. \A i \in 1..Len(cmds') : ~Wakes(cmds'[i], u)
    BY <1>1, <1>2, <1>4 DEF Quiet
  <2> QED
    BY <1>4, <2>1 DEF Quiet, Wakes
<1>5. CASE OfflineQueued(u)
  <2>1. PICK i \in 1..Len(cmds) :
           /\ cmds[i] = <<"offline", u>>
           /\ \A k \in 1..Len(cmds) : k > i => ~Wakes(cmds[k], u)
    BY <1>5 DEF OfflineQueued
  <2>2. \A k \in 1..Len(cmds') : k > i => ~Wakes(cmds'[k], u)
    BY <1>1, <1>2, <2>1
  <2>3. i \in 1..Len(cmds') /\ cmds'[i] = <<"offline", u>>
    BY <1>1, <1>3, <2>1
  <2> QED
    BY <2>2, <2>3 DEF OfflineQueued, Wakes
<1> QED
  BY <1>4, <1>5

LEMMA Answering ==
    ASSUME PresenceInv, Answer, NEW u \in PresenceUsers, Quiet(u) \/ OfflineQueued(u)
    PROVE  Quiet(u)' \/ OfflineQueued(u)'
<1> DEFINE c == Head(cmds)[1]
           v == Head(cmds)[2]
<1>1. /\ cmds # <<>> /\ cmds \in Seq(Commands) /\ cmds' = Tail(cmds)
  BY DEF Answer, PresenceInv
<1>2. /\ Len(cmds) \in Nat \ {0}
      /\ Len(cmds') = Len(cmds) - 1
      /\ \A i \in 1..Len(cmds') : i + 1 \in 1..Len(cmds) /\ cmds'[i] = cmds[i + 1]
      /\ Head(cmds) = cmds[1] /\ 1 \in 1..Len(cmds)
  BY <1>1
<1>3. cmds[1] = <<c, v>>
  <2>1. cmds[1] \in Commands
    BY <1>1, <1>2
  <2> QED
    BY <1>2, <2>1 DEF Commands
<1>4. presence'[u] = IF u = v THEN (CASE c \in {"online", "beat"} -> now + PresenceTTL
                                      [] c = "offline" -> 0
                                      [] OTHER -> presence[u])
                     ELSE presence[u]
  <2>1. presence' = [presence EXCEPT ![v] = CASE c \in {"online", "beat"} -> now + PresenceTTL
                                              [] c = "offline" -> 0
                                              [] OTHER -> @]
    BY Zenon DEF Answer
  <2> HIDE DEF c, v
  <2>2. u \in DOMAIN presence
    BY DEF PresenceInv
  <2> QED
    BY <2>1, <2>2
<1>5. word'[u] = IF u = v /\ c \in {"online", "offline"} THEN c ELSE word[u]
  <2>1. word' = [word EXCEPT ![v] = IF c \in {"online", "offline"} THEN c ELSE @]
    BY Zenon DEF Answer
  <2> HIDE DEF c, v
  <2>2. u \in DOMAIN word
    BY DEF PresenceInv
  <2> QED
    BY <2>1, <2>2
<1> HIDE DEF c, v
<1>6. CASE Quiet(u)
  <2>1. \A i \in 1..Len(cmds') : ~Wakes(cmds'[i], u)
    BY <1>2, <1>6 DEF Quiet
  <2>2. ~(u = v /\ c \in {"online", "beat"})
    BY <1>2, <1>3, <1>6 DEF Quiet, Wakes
  <2>3. presence'[u] = 0 /\ word'[u] # "online"
    BY <1>4, <1>5, <1>6, <2>2 DEF Quiet
  <2> QED
    BY <2>1, <2>3 DEF Quiet, Wakes
<1>7. CASE OfflineQueued(u)
  <2>1. PICK i \in 1..Len(cmds) :
           /\ cmds[i] = <<"offline", u>>
           /\ \A k \in 1..Len(cmds) : k > i => ~Wakes(cmds[k], u)
    BY <1>7 DEF OfflineQueued
  <2>2. CASE i = 1
    <3>1. u = v /\ c = "offline"
      BY <1>3, <2>1, <2>2
    <3>2. presence'[u] = 0 /\ word'[u] # "online"
      BY <1>4, <1>5, <3>1
    <3>3. \A k \in 1..Len(cmds') : ~Wakes(cmds'[k], u)
      BY <1>2, <2>1, <2>2
    <3> QED
      BY <3>2, <3>3 DEF Quiet, Wakes
  <2>3. CASE i # 1
    <3>1. i - 1 \in 1..Len(cmds') /\ (i - 1) + 1 = i
      BY <1>2, <2>3
    <3>2. cmds'[i - 1] = <<"offline", u>>
      BY <1>2, <2>1, <3>1
    <3>3. \A k \in 1..Len(cmds') : k > i - 1 => ~Wakes(cmds'[k], u)
      BY <1>2, <2>1, <3>1
    <3> QED
      BY <3>1, <3>2, <3>3 DEF OfflineQueued, Wakes
  <2> QED
    BY <2>2, <2>3
<1> QED
  BY <1>6, <1>7

LEMMA PresenceStep == PresenceInv /\ (PresenceNext \/ UNCHANGED presenceVars) => PresenceInv'
<1> SUFFICES ASSUME PresenceInv, PresenceNext \/ UNCHANGED presenceVars PROVE PresenceInv'
  OBVIOUS
<1>u. \A s \in Sockets : SocketUser[s] \in PresenceUsers
  BY DEF PresenceUsers
\* A command is issued for a socket that is up, or goes up or down.
<1>i. ASSUME NEW s \in Sockets, NEW c \in {"online", "beat", "type", "untype", "offline"},
             Issue(c, SocketUser[s]),
             \/ c # "offline" /\ conn'[s] = "up"
             \/ c = "offline",
             conn' = [r \in Sockets |-> conn'[r]],
             \A r \in Sockets : r # s => conn'[r] = conn[r],
             UNCHANGED <<presence, word, crashes>>
      PROVE  PresenceInv'
  <2> DEFINE x == <<c, SocketUser[s]>>
  <2>1. x \in Commands /\ cmds' = Append(cmds, x)
    BY <1>i, <1>u DEF Issue, Commands
  <2>2. cmds' \in Seq(Commands)
    BY <2>1 DEF PresenceInv
  <2>3. ASSUME NEW u \in PresenceUsers, crashes = 0, NoneUp(u)' PROVE Quiet(u)' \/ OfflineQueued(u)'
    <3>1. CASE u # SocketUser[s]
      <4>1. NoneUp(u)
        BY <1>i, <2>3, <3>1 DEF NoneUp
      <4>2. ~Wakes(x, u)
        BY <3>1 DEF Wakes
      <4>3. Quiet(u) \/ OfflineQueued(u)
        BY <2>3, <4>1 DEF PresenceInv
      <4> HIDE DEF x
      <4> QED
        BY <1>i, <2>1, <4>2, <4>3, OtherCommand
    <3>2. CASE u = SocketUser[s]
      <4>1. c = "offline"
        BY <1>i, <2>3, <3>2 DEF NoneUp
      <4>2. Len(cmds') \in Nat \ {0} /\ cmds'[Len(cmds')] = <<"offline", u>>
        BY <2>1, <3>2, <4>1, AppendCommand DEF PresenceInv
      <4>3. Len(cmds') \in 1..Len(cmds') /\ \A k \in 1..Len(cmds') : ~(k > Len(cmds'))
        BY <4>2
      <4> QED
        BY <4>2, <4>3 DEF OfflineQueued, Wakes
    <3> QED
      BY <3>1, <3>2
  <2> QED
    BY <1>i, <2>2, <2>3 DEF PresenceInv
<1>1. ASSUME NEW s \in Sockets, PresenceConnect(s) PROVE PresenceInv'
  <2>1. conn'[s] = "up" /\ conn' = [r \in Sockets |-> conn'[r]]
        /\ \A r \in Sockets : r # s => conn'[r] = conn[r]
    BY <1>1 DEF PresenceConnect, PresenceInv
  <2> QED
    BY <1>1, <1>i, <2>1 DEF PresenceConnect
<1>2. ASSUME NEW s \in Sockets, PresenceDisconnect(s) PROVE PresenceInv'
  <2>1. conn' = [r \in Sockets |-> conn'[r]] /\ \A r \in Sockets : r # s => conn'[r] = conn[r]
    BY <1>2 DEF PresenceDisconnect, PresenceInv
  <2> QED
    BY <1>2, <1>i, <2>1 DEF PresenceDisconnect
<1>3. ASSUME NEW s \in Sockets, Heartbeat(s) PROVE PresenceInv'
  <2>1. conn'[s] = "up" /\ conn' = [r \in Sockets |-> conn'[r]] /\ conn' = conn
    BY <1>3 DEF Heartbeat, Received, PresenceInv
  <2> QED
    BY <1>3, <1>i, <2>1 DEF Heartbeat
<1>4. ASSUME NEW s \in Sockets, TypingStart(s) PROVE PresenceInv'
  <2>1. conn'[s] = "up" /\ conn' = [r \in Sockets |-> conn'[r]] /\ conn' = conn
    BY <1>4 DEF TypingStart, Received, PresenceInv
  <2> QED
    BY <1>4, <1>i, <2>1 DEF TypingStart
<1>5. ASSUME NEW s \in Sockets, TypingStop(s) PROVE PresenceInv'
  <2>1. conn'[s] = "up" /\ conn' = [r \in Sockets |-> conn'[r]] /\ conn' = conn
    BY <1>5 DEF TypingStop, Received, PresenceInv
  <2> QED
    BY <1>5, <1>i, <2>1 DEF TypingStop
<1>6. CASE Answer
  <2>1. cmds' \in Seq(Commands)
    BY <1>6 DEF Answer, PresenceInv
  <2>2. /\ presence' = [u \in PresenceUsers |-> presence'[u]]
        /\ word' = [u \in PresenceUsers |-> word'[u]]
    <3>1. PICK e, w, v : presence' = [presence EXCEPT ![v] = e] /\ word' = [word EXCEPT ![v] = w]
      BY <1>6, Zenon DEF Answer
    <3> QED
      BY <3>1 DEF PresenceInv
  <2>3. UNCHANGED <<conn, crashes>>
    BY <1>6, Zenon DEF Answer
  <2>4. ASSUME NEW u \in PresenceUsers, crashes = 0, NoneUp(u) PROVE Quiet(u)' \/ OfflineQueued(u)'
    BY <1>6, <2>4, Answering DEF PresenceInv
  <2> QED
    BY <2>1, <2>2, <2>3, <2>4 DEF PresenceInv, NoneUp
<1>7. CASE RedisFails
  BY <1>7 DEF RedisFails, PresenceInv
<1>8. CASE ExpireKeys
  <2>1. /\ presence' = [u \in PresenceUsers |-> presence'[u]]
        /\ \A u \in PresenceUsers : presence[u] = 0 => presence'[u] = 0
        /\ UNCHANGED <<conn, cmds, word, crashes>>
    BY <1>8 DEF ExpireKeys, Unexpired
  <2>2. \A u \in PresenceUsers : Quiet(u) \/ OfflineQueued(u) => Quiet(u)' \/ OfflineQueued(u)'
    BY <2>1 DEF Quiet, OfflineQueued, Wakes
  <2> QED
    BY <2>1, <2>2 DEF PresenceInv, NoneUp
<1>9. CASE UNCHANGED presenceVars
  BY <1>9 DEF presenceVars, PresenceInv, NoneUp, Quiet, OfflineQueued, Wakes
<1> QED
  BY <1>1, <1>2, <1>3, <1>4, <1>5, <1>6, <1>7, <1>8, <1>9 DEF PresenceNext

\* However the connections, heartbeats and disconnects of a user cross on the
\* way to Redis, the user ends up offline once the last connection is gone
\* and Redis has answered, unless a process died (presence.ts:20-32, 68-75).
THEOREM OfflineAtLast == Spec => []OfflineInTheEnd
<1>1. Init => PresenceInv
  BY PresenceInit_ DEF Init
<1>2. PresenceInv /\ [Next]_vars => PresenceInv'
  BY PartSteps, PresenceStep
<1>3. PresenceInv => OfflineInTheEnd
  BY DEF PresenceInv, OfflineInTheEnd, NoneUp, Quiet, OfflineQueued
<1> QED
  BY <1>1, <1>2, <1>3, PTL DEF Spec

-----------------------------------------------------------------------------
(* RateLimits *)

\* The hits among P at the instants a to b.
Between(P, a, b) == {i \in 1..Len(P) : a <= P[i] /\ P[i] <= b}

LEMMA BetweenFinite ==
    ASSUME NEW P \in Seq(Nat), NEW a, NEW b
    PROVE  IsFiniteSet(Between(P, a, b)) /\ Cardinality(Between(P, a, b)) \in Nat
<1>1. Len(P) \in Nat
  OBVIOUS
<1>2. IsFiniteSet(1..Len(P))
  BY <1>1, FS_Interval
<1>3. Between(P, a, b) \subseteq 1..Len(P)
  BY DEF Between
<1> QED
  BY <1>2, <1>3, FS_Subset, FS_CardinalityType

LEMMA BetweenWithin ==
    ASSUME NEW P \in Seq(Nat), NEW a \in Int, NEW b \in Int, NEW c \in Int, NEW d \in Int,
           \A i \in 1..Len(P) : a <= P[i] /\ P[i] <= b => c <= P[i] /\ P[i] <= d
    PROVE  Cardinality(Between(P, a, b)) <= Cardinality(Between(P, c, d))
<1>1. Between(P, a, b) \subseteq Between(P, c, d)
  BY DEF Between
<1> QED
  BY <1>1, BetweenFinite, FS_Subset

LEMMA BetweenNone ==
    ASSUME NEW P \in Seq(Nat), NEW a \in Int, NEW b \in Int,
           \A i \in 1..Len(P) : ~(a <= P[i] /\ P[i] <= b)
    PROVE  Cardinality(Between(P, a, b)) = 0
<1>1. Between(P, a, b) = {}
  BY DEF Between
<1> QED
  BY <1>1, FS_EmptySet

LEMMA BetweenSplit ==
    ASSUME NEW P \in Seq(Nat), NEW a \in Int, NEW b \in Int, NEW c \in Int
    PROVE  Cardinality(Between(P, a, c)) <= Cardinality(Between(P, a, b - 1)) + Cardinality(Between(P, b, c))
<1> DEFINE S == Between(P, a, b - 1)
           T == Between(P, b, c)
           U == Between(P, a, c)
<1>1. U \subseteq S \cup T
  <2>1. \A i \in 1..Len(P) : P[i] \in Nat
    OBVIOUS
  <2> QED
    BY <2>1 DEF Between
<1>2. IsFiniteSet(S) /\ IsFiniteSet(T) /\ Cardinality(S) \in Nat /\ Cardinality(T) \in Nat
      /\ Cardinality(U) \in Nat
  BY BetweenFinite
<1> HIDE DEF S, T, U
<1>3. /\ IsFiniteSet(S \cup T)
      /\ Cardinality(S \cup T) = Cardinality(S) + Cardinality(T) - Cardinality(S \cap T)
  BY <1>2, FS_Union
<1>4. Cardinality(S \cap T) \in Nat
  <2>1. IsFiniteSet(S \cap T)
    BY <1>2, FS_Subset
  <2> QED
    BY <2>1, FS_CardinalityType
<1>5. Cardinality(U) <= Cardinality(S \cup T)
  BY <1>1, <1>3, FS_Subset
<1>6. Cardinality(U) <= Cardinality(S) + Cardinality(T)
  BY <1>2, <1>3, <1>4, <1>5
<1> QED
  BY <1>6 DEF S, T, U

LEMMA BetweenAppend ==
    ASSUME NEW P \in Seq(Nat), NEW n \in Nat, NEW a \in Int, NEW b \in Int
    PROVE  /\ Append(P, n) \in Seq(Nat)
           /\ Cardinality(Between(Append(P, n), a, b)) <= Cardinality(Between(P, a, b)) + 1
           /\ n < a \/ b < n => Between(Append(P, n), a, b) = Between(P, a, b)
<1> DEFINE Q == Append(P, n)
           m == Len(P) + 1
<1>1. /\ Q \in Seq(Nat) /\ Len(Q) = m /\ Len(P) \in Nat
      /\ Q[m] = n /\ \A i \in 1..Len(P) : Q[i] = P[i]
  OBVIOUS
<1>2. 1..Len(Q) = (1..Len(P)) \cup {m} /\ m \notin 1..Len(P)
  BY <1>1
<1> HIDE DEF Q, m
<1>3. Between(Q, a, b) \subseteq Between(P, a, b) \cup {m}
  BY <1>1, <1>2 DEF Between
<1>4. n < a \/ b < n => Between(Q, a, b) = Between(P, a, b)
  BY <1>1, <1>2 DEF Between
<1>5. Cardinality(Between(Q, a, b)) <= Cardinality(Between(P, a, b)) + 1
  <2> DEFINE S == Between(P, a, b)
             T == Between(Q, a, b)
  <2>1. IsFiniteSet(S) /\ Cardinality(S) \in Nat /\ Cardinality(T) \in Nat
    BY <1>1, BetweenFinite
  <2>2. T \subseteq S \cup {m}
    BY <1>3
  <2> HIDE DEF S, T
  <2>3. IsFiniteSet(S \cup {m}) /\ Cardinality(S \cup {m}) \in {Cardinality(S), Cardinality(S) + 1}
    BY <2>1, FS_AddElement
  <2>4. Cardinality(T) <= Cardinality(S \cup {m})
    BY <2>2, <2>3, FS_Subset
  <2>5. Cardinality(T) <= Cardinality(S) + 1
    BY <2>1, <2>3, <2>4
  <2> QED
    BY <2>5 DEF S, T
<1> QED
  BY <1>1, <1>4, <1>5 DEF Q

\* The hits with or without one more.
LEMMA MaybeAppended ==
    ASSUME NEW P \in Seq(Nat), NEW n \in Nat, NEW Q, Q = P \/ Q = Append(P, n)
    PROVE  /\ Q \in Seq(Nat)
           /\ \A i \in 1..Len(Q) : Q[i] = n \/ (i \in 1..Len(P) /\ Q[i] = P[i])
           /\ \A a, b \in Int : n < a \/ b < n => Between(Q, a, b) = Between(P, a, b)
<1>1. CASE Q = P
  BY <1>1
<1>2. CASE Q = Append(P, n)
  <2>1. \A i \in 1..Len(Q) : Q[i] = n \/ (i \in 1..Len(P) /\ Q[i] = P[i])
    BY <1>2
  <2> QED
    BY <1>2, <2>1, BetweenAppend
<1> QED
  BY <1>1, <1>2

LEMMA HitsAreTimes ==
    ASSUME NEW P \in Seq(Nat)
    PROVE  \A i \in 1..Len(P) : P[i] \in Nat
  OBVIOUS

Entries == [count : Nat, start : Nat]

\* What a window of length W with the limit L knows of the hits P that passed
\* until n, when its entry is e: without an entry they are longer ago than a
\* window; with one, those since its start are at most its count and at most
\* the limit, and so are those of the length of a window before.
Windowed(P, e, n, W, L) ==
    /\ P \in Seq(Nat)
    /\ \A i \in 1..Len(P) : P[i] <= n
    /\ e = NoEntry => \A i \in 1..Len(P) : P[i] + W < n
    /\ e # NoEntry =>
         /\ e \in Entries /\ e.start <= n
         /\ \A i \in 1..Len(P) : P[i] <= e.start + W
         /\ Cardinality(Between(P, e.start, e.start + W)) <= e.count
         /\ Cardinality(Between(P, e.start, e.start + W)) <= L
         /\ Cardinality(Between(P, e.start - W, e.start - 1)) <= L
    /\ \A t \in Nat : Cardinality(Between(P, t - W, t)) <= 2 * L

\* The hits of an interval that ends after the start of a window.
LEMMA TwoWindows ==
    ASSUME NEW P \in Seq(Nat), NEW W \in Nat, NEW L \in Nat, NEW s \in Nat, NEW t \in Nat,
           s <= t,
           \A i \in 1..Len(P) : P[i] <= s + W,
           Cardinality(Between(P, s, s + W)) <= L,
           Cardinality(Between(P, s - W, s - 1)) <= L
    PROVE  Cardinality(Between(P, t - W, t)) <= 2 * L
<1>1. \A i \in 1..Len(P) : P[i] \in Nat
  OBVIOUS
<1>2. Cardinality(Between(P, t - W, t)) <= Cardinality(Between(P, s - W, s + W))
  <2>1. \A i \in 1..Len(P) : t - W <= P[i] /\ P[i] <= t => s - W <= P[i] /\ P[i] <= s + W
    BY <1>1
  <2> QED
    BY <2>1, BetweenWithin
<1>3. Cardinality(Between(P, s - W, s + W))
        <= Cardinality(Between(P, s - W, s - 1)) + Cardinality(Between(P, s, s + W))
  BY BetweenSplit
<1>4. /\ Cardinality(Between(P, t - W, t)) \in Nat
      /\ Cardinality(Between(P, s - W, s + W)) \in Nat
      /\ Cardinality(Between(P, s - W, s - 1)) \in Nat
      /\ Cardinality(Between(P, s, s + W)) \in Nat
  BY BetweenFinite
<1> QED
  BY <1>2, <1>3, <1>4

\* A hit at n starts a window; Q are the hits with or without it.
LEMMA WindowStarts ==
    ASSUME NEW P, NEW e, NEW n \in Nat, NEW W \in Nat, NEW L \in Nat \ {0},
           Windowed(P, e, n, W, L),
           e # NoEntry => n - e.start > W,
           NEW Q, Q = P \/ Q = Append(P, n), NEW f,
           f = [count |-> 1, start |-> n], f # NoEntry
    PROVE  Windowed(Q, f, n, W, L)
<1>p. P \in Seq(Nat) /\ \A i \in 1..Len(P) : P[i] \in Nat
  <2>1. P \in Seq(Nat)
    BY Zenon DEF Windowed
  <2> QED
    BY <2>1, HitsAreTimes
<1>1. /\ Q \in Seq(Nat)
      /\ \A i \in 1..Len(Q) : Q[i] = n \/ (i \in 1..Len(P) /\ Q[i] = P[i])
      /\ \A a, b \in Int : n < a \/ b < n => Between(Q, a, b) = Between(P, a, b)
  <2>1. P \in Seq(Nat) /\ n \in Nat /\ (Q = P \/ Q = Append(P, n))
    BY <1>p
  <2> QED
    BY ONLY <2>1, MaybeAppended
<1>f. f \in Entries /\ f.start = n /\ f.count = 1
  BY DEF Entries
<1>2. \A i \in 1..Len(P) : P[i] < n
  <2>1. CASE e = NoEntry
    <3>1. \A i \in 1..Len(P) : P[i] + W < n
      BY <2>1, Zenon DEF Windowed
    <3> QED
      BY <1>p, <3>1
  <2>2. CASE e # NoEntry
    <3>1. e.start \in Nat /\ \A i \in 1..Len(P) : P[i] <= e.start + W
      BY <2>2 DEF Windowed, Entries
    <3> QED
      BY <1>p, <2>2, <3>1
  <2> QED
    BY <2>1, <2>2
<1>3. ASSUME NEW i \in 1..Len(Q) PROVE Q[i] <= n /\ Q[i] <= n + W
  <2>1. CASE Q[i] = n
    BY <2>1
  <2>2. CASE i \in 1..Len(P) /\ Q[i] = P[i]
    <3>1. P[i] \in Nat /\ P[i] < n
      BY <1>p, <1>2, <2>2
    <3> QED
      BY <2>2, <3>1
  <2> QED
    BY <1>1, <2>1, <2>2
<1>4. Cardinality(Between(P, n, n + W)) = 0
  BY <1>p, <1>2, BetweenNone
<1>5. Cardinality(Between(Q, n, n + W)) <= 1
  <2>1. CASE Q = P
    BY <1>4, <2>1
  <2>2. CASE Q = Append(P, n)
    <3>1. Cardinality(Between(Append(P, n), n, n + W)) <= Cardinality(Between(P, n, n + W)) + 1
      BY <1>p, BetweenAppend
    <3> QED
      BY <1>4, <2>2, <3>1
  <2> QED
    BY <2>1, <2>2
<1>6. Cardinality(Between(P, n - W, n - 1)) <= L
  <2>1. CASE e = NoEntry
    <3>0. \A i \in 1..Len(P) : P[i] + W < n
      BY <2>1, Zenon DEF Windowed
    <3>1. \A i \in 1..Len(P) : ~(n - W <= P[i] /\ P[i] <= n - 1)
      BY <1>p, <3>0
    <3>2. Cardinality(Between(P, n - W, n - 1)) = 0
      <4> DEFINE a == n - W
                 b == n - 1
      <4>1. a \in Int /\ b \in Int
        OBVIOUS
      <4>2. \A i \in 1..Len(P) : ~(a <= P[i] /\ P[i] <= b)
        BY <3>1
      <4> HIDE DEF a, b
      <4>3. Cardinality(Between(P, a, b)) = 0
        BY <1>p, <4>1, <4>2, BetweenNone
      <4> QED
        BY <4>3 DEF a, b
    <3> QED
      BY <3>2
  <2>2. CASE e # NoEntry
    <3>1. /\ e.start \in Nat /\ n - e.start > W
          /\ \A i \in 1..Len(P) : P[i] <= e.start + W
          /\ Cardinality(Between(P, e.start, e.start + W)) <= L
      BY <2>2 DEF Windowed, Entries
    <3>2. \A i \in 1..Len(P) : n - W <= P[i] /\ P[i] <= n - 1 => e.start <= P[i] /\ P[i] <= e.start + W
      BY <1>p, <3>1
    <3>3. Cardinality(Between(P, n - W, n - 1)) <= Cardinality(Between(P, e.start, e.start + W))
      <4> DEFINE a == n - W
                 b == n - 1
                 c == e.start
                 d == e.start + W
      <4>1. a \in Int /\ b \in Int /\ c \in Int /\ d \in Int
        BY <3>1
      <4>2. \A i \in 1..Len(P) : a <= P[i] /\ P[i] <= b => c <= P[i] /\ P[i] <= d
        BY <3>2
      <4> HIDE DEF a, b, c, d
      <4>3. Cardinality(Between(P, a, b)) <= Cardinality(Between(P, c, d))
        BY <1>p, <4>1, <4>2, BetweenWithin
      <4> QED
        BY <4>3 DEF a, b, c, d
    <3>4. /\ Cardinality(Between(P, n - W, n - 1)) \in Nat
          /\ Cardinality(Between(P, e.start, e.start + W)) \in Nat
      BY <1>p, BetweenFinite
    <3> QED
      BY <3>1, <3>3, <3>4
  <2> QED
    BY <2>1, <2>2
<1>7. Cardinality(Between(Q, n - W, n - 1)) <= L
  <2>1. Between(Q, n - W, n - 1) = Between(P, n - W, n - 1)
    BY <1>1
  <2> QED
    BY <1>6, <2>1
<1>8. Cardinality(Between(Q, n, n + W)) <= L
  BY <1>1, <1>5, BetweenFinite
<1>9. ASSUME NEW t \in Nat PROVE Cardinality(Between(Q, t - W, t)) <= 2 * L
  <2>1. CASE n <= t
    BY <1>1, <1>3, <1>7, <1>8, <2>1, TwoWindows
  <2>2. CASE t < n
    <3>1. Between(Q, t - W, t) = Between(P, t - W, t)
      BY <1>1, <2>2
    <3>2. Cardinality(Between(P, t - W, t)) <= 2 * L
      BY DEF Windowed
    <3> QED
      BY <3>1, <3>2
  <2> QED
    BY <2>1, <2>2
<1> QED
  BY <1>1, <1>f, <1>3, <1>5, <1>7, <1>8, <1>9 DEF Windowed

\* A hit within a window counts, and passes or not.
LEMMA WindowCounts ==
    ASSUME NEW P, NEW e, NEW n \in Nat, NEW W \in Nat, NEW L \in Nat \ {0},
           Windowed(P, e, n, W, L),
           e # NoEntry, ~(n - e.start > W),
           NEW Q, Q = P \/ (Q = Append(P, n) /\ e.count + 1 <= L),
           NEW f, f = [e EXCEPT !.count = @ + 1], f # NoEntry
    PROVE  Windowed(Q, f, n, W, L)
<1>p. P \in Seq(Nat) /\ \A i \in 1..Len(P) : P[i] \in Nat
  <2>1. P \in Seq(Nat)
    BY Zenon DEF Windowed
  <2> QED
    BY <2>1, HitsAreTimes
<1>1. /\ Q \in Seq(Nat)
      /\ \A i \in 1..Len(Q) : Q[i] = n \/ (i \in 1..Len(P) /\ Q[i] = P[i])
      /\ \A a, b \in Int : n < a \/ b < n => Between(Q, a, b) = Between(P, a, b)
  <2>1. P \in Seq(Nat) /\ n \in Nat /\ (Q = P \/ Q = Append(P, n))
    BY <1>p
  <2> QED
    BY ONLY <2>1, MaybeAppended
<1> DEFINE s == e.start
           c == e.count
<1>e. /\ s \in Nat /\ c \in Nat /\ s <= n /\ n <= s + W
      /\ \A i \in 1..Len(P) : P[i] <= n /\ P[i] <= s + W
      /\ Cardinality(Between(P, s, s + W)) <= c
      /\ Cardinality(Between(P, s, s + W)) <= L
      /\ Cardinality(Between(P, s - W, s - 1)) <= L
  <2>1. e \in Entries /\ s <= n
    BY Zenon DEF Windowed
  <2>2. /\ \A i \in 1..Len(P) : P[i] <= n /\ P[i] <= s + W
        /\ Cardinality(Between(P, s, s + W)) <= c
        /\ Cardinality(Between(P, s, s + W)) <= L
        /\ Cardinality(Between(P, s - W, s - 1)) <= L
    BY Zenon DEF Windowed
  <2>3. s \in Nat /\ c \in Nat
    BY <2>1 DEF Entries
  <2>4. n <= s + W
    BY <2>3
  <2> QED
    BY <2>1, <2>2, <2>3, <2>4, Zenon
<1>f. f \in Entries /\ f.start = s /\ f.count = c + 1
  <2>1. e \in Entries
    BY Zenon DEF Windowed
  <2> QED
    BY <2>1 DEF Entries
<1> HIDE DEF s, c
<1>3. ASSUME NEW i \in 1..Len(Q) PROVE Q[i] <= n /\ Q[i] <= s + W
  <2>1. CASE Q[i] = n
    BY <1>e, <2>1
  <2>2. CASE i \in 1..Len(P) /\ Q[i] = P[i]
    <3>1. P[i] \in Nat /\ P[i] <= n /\ P[i] <= s + W
      BY <1>p, <1>e, <2>2
    <3> QED
      BY <2>2, <3>1
  <2> QED
    BY <1>1, <2>1, <2>2
<1>n. /\ Cardinality(Between(P, s, s + W)) \in Nat
      /\ Cardinality(Between(Q, s, s + W)) \in Nat
  BY <1>p, <1>1, BetweenFinite
<1>5. Cardinality(Between(Q, s, s + W)) <= c + 1 /\ Cardinality(Between(Q, s, s + W)) <= L
  <2>1. CASE Q = P
    BY <1>e, <1>n, <2>1
  <2>2. CASE Q = Append(P, n) /\ c + 1 <= L
    <3>1. Cardinality(Between(Append(P, n), s, s + W)) <= Cardinality(Between(P, s, s + W)) + 1
      BY <1>p, <1>e, BetweenAppend
    <3>2. Cardinality(Between(Q, s, s + W)) <= Cardinality(Between(P, s, s + W)) + 1
      BY <2>2, <3>1
    <3> QED
      BY <1>e, <1>n, <2>2, <3>2
  <2> QED
    BY <2>1, <2>2 DEF c
<1>7. Cardinality(Between(Q, s - W, s - 1)) <= L
  <2>1. Between(Q, s - W, s - 1) = Between(P, s - W, s - 1)
    <3>1. s - W \in Int /\ s - 1 \in Int /\ s - 1 < n
      BY <1>e
    <3> QED
      BY ONLY <1>1, <3>1
  <2> QED
    BY <1>e, <2>1
<1>9. ASSUME NEW t \in Nat PROVE Cardinality(Between(Q, t - W, t)) <= 2 * L
  <2>1. CASE s <= t
    BY <1>1, <1>e, <1>3, <1>5, <1>7, <2>1, TwoWindows
  <2>2. CASE t < s
    <3>1. Between(Q, t - W, t) = Between(P, t - W, t)
      <4>1. t - W \in Int /\ t \in Int /\ t < n
        BY <1>e, <2>2
      <4> QED
        BY ONLY <1>1, <4>1
    <3>2. Cardinality(Between(P, t - W, t)) <= 2 * L
      BY DEF Windowed
    <3> QED
      BY <3>1, <3>2
  <2> QED
    BY <1>e, <2>1, <2>2
<1> QED
  BY <1>1, <1>e, <1>f, <1>3, <1>5, <1>7, <1>9 DEF Windowed

\* The cleanup drops an entry only when its hits have left every window.
LEMMA WindowDropped ==
    ASSUME NEW P, NEW e, NEW n \in Nat, NEW W \in Nat, NEW L \in Nat \ {0},
           Windowed(P, e, n, W, L),
           e # NoEntry, n - e.start > 2 * W
    PROVE  Windowed(P, NoEntry, n, W, L)
<1>1. P \in Seq(Nat) /\ \A i \in 1..Len(P) : P[i] \in Nat
  <2>1. P \in Seq(Nat)
    BY Zenon DEF Windowed
  <2> QED
    BY <2>1, HitsAreTimes
<1>2. e.start \in Nat
  BY DEF Windowed, Entries
<1>3. \A i \in 1..Len(P) : P[i] + W < n
  <2>1. \A i \in 1..Len(P) : P[i] <= e.start + W
    BY Zenon DEF Windowed
  <2> DEFINE s == e.start
  <2>2. s \in Nat /\ n - s > 2 * W /\ \A i \in 1..Len(P) : P[i] <= s + W
    BY <1>2, <2>1
  <2> HIDE DEF s
  <2> QED
    BY <1>1, <2>2
<1> QED
  BY <1>3, Zenon DEF Windowed

LEMMA WindowLater ==
    ASSUME NEW P, NEW e, NEW n \in Nat, NEW W \in Nat, NEW L \in Nat \ {0},
           Windowed(P, e, n, W, L)
    PROVE  Windowed(P, e, n + 1, W, L)
<1>1. P \in Seq(Nat) /\ \A i \in 1..Len(P) : P[i] \in Nat
  <2>1. P \in Seq(Nat)
    BY Zenon DEF Windowed
  <2> QED
    BY <2>1, HitsAreTimes
<1>2. \A i \in 1..Len(P) : P[i] <= n + 1
  <2>1. \A i \in 1..Len(P) : P[i] <= n
    BY Zenon DEF Windowed
  <2> QED
    BY <1>1, <2>1
<1>3. ASSUME e = NoEntry PROVE \A i \in 1..Len(P) : P[i] + W < n + 1
  <2>1. \A i \in 1..Len(P) : P[i] + W < n
    BY <1>3, Zenon DEF Windowed
  <2> QED
    BY <1>1, <2>1
<1>4. e # NoEntry => e.start <= n + 1
  BY DEF Windowed, Entries
<1> QED
  BY <1>2, <1>3, <1>4, Zenon DEF Windowed

\* Both limiters that let callers pass, the second by address.
LimitInv ==
    /\ entry \in [Limiters -> [Keys -> Entries \cup {NoEntry}]]
    /\ passed \in [Limiters -> [Callers -> Seq(Nat)]]
    /\ \A u \in Callers :
         /\ Windowed(passed["socket"][u], entry["socket"][u], now, Window["socket"], Limit["socket"])
         /\ Windowed(passed["edge"][u], entry["edge"][Address[u]], now, Window["edge"], Limit["edge"])

LEMMA LimitInit_ == LimitInit /\ ClockInit => LimitInv
<1> SUFFICES ASSUME LimitInit, ClockInit PROVE LimitInv
  OBVIOUS
<1>1. entry \in [Limiters -> [Keys -> Entries \cup {NoEntry}]]
  BY DEF LimitInit
<1>2. passed \in [Limiters -> [Callers -> Seq(Nat)]]
  BY DEF LimitInit
<1>3. ASSUME NEW W \in Nat, NEW L \in Nat \ {0} PROVE Windowed(<<>>, NoEntry, now, W, L)
  <2>1. <<>> \in Seq(Nat) /\ \A i \in 1..Len(<<>>) : FALSE
    OBVIOUS
  <2>2. ASSUME NEW t \in Nat PROVE Cardinality(Between(<<>>, t - W, t)) <= 2 * L
    <3>1. Between(<<>>, t - W, t) = {}
      BY <2>1 DEF Between
    <3>2. Cardinality(Between(<<>>, t - W, t)) = 0
      BY <3>1, FS_EmptySet, Zenon
    <3> QED
      BY <3>2
  <2> QED
    BY <2>1, <2>2, Zenon DEF Windowed
<1>4. ASSUME NEW l \in Limiters PROVE Window[l] \in Nat /\ Limit[l] \in Nat \ {0}
  BY LimitAssumption
<1>5. \A l \in Limiters : /\ \A u \in Callers : passed[l][u] = <<>>
                          /\ \A k \in Keys : entry[l][k] = NoEntry
  BY DEF LimitInit
<1>6. "socket" \in Limiters /\ "edge" \in Limiters /\ \A u \in Callers : u \in Keys /\ Address[u] \in Keys
  BY DEF Limiters, Keys, Addresses
<1>7. \A u \in Callers :
         /\ Windowed(passed["socket"][u], entry["socket"][u], now, Window["socket"], Limit["socket"])
         /\ Windowed(passed["edge"][u], entry["edge"][Address[u]], now, Window["edge"], Limit["edge"])
  BY <1>3, <1>4, <1>5, <1>6, Zenon
<1> QED
  BY <1>1, <1>2, <1>7, Zenon DEF LimitInv

LEMMA HitCounted ==
    ASSUME NEW l \in Limiters, NEW k \in Keys, ClockType,
           entry[l][k] \in Entries \cup {NoEntry}
    PROVE  Counted(l, k) \in Entries /\ Counted(l, k) # NoEntry
<1>1. now \in Nat /\ NoEntry \notin Entries
  BY LimitAssumption DEF ClockType, Entries
<1>2. CASE Fresh(l, k)
  <2>1. Counted(l, k) = [count |-> 1, start |-> now]
    BY <1>2 DEF Counted
  <2> QED
    BY <1>1, <2>1 DEF Entries
<1>3. CASE ~Fresh(l, k)
  <2>1. entry[l][k] \in Entries
    BY <1>3 DEF Fresh
  <2>2. Counted(l, k) = [entry[l][k] EXCEPT !.count = @ + 1]
    BY <1>3 DEF Counted
  <2>3. \A e \in Entries : [e EXCEPT !.count = @ + 1] \in Entries
    BY DEF Entries
  <2> QED
    BY <1>1, <2>1, <2>2, <2>3
<1> QED
  BY <1>2, <1>3

\* A hit on the key k, by u or by another user of the key.
LEMMA HitWindowed ==
    ASSUME NEW l \in Limiters, NEW k \in Keys, NEW P, NEW Q, ClockType,
           entry[l][k] \in Entries \cup {NoEntry},
           Windowed(P, entry[l][k], now, Window[l], Limit[l]),
           Q = P \/ (Q = Append(P, now) /\ UnderLimit(l, k))
    PROVE  Windowed(Q, Counted(l, k), now, Window[l], Limit[l])
<1> DEFINE e == entry[l][k]
           f == Counted(l, k)
           W == Window[l]
           L == Limit[l]
<1>1. W \in Nat /\ L \in Nat \ {0} /\ now \in Nat
  BY LimitAssumption DEF ClockType
<1>2. f # NoEntry
  BY HitCounted
<1>3. CASE Fresh(l, k)
  <2>1. f = [count |-> 1, start |-> now] /\ (e # NoEntry => now - e.start > W) /\ (Q = P \/ Q = Append(P, now))
    BY <1>3 DEF Counted, Fresh
  <2>2. Windowed(P, e, now, W, L)
    OBVIOUS
  <2> HIDE DEF e, f, W, L
  <2>3. Windowed(Q, f, now, W, L)
    BY ONLY <1>1, <1>2, <2>1, <2>2, WindowStarts
  <2> QED
    BY <2>3 DEF f, W, L
<1>4. CASE ~Fresh(l, k)
  <2>1. /\ f = [e EXCEPT !.count = @ + 1] /\ e # NoEntry /\ ~(now - e.start > W)
        /\ Q = P \/ (Q = Append(P, now) /\ e.count + 1 <= L)
    BY <1>4 DEF Counted, Fresh, UnderLimit
  <2>2. Windowed(P, e, now, W, L)
    OBVIOUS
  <2> HIDE DEF e, f, W, L
  <2>3. Windowed(Q, f, now, W, L)
    BY ONLY <1>1, <1>2, <2>1, <2>2, WindowCounts
  <2> QED
    BY <2>3 DEF f, W, L
<1> QED
  BY <1>3, <1>4

LEMMA LimitStep ==
    ASSUME LimitInv, ClockType, LimitNext \/ (UNCHANGED limitVars /\ (Tick \/ UNCHANGED now))
    PROVE  LimitInv'
<1> DEFINE WS(u) == Windowed(passed["socket"][u], entry["socket"][u], now, Window["socket"], Limit["socket"])
           WE(u) == Windowed(passed["edge"][u], entry["edge"][Address[u]], now, Window["edge"], Limit["edge"])
<1>k. /\ "socket" \in Limiters /\ "edge" \in Limiters
      /\ \A u \in Callers : u \in Keys /\ Address[u] \in Keys
  BY DEF Limiters, Keys, Addresses
<1>e. \A l \in Limiters, k \in Keys : entry[l][k] \in Entries \cup {NoEntry}
  BY DEF LimitInv
<1>w. \A l \in Limiters : Window[l] \in Nat /\ Limit[l] \in Nat \ {0}
  BY LimitAssumption
<1>n. now \in Nat
  BY DEF ClockType
<1>s. \A u \in Callers : WS(u) /\ WE(u)
  BY DEF LimitInv
<1>p. ASSUME NEW l \in Limiters, NEW u \in Callers, Pass(l, u)
      PROVE  /\ passed' \in [Limiters -> [Callers -> Seq(Nat)]]
             /\ passed'[l][u] = Append(passed[l][u], now)
             /\ \A m \in Limiters, v \in Callers : m # l \/ v # u => passed'[m][v] = passed[m][v]
  <2>1. passed[l][u] \in Seq(Nat)
    BY DEF LimitInv
  <2>2. Append(passed[l][u], now) \in Seq(Nat)
    BY <1>n, <2>1
  <2> QED
    BY <1>p, <2>2 DEF Pass, LimitInv
<1>1. ASSUME NEW u \in Callers, isSocketRateLimited(u) PROVE LimitInv'
  <2>1. UNCHANGED now /\ entry' = [entry EXCEPT !["socket"][u] = Counted("socket", u)]
    BY <1>1 DEF isSocketRateLimited
  <2>2. /\ entry' \in [Limiters -> [Keys -> Entries \cup {NoEntry}]]
        /\ entry'["socket"][u] = Counted("socket", u)
        /\ \A m \in Limiters, i \in Keys : m # "socket" \/ i # u => entry'[m][i] = entry[m][i]
    <3> DEFINE x == Counted("socket", u)
               l == "socket"
    <3>1. x \in Entries
      BY <1>e, <1>k, HitCounted
    <3>2. entry' = [entry EXCEPT ![l][u] = x] /\ l \in Limiters /\ u \in Keys
      BY <2>1, <1>k
    <3> HIDE DEF x, l
    <3>3. /\ entry' \in [Limiters -> [Keys -> Entries \cup {NoEntry}]]
          /\ entry'[l][u] = x
          /\ \A m \in Limiters, i \in Keys : m # l \/ i # u => entry'[m][i] = entry[m][i]
      BY <3>1, <3>2 DEF LimitInv
    <3> QED
      BY <3>3, Zenon DEF x, l
  <2>3. UNCHANGED passed \/ (Pass("socket", u) /\ UnderLimit("socket", u))
    BY <1>1 DEF isSocketRateLimited
  <2>4. /\ passed' \in [Limiters -> [Callers -> Seq(Nat)]]
        /\ \/ passed'["socket"][u] = passed["socket"][u]
           \/ passed'["socket"][u] = Append(passed["socket"][u], now) /\ UnderLimit("socket", u)
        /\ \A m \in Limiters, v \in Callers : m # "socket" \/ v # u => passed'[m][v] = passed[m][v]
    <3>1. CASE UNCHANGED passed
      BY <3>1 DEF LimitInv
    <3>2. CASE Pass("socket", u) /\ UnderLimit("socket", u)
      BY <1>k, <1>p, <3>2
    <3> QED
      BY <2>3, <3>1, <3>2
  <2>5. Windowed(passed'["socket"][u], Counted("socket", u), now, Window["socket"], Limit["socket"])
    BY <1>k, <1>e, <1>s, <2>4, HitWindowed
  <2>6. ASSUME NEW v \in Callers PROVE WS(v)' /\ WE(v)'
    <3>1. ASSUME v = u PROVE WS(v)'
      BY <2>1, <2>2, <2>5, <3>1, Zenon
    <3>2. ASSUME v # u PROVE WS(v)'
      <4>1. entry'["socket"][v] = entry["socket"][v] /\ passed'["socket"][v] = passed["socket"][v]
        BY <1>k, <2>2, <2>4, <3>2
      <4> QED
        BY <1>s, <2>1, <4>1, Zenon
    <3>3. WE(v)'
      <4>1. entry'["edge"][Address[v]] = entry["edge"][Address[v]] /\ passed'["edge"][v] = passed["edge"][v]
        BY <1>k, <2>2, <2>4
      <4> QED
        BY <1>s, <2>1, <4>1, Zenon
    <3> QED
      BY <3>1, <3>2, <3>3
  <2> QED
    BY <2>2, <2>4, <2>6 DEF LimitInv
<1>2. ASSUME NEW u \in Callers, checkRateLimit(u) PROVE LimitInv'
  <2> DEFINE a == Address[u]
  <2>0. a \in Keys
    BY <1>k
  <2>1. UNCHANGED now /\ entry' = [entry EXCEPT !["edge"][a] = Counted("edge", a)]
    BY <1>2 DEF checkRateLimit, edgeKey
  <2>3. UNCHANGED passed \/ (Pass("edge", u) /\ UnderLimit("edge", a))
    BY <1>2 DEF checkRateLimit, edgeKey
  <2> HIDE DEF a
  <2>2. /\ entry' \in [Limiters -> [Keys -> Entries \cup {NoEntry}]]
        /\ entry'["edge"][a] = Counted("edge", a)
        /\ \A m \in Limiters, i \in Keys : m # "edge" \/ i # a => entry'[m][i] = entry[m][i]
    <3> DEFINE x == Counted("edge", a)
               l == "edge"
    <3>1. x \in Entries
      BY <1>e, <1>k, <2>0, HitCounted
    <3>2. entry' = [entry EXCEPT ![l][a] = x] /\ l \in Limiters /\ a \in Keys
      BY <2>0, <2>1, <1>k
    <3> HIDE DEF x, l
    <3>3. /\ entry' \in [Limiters -> [Keys -> Entries \cup {NoEntry}]]
          /\ entry'[l][a] = x
          /\ \A m \in Limiters, i \in Keys : m # l \/ i # a => entry'[m][i] = entry[m][i]
      BY <3>1, <3>2 DEF LimitInv
    <3> QED
      BY <3>3, Zenon DEF x, l
  <2>4. /\ passed' \in [Limiters -> [Callers -> Seq(Nat)]]
        /\ \/ passed'["edge"][u] = passed["edge"][u]
           \/ passed'["edge"][u] = Append(passed["edge"][u], now) /\ UnderLimit("edge", a)
        /\ \A m \in Limiters, v \in Callers : m # "edge" \/ v # u => passed'[m][v] = passed[m][v]
    <3>1. CASE UNCHANGED passed
      BY <3>1 DEF LimitInv
    <3>2. CASE Pass("edge", u) /\ UnderLimit("edge", a)
      BY <1>k, <1>p, <3>2
    <3> QED
      BY <2>3, <3>1, <3>2
  <2>5. ASSUME NEW v \in Callers PROVE WE(v)'
    <3>1. CASE Address[v] = a
      <4>1. Windowed(passed["edge"][v], entry["edge"][a], now, Window["edge"], Limit["edge"])
        BY <1>s, <3>1, Zenon
      <4>2. \/ passed'["edge"][v] = passed["edge"][v]
            \/ passed'["edge"][v] = Append(passed["edge"][v], now) /\ UnderLimit("edge", a)
        BY <1>k, <2>4
      <4>3. Windowed(passed'["edge"][v], Counted("edge", a), now, Window["edge"], Limit["edge"])
        BY <1>k, <1>e, <2>0, <4>1, <4>2, HitWindowed
      <4> QED
        BY <2>1, <2>2, <3>1, <4>3, Zenon
    <3>2. CASE Address[v] # a
      <4>1. entry'["edge"][Address[v]] = entry["edge"][Address[v]] /\ passed'["edge"][v] = passed["edge"][v]
        BY <1>k, <2>2, <2>4, <3>2 DEF a
      <4> QED
        BY <1>s, <2>1, <4>1, Zenon
    <3> QED
      BY <3>1, <3>2
  <2>6. ASSUME NEW v \in Callers PROVE WS(v)'
    <3>1. entry'["socket"][v] = entry["socket"][v] /\ passed'["socket"][v] = passed["socket"][v]
      BY <1>k, <2>2, <2>4
    <3> QED
      BY <1>s, <2>1, <3>1, Zenon
  <2> QED
    BY <2>2, <2>4, <2>5, <2>6 DEF LimitInv
\* The block list has no part in the windows.
<1>3. ASSUME UNCHANGED <<now, entry, passed>> PROVE LimitInv'
  BY <1>3 DEF LimitInv
<1>4. ASSUME NEW u \in Callers, recordReplayAttempt(u) \/ integrityGuard(u) PROVE LimitInv'
  BY <1>3, <1>4 DEF recordReplayAttempt, integrityGuard
<1>5. ASSUME NEW u \in Callers, HttpRequest(u) PROVE LimitInv'
  <2>1. entry' = [entry EXCEPT !["session"] = [k \in Keys |-> entry["session"][k]]]
    BY <1>5 DEF HttpRequest, sessionGuard, idsBeforeAuth, LimitInv
  <2>2. entry' = entry
    BY <2>1 DEF LimitInv, Limiters
  <2> QED
    BY <1>3, <1>5, <2>2 DEF HttpRequest
<1>6. CASE cleanupSocketBuckets
  <2> DEFINE W == Window["socket"]
  <2>1. /\ entry' = [entry EXCEPT !["socket"] =
                        [k \in Keys |-> IF entry["socket"][k] # NoEntry /\ now - entry["socket"][k].start > 2 * W
                                        THEN NoEntry ELSE entry["socket"][k]]]
        /\ UNCHANGED <<now, passed>>
    BY <1>6 DEF cleanupSocketBuckets
  <2> HIDE DEF W
  <2>2. /\ entry' \in [Limiters -> [Keys -> Entries \cup {NoEntry}]]
        /\ \A m \in Limiters, k \in Keys : m # "socket" => entry'[m][k] = entry[m][k]
        /\ \A k \in Keys : \/ entry'["socket"][k] = entry["socket"][k]
                          \/ /\ entry'["socket"][k] = NoEntry
                             /\ entry["socket"][k] # NoEntry
                             /\ now - entry["socket"][k].start > 2 * W
    BY <1>e, <1>k, <2>1 DEF LimitInv
  <2>3. ASSUME NEW v \in Callers PROVE WS(v)'
    <3>1. CASE entry'["socket"][v] = entry["socket"][v]
      BY <1>s, <2>1, <3>1, Zenon
    <3>2. CASE entry'["socket"][v] # entry["socket"][v]
      <4>1. entry'["socket"][v] = NoEntry /\ entry["socket"][v] # NoEntry /\ now - entry["socket"][v].start > 2 * W
        BY <1>k, <2>2, <3>2
      <4>2. Windowed(passed["socket"][v], NoEntry, now, Window["socket"], Limit["socket"])
        BY <1>k, <1>w, <1>n, <1>s, <4>1, WindowDropped DEF W
      <4> QED
        BY <2>1, <4>1, <4>2, Zenon
    <3> QED
      BY <3>1, <3>2
  <2>4. ASSUME NEW v \in Callers PROVE WE(v)'
    <3>1. entry'["edge"][Address[v]] = entry["edge"][Address[v]]
      BY <1>k, <2>2
    <3> QED
      BY <1>s, <2>1, <3>1, Zenon
  <2> QED
    BY <2>1, <2>2, <2>3, <2>4 DEF LimitInv
<1>7. ASSUME Tick, UNCHANGED limitVars PROVE LimitInv'
  <2>1. now' = now + 1 /\ UNCHANGED <<entry, passed>>
    BY <1>7 DEF Tick, limitVars
  <2>2. ASSUME NEW v \in Callers PROVE WS(v)' /\ WE(v)'
    <3>1. /\ Windowed(passed["socket"][v], entry["socket"][v], now + 1, Window["socket"], Limit["socket"])
          /\ Windowed(passed["edge"][v], entry["edge"][Address[v]], now + 1, Window["edge"], Limit["edge"])
      BY <1>k, <1>w, <1>n, <1>s, WindowLater
    <3> QED
      BY <2>1, <3>1, Zenon
  <2> QED
    BY <2>1, <2>2 DEF LimitInv
<1>8. ASSUME UNCHANGED now, UNCHANGED limitVars PROVE LimitInv'
  BY <1>3, <1>8 DEF limitVars
<1> QED
  BY <1>1, <1>2, <1>4, <1>5, <1>6, <1>7, <1>8 DEF LimitNext

\* No interval of the length of a window sees more than twice the limit of a
\* user's events or requests pass, for every window and every limit, however
\* the hits, the users that share an address and the cleanup of the entries
\* fall (socketRateLimiter.ts:18-48, web middleware.ts:25-40).
THEOREM WindowsHold == Spec => []WindowBound
<1>1. Init => LimitInv /\ ClockType
  BY LimitInit_ DEF Init, ClockInit, ClockType
<1>2. LimitInv /\ ClockType /\ [Next]_vars => (LimitInv /\ ClockType)'
  BY PartSteps, ClockMoves, LimitStep, ClockStep
<1>3. LimitInv => WindowBound
  <2> SUFFICES ASSUME LimitInv, NEW l \in {"socket", "edge"}, NEW u \in Callers, NEW t \in 1..MaxTime
               PROVE  PassedIn(l, u, t) <= 2 * Limit[l]
    BY DEF WindowBound
  <2>1. t \in Nat
    BY ClockAssumption
  <2>2. Cardinality(Between(passed[l][u], t - Window[l], t)) <= 2 * Limit[l]
    BY <2>1 DEF LimitInv, Windowed
  <2>3. passed[l][u] \in Seq(Nat)
    BY DEF LimitInv, Limiters
  <2>4. DOMAIN passed[l][u] = 1..Len(passed[l][u])
    BY <2>3
  <2>5. PassedIn(l, u, t) = Cardinality(Between(passed[l][u], t - Window[l], t))
    BY <2>4, Zenon DEF PassedIn, Between
  <2> QED
    BY <2>2, <2>5
<1> QED
  BY <1>1, <1>2, <1>3, PTL DEF Spec
=============================================================================
