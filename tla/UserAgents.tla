----------------------------- MODULE UserAgents -----------------------------
(***************************************************************************)
(* The agents that keep a profile per user: anomalyDetector.ts,            *)
(* behaviorAnalyzer.ts, cryptoWatchdog.ts and phantomGuard.ts.  They share *)
(* nothing and no other part calls them yet; a caller may call them in any *)
(* order.  The statistics of an indicator (variances of intervals and      *)
(* lengths) are left open: once it has enough data it may fire or not.     *)
(***************************************************************************)
EXTENDS Clock, Sequences, FiniteSetsExt, SequencesExt

CONSTANTS
    Users,
    IPs, Devices, PublicKeys,
    Anomaly,     \* window, minute, short, perMinute, perShort, logins, idle
    Behavior,    \* needs (messages an indicator needs), idle
    Crypto,      \* window, limit, kept, keys, idle
    Phantom,     \* window, limit, cadence, idle
    MaxCalls,    \* bound on the calls
    NoProfile

VARIABLES
    anomaly,     \* anomalyDetector: profiles
    behavior,    \* behaviorModels
    crypto,      \* cryptoProfiles
    decrypted,   \* decryptionTimestamps; an entry is never removed
    extraction,  \* extractionPatterns
    calls

agentVars == <<anomaly, behavior, crypto, decrypted, extraction, calls>>

AgentInit ==
    /\ anomaly = [u \in Users |-> NoProfile]
    /\ behavior = [u \in Users |-> NoProfile]
    /\ crypto = [u \in Users |-> NoProfile]
    /\ decrypted = [u \in Users |-> <<>>]
    /\ extraction = [u \in Users |-> NoProfile]
    /\ calls = 0

\* One more call; the last ones come early enough for a cleanup to follow.
Call(idle) == calls < MaxCalls /\ now + idle < MaxTime /\ calls' = calls + 1

ProfileOr(f, u, new) == IF f[u] = NoProfile THEN new ELSE f[u]

\* The instants of q that are less than d ago.
Within(q, d) == SelectSeq(q, LAMBDA t : now - t < d)

Idle(f, u, limit) == IF f[u] # NoProfile /\ f[u].last < now - limit THEN NoProfile ELSE f[u]

-----------------------------------------------------------------------------
(* anomalyDetector.ts *)

AnomalyProfile ==
    [msgs |-> <<>>, logins |-> <<>>, ip |-> NoProfile, ipAt |-> 0,
     devices |-> {}, score |-> 0, last |-> now]

Raise(p, d) == [p EXCEPT !.score = Min({100, @ + d})]

\* The three checks in their order; only the last exit moves the address.
recordMessageEvent(u, ip) ==
    LET p == ProfileOr(anomaly, u, AnomalyProfile)
        q == [p EXCEPT !.msgs = Within(Append(@, now), Anomaly.window), !.last = now]
        moved == q.ip # NoProfile /\ q.ip # ip /\ now - q.ipAt < Anomaly.minute
    IN  /\ Call(Anomaly.idle)
        /\ anomaly' = [anomaly EXCEPT ![u] =
              IF Len(Within(q.msgs, Anomaly.minute)) > Anomaly.perMinute THEN Raise(q, 20)
              ELSE IF Len(Within(q.msgs, Anomaly.short)) > Anomaly.perShort THEN Raise(q, 15)
              ELSE IF moved THEN Raise(q, 25)
              ELSE [q EXCEPT !.ip = ip, !.ipAt = now, !.score = Max({0, @ - 1})]]
        /\ UNCHANGED <<now, behavior, crypto, decrypted, extraction>>

\* ds is the fingerprint sent along, or nothing.
recordLoginEvent(u, ds) ==
    LET p == ProfileOr(anomaly, u, AnomalyProfile)
        q == [p EXCEPT !.logins = Append(@, now), !.last = now, !.devices = @ \cup ds]
        r == IF p.devices # {} /\ ~(ds \subseteq p.devices) THEN Raise(q, 10) ELSE q
    IN  /\ Call(Anomaly.idle)
        /\ anomaly' = [anomaly EXCEPT ![u] =
              IF Len(Within(r.logins, Anomaly.window)) > Anomaly.logins THEN Raise(r, 15) ELSE r]
        /\ UNCHANGED <<now, behavior, crypto, decrypted, extraction>>

CleanAnomaly ==
    /\ anomaly' = [u \in Users |-> Idle(anomaly, u, Anomaly.idle)]
    /\ UNCHANGED <<now, behavior, crypto, decrypted, extraction, calls>>

-----------------------------------------------------------------------------
(* behaviorAnalyzer.ts *)

Points == [regular |-> 30, uniform |-> 20, noPause |-> 15, night |-> 10, volume |-> 25]

BehaviorModel == [messages |-> 0, initiated |-> 0, last |-> 0, bot |-> 0]

\* The score is computed anew from the indicators that fire.
analyzeMessageBehavior(u, fire) ==
    LET p == ProfileOr(behavior, u, BehaviorModel)
    IN  /\ Call(Behavior.idle)
        /\ \A i \in fire : p.messages + 1 >= Behavior.needs[i]
        /\ behavior' = [behavior EXCEPT ![u] =
              [p EXCEPT !.messages = @ + 1, !.last = now,
                        !.bot = Min({100, FoldSet(LAMBDA i, a : a + Points[i], 0, fire)})]]
        /\ UNCHANGED <<now, anomaly, crypto, decrypted, extraction>>

recordConversationInitiation(u) ==
    /\ Call(Behavior.idle)
    /\ behavior' = [behavior EXCEPT ![u] = [ProfileOr(behavior, u, BehaviorModel) EXCEPT !.initiated = @ + 1]]
    /\ UNCHANGED <<now, anomaly, crypto, decrypted, extraction>>

\* A model that never saw a message (last = 0) is kept for ever.
CleanBehavior ==
    /\ behavior' = [u \in Users |->
          IF behavior[u] # NoProfile /\ behavior[u].last > 0 THEN Idle(behavior, u, Behavior.idle)
                                                             ELSE behavior[u]]
    /\ UNCHANGED <<now, anomaly, crypto, decrypted, extraction, calls>>

-----------------------------------------------------------------------------
(* cryptoWatchdog.ts *)

CryptoProfile == [events |-> <<>>, keys |-> {}, last |-> 0, exchanges |-> 0, alerts |-> 0]

\* A refused exchange is counted in the window, but is no activity.
monitorKeyExchange(u, key) ==
    LET p == ProfileOr(crypto, u, CryptoProfile)
        all == Append(p.events, now)
        q == [p EXCEPT !.events = IF Len(all) > Crypto.kept THEN Tail(all) ELSE all]
        keys == q.keys \cup {key}
    IN  /\ Call(Crypto.idle)
        /\ crypto' = [crypto EXCEPT ![u] =
              IF Len(Within(q.events, Crypto.window)) > Crypto.limit THEN q
              ELSE [q EXCEPT !.keys = keys, !.last = now, !.exchanges = @ + 1,
                             !.alerts = IF Cardinality(keys) > Crypto.keys THEN @ + 1 ELSE @]]
        /\ UNCHANGED <<now, anomaly, behavior, decrypted, extraction>>

CleanCrypto ==
    /\ crypto' = [u \in Users |->
          IF crypto[u] # NoProfile /\ crypto[u].last > 0 THEN Idle(crypto, u, Crypto.idle)
                                                         ELSE crypto[u]]
    /\ UNCHANGED <<now, anomaly, behavior, decrypted, extraction, calls>>

-----------------------------------------------------------------------------
(* phantomGuard.ts *)

\* Too many decryptions in the window, or a suspicious cadence, mark a user.
monitorDecryption(u, cadence) ==
    LET times == Within(Append(decrypted[u], now), Phantom.window)
        p == ProfileOr(extraction, u, [last |-> now, rapid |-> 0, bulk |-> 0, suspicious |-> FALSE])
        rapid == Len(times) > Phantom.limit
    IN  /\ Call(Phantom.idle)
        /\ cadence => Len(times) >= Phantom.cadence
        /\ decrypted' = [decrypted EXCEPT ![u] = times]
        /\ extraction' = [extraction EXCEPT ![u] =
              [last |-> now, rapid |-> Len(times),
               bulk |-> IF rapid THEN p.bulk + 1 ELSE p.bulk,
               suspicious |-> p.suspicious \/ rapid \/ cadence]]
        /\ UNCHANGED <<now, anomaly, behavior, crypto>>

\* Mutant: suspicious users are kept.
CleanUnsuspicious ==
    /\ extraction' = [u \in Users |->
          IF extraction[u] # NoProfile /\ extraction[u].suspicious THEN extraction[u]
          ELSE Idle(extraction, u, Phantom.idle)]
    /\ UNCHANGED <<now, anomaly, behavior, crypto, decrypted, calls>>

\* The traces and the patterns are cleaned, decryptionTimestamps is not.
CleanPhantom ==
    /\ extraction' = [u \in Users |-> Idle(extraction, u, Phantom.idle)]
    /\ UNCHANGED <<now, anomaly, behavior, crypto, decrypted, calls>>

-----------------------------------------------------------------------------
Clean == CleanAnomaly \/ CleanBehavior \/ CleanCrypto \/ CleanPhantom

AgentNext ==
    \/ \E u \in Users :
          \/ \E ip \in IPs : recordMessageEvent(u, ip)
          \/ \E ds \in {{}} \cup {{d} : d \in Devices} : recordLoginEvent(u, ds)
          \/ \E fire \in SUBSET DOMAIN Points : analyzeMessageBehavior(u, fire)
          \/ recordConversationInitiation(u)
          \/ \E key \in PublicKeys : monitorKeyExchange(u, key)
          \/ \E cadence \in BOOLEAN : monitorDecryption(u, cadence)
    \/ Clean
    \/ Tick /\ UNCHANGED agentVars

-----------------------------------------------------------------------------
(* Properties *)

\* Once a user is idle the four maps that carry a judgement of the user are
\* cleared of it, flagged or not: the anomaly profile, the crypto profile, the
\* extraction pattern, and the behaviour model if it ever saw a message
\* (anomalyDetector.ts:186-193, behaviorAnalyzer.ts:192-199,
\* cryptoWatchdog.ts:197-204, phantomGuard.ts:188-192).  Not said, because the
\* code does not do it: phantomGuard.ts:37 keeps an array of instants for every
\* user who ever decrypted, and a behaviour model without a message stays.
ProfilesForgotten ==
    \A u \in Users :
        /\ anomaly[u] # NoProfile ~> anomaly[u] = NoProfile
        /\ crypto[u] # NoProfile ~> crypto[u] = NoProfile
        /\ extraction[u] # NoProfile ~> extraction[u] = NoProfile
        /\ behavior[u] # NoProfile /\ behavior[u].messages > 0 ~> behavior[u] = NoProfile
=============================================================================
