----------------------------- MODULE RateLimits -----------------------------
(***************************************************************************)
(* The windows that count requests: middleware/socketRateLimiter.ts, the   *)
(* session guard of middleware/securityGuards.ts, the edge middleware of   *)
(* the web client; and the block list of utils/securityMonitor.ts.  The    *)
(* three windows are one algorithm: an entry starts with the first hit and *)
(* ends at the first hit after more than the length of the window.         *)
(***************************************************************************)
EXTENDS Clock, Sequences, FiniteSets

CONSTANTS
    Callers,        \* signed-in users, each at one address
    Address,        \* the address of a user
    Window, Limit,  \* per limiter: length, and hits it lets pass
    BlockAt,        \* AUTO_BLOCK_THRESHOLD
    MaxHits,        \* bound on the hits
    NoEntry

Limiters == {"socket", "session", "edge"}
Addresses == {Address[u] : u \in Callers}
Keys == Callers \cup Addresses

ASSUME LimitAssumption ==
    /\ Window \in [Limiters -> Nat]
    /\ Limit \in [Limiters -> Nat \ {0}]
    /\ NoEntry \notin [count : Nat, start : Nat]

VARIABLES
    entry,          \* limiter -> key -> count and start of the window
    strikes,        \* suspiciousIPs
    blockedIPs,
    passed,         \* history: instants at which a counted hit of a user passed
    hits

limitVars == <<entry, strikes, blockedIPs, passed, hits>>

LimitInit ==
    /\ entry = [l \in Limiters |-> [k \in Keys |-> NoEntry]]
    /\ strikes = [a \in Addresses |-> 0]
    /\ blockedIPs = {}
    /\ passed = [l \in Limiters |-> [u \in Callers |-> <<>>]]
    /\ hits = 0

Fresh(l, k) == entry[l][k] # NoEntry => now - entry[l][k].start > Window[l]

\* The entry after a hit, and whether the hit is within the limit.
Counted(l, k) ==
    IF Fresh(l, k) THEN [count |-> 1, start |-> now]
                   ELSE [entry[l][k] EXCEPT !.count = @ + 1]

\* Mutant: one hit too many passes.
UnderOrAt(l, k) == ~Fresh(l, k) => entry[l][k].count <= Limit[l]

UnderLimit(l, k) == ~Fresh(l, k) => entry[l][k].count + 1 <= Limit[l]

Hit == hits < MaxHits /\ hits' = hits + 1

Pass(l, u) == passed' = [passed EXCEPT ![l][u] = Append(@, now)]

trackSuspiciousIP(a) ==
    /\ strikes' = [strikes EXCEPT ![a] = @ + 1]
    /\ blockedIPs' = IF strikes[a] + 1 >= BlockAt THEN blockedIPs \cup {a} ELSE blockedIPs

\* A socket event of u; a blocked address keeps its sockets.
isSocketRateLimited(u) ==
    /\ Hit
    /\ entry' = [entry EXCEPT !["socket"][u] = Counted("socket", u)]
    /\ \/ /\ UnderLimit("socket", u)
          /\ Pass("socket", u)
          /\ UNCHANGED <<strikes, blockedIPs>>
       \/ /\ ~UnderLimit("socket", u)
          /\ trackSuspiciousIP(Address[u])
          /\ UNCHANGED passed
    /\ UNCHANGED now

\* A page or API request of u at the edge, which counts addresses.
edgeKey(u) == Address[u]

checkRateLimit(u) ==
    /\ Hit
    /\ entry' = [entry EXCEPT !["edge"][edgeKey(u)] = Counted("edge", edgeKey(u))]
    /\ IF UnderLimit("edge", edgeKey(u)) THEN Pass("edge", u) ELSE UNCHANGED passed
    /\ UNCHANGED <<now, strikes, blockedIPs>>

networkGuard(a) == a \notin blockedIPs

\* A request whose content type does not fit its body goes no further.
integrityGuard(u) ==
    /\ Hit
    /\ networkGuard(Address[u])
    /\ trackSuspiciousIP(Address[u])
    /\ UNCHANGED <<now, entry, passed>>

\* sessionGuard for the user ids the request carries: none or one.  Above the
\* limit it answers 429, which changes nothing more.
sessionGuard(ids) ==
    entry' = [entry EXCEPT !["session"] =
                [k \in Keys |-> IF k \in ids THEN Counted("session", k) ELSE @[k]]]

\* The user id a request carries where createExpressApp puts the guard: none,
\* as the authentication that sets it belongs to the routers, which come
\* later.  The guard therefore never counts.
idsBeforeAuth(u) == {}

\* Any other request of u to a route.
HttpRequest(u) ==
    /\ Hit
    /\ networkGuard(Address[u])
    /\ sessionGuard(idsBeforeAuth(u))
    /\ UNCHANGED <<now, strikes, blockedIPs, passed>>

\* A replayed message, noticed by message:send.
recordReplayAttempt(u) ==
    /\ Hit
    /\ trackSuspiciousIP(Address[u])
    /\ UNCHANGED <<now, entry, passed>>

cleanupSocketBuckets ==
    /\ entry' = [entry EXCEPT !["socket"] =
                   [k \in Keys |-> IF @[k] # NoEntry /\ now - @[k].start > 2 * Window["socket"]
                                   THEN NoEntry ELSE @[k]]]
    /\ UNCHANGED <<now, strikes, blockedIPs, passed, hits>>

LimitNext ==
    \/ \E u \in Callers :
          \/ isSocketRateLimited(u) \/ checkRateLimit(u) \/ recordReplayAttempt(u)
          \/ integrityGuard(u) \/ HttpRequest(u)
    \/ cleanupSocketBuckets
    \/ Tick /\ UNCHANGED limitVars

-----------------------------------------------------------------------------
(* Properties *)

\* Hits of u that passed in the window of l that ends at t.
PassedIn(l, u, t) ==
    Cardinality({i \in DOMAIN passed[l][u] : t - Window[l] <= passed[l][u][i] /\ passed[l][u][i] <= t})

\* However the hits fall on the windows and the cleanup, no interval as long
\* as a window sees more than twice the limit pass (socketRateLimiter.ts:18-48,
\* web middleware.ts:25-40).
WindowBound ==
    \A l \in {"socket", "edge"}, u \in Callers, t \in 1..MaxTime :
        PassedIn(l, u, t) <= 2 * Limit[l]
=============================================================================
