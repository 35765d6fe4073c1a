----------------------------- MODULE AuthTokens -----------------------------
(***************************************************************************)
(* The life of token pairs: routes/auth.ts (register, login, refresh,      *)
(* logout), utils/jwt.ts, and the two guards that accept access tokens,    *)
(* middleware/auth.ts for requests and socket/guards.ts for sockets.       *)
(*                                                                         *)
(* Register, login and refresh always sign an access and a refresh token   *)
(* together, so the unit of the model is the pair.  The signature, the     *)
(* user and the type carried by a token are what makes it a token of its   *)
(* pair; a forged one is refused before anything changes and is left out.  *)
(* Every Redis call is a step of its own.                                  *)
(***************************************************************************)
EXTENDS Naturals, FiniteSets

CONSTANTS
    Pairs,       \* token pairs
    NoPair,      \* "no refresh token given", "signed by no refresh"
    Calls,       \* activations of the routes and guards
    Ops,         \* the operations clients call, a subset of AllOps
    AccessTTL,   \* config.JWT_ACCESS_EXPIRES_IN
    RefreshTTL,  \* config.JWT_REFRESH_EXPIRES_IN
    BlackTTL,    \* 15 * 60, the fixed lifetime of a blacklist entry
    KeyTTL,      \* REDIS_TTL.refreshToken
    MaxTime,     \* bound on the clock
    MaxFaults    \* bound on failed Redis calls and process exits

AllOps == {"signin", "refresh", "logout", "api", "connect"}

ASSUME AuthAssumption ==
    /\ NoPair \notin Pairs
    /\ Ops \subseteq AllOps
    /\ AccessTTL \in Nat /\ RefreshTTL \in Nat
    /\ BlackTTL \in Nat /\ KeyTTL \in Nat
    /\ MaxTime \in Nat /\ MaxFaults \in Nat

\* The blacklist entry lasts as long as the token: true of the defaults (15
\* minutes both), and taken for granted by the comment at auth.ts:190-191; a
\* longer JWT_ACCESS_EXPIRES_IN would break it.
ASSUME BlacklistCovers == AccessTTL <= BlackTTL

VARIABLES
    now,         \* clock; starts at 1 so that 0 can mean "never"
    faults,      \* faults so far
    born,        \* instant at which a pair was signed, 0 = not yet
    issued,      \* pairs whose tokens a client has received
    parent,      \* the pair whose refresh token was exchanged for this one
    keyExp,      \* Redis refresh:<user>:<jti>: its expiry, 0 = absent
    blackExp,    \* Redis blacklist:<jti>: its expiry, 0 = absent
    call,        \* the activations
    loggedOut,   \* history: pairs whose access token a logout confirmed
    spent        \* history: pairs whose refresh token was deleted

pairVars == <<born, issued, parent>>
redisVars == <<keyExp, blackExp>>
vars == <<now, faults, pairVars, redisVars, call, loggedOut, spent>>

-----------------------------------------------------------------------------
\* Where an activation may wait for Redis, and how it ends.
Waiting == {"store", "check", "revoke", "guard", "blacklist", "forget"}
Ended == {"ok", "denied", "error", "closed"}

\* pair: the token presented; other: the refresh token a logout names, or
\* the pair a refresh or sign-in signs; late: the token was already logged
\* out (spent, for a refresh) when the activation began; at: when a guard let
\* it through.
CallRec == [op : AllOps, pc : {"idle"} \cup Waiting \cup Ended,
            pair : Pairs \cup {NoPair}, other : Pairs \cup {NoPair},
            late : BOOLEAN, at : Nat]

\* An activation has the tokens its next step works on.
HasTokens(k) ==
    /\ k.pc \in {"store", "forget"} => k.other \in Pairs
    /\ k.pc \in Waiting \ {"store"} => k.pair \in Pairs

TypeOK ==
    /\ now \in Nat \ {0}
    /\ faults \in Nat
    /\ born \in [Pairs -> Nat]
    /\ issued \subseteq Pairs
    /\ parent \in [Pairs -> Pairs \cup {NoPair}]
    /\ keyExp \in [Pairs -> Nat]
    /\ blackExp \in [Pairs -> Nat]
    /\ call \in [Calls -> CallRec]
    /\ \A c \in Calls : HasTokens(call[c])
    /\ loggedOut \subseteq Pairs
    /\ spent \subseteq Pairs

Init ==
    /\ now = 1
    /\ faults = 0
    /\ born = [p \in Pairs |-> 0]
    /\ issued = {}
    /\ parent = [p \in Pairs |-> NoPair]
    /\ keyExp = [p \in Pairs |-> 0]
    /\ blackExp = [p \in Pairs |-> 0]
    /\ call = [c \in Calls |-> [op |-> "api", pc |-> "idle", pair |-> NoPair,
                                other |-> NoPair, late |-> FALSE, at |-> 0]]
    /\ loggedOut = {}
    /\ spent = {}

-----------------------------------------------------------------------------
(* Helpers *)

\* jwt.verify accepts a token until the instant it expires.
AccessValid(p) == p \in issued /\ now < born[p] + AccessTTL
RefreshValid(p) == p \in issued /\ now < born[p] + RefreshTTL

\* Mutant: the guards do not consult the blacklist.
NeverBlacklisted(p) == FALSE

\* GET blacklist:<jti> and GET refresh:<user>:<jti>
Blacklisted(p) == blackExp[p] > now

\* Mutant: a refresh token is accepted for as long as its signature is valid.
RefreshKeyIgnored(p) == TRUE

RefreshKeyLive(p) == keyExp[p] > now

Begin(c, op, p, q, late, pc) ==
    /\ call[c].pc = "idle"
    /\ op \in Ops
    /\ call' = [call EXCEPT ![c] = [op |-> op, pc |-> pc, pair |-> p,
                                    other |-> q, late |-> late, at |-> 0]]

Connected(c) == call[c].op = "connect" /\ call[c].pc = "ok"

GoTo(c, pc) == call' = [call EXCEPT ![c].pc = pc]

\* signAccessToken and signRefreshToken, up to the latter's SETEX.
Sign(p, from) ==
    /\ born[p] = 0
    /\ born' = [born EXCEPT ![p] = now]
    /\ parent' = [parent EXCEPT ![p] = from]

-----------------------------------------------------------------------------
(* Signing in, refreshing *)

\* POST /register or /login, once the account is created or the password
\* compared: sign a pair.
SignIn(c, p) ==
    /\ Begin(c, "signin", NoPair, p, FALSE, "store")
    /\ Sign(p, NoPair)
    /\ UNCHANGED <<now, faults, issued, redisVars, loggedOut, spent>>

\* SETEX refresh:<user>:<jti>, then the response with both tokens.
StoreKey(c) ==
    /\ call[c].pc = "store"
    /\ keyExp' = [keyExp EXCEPT ![call[c].other] = now + KeyTTL]
    /\ issued' = issued \cup {call[c].other}
    /\ GoTo(c, "ok")
    /\ UNCHANGED <<now, faults, born, parent, blackExp, loggedOut, spent>>

\* POST /refresh with a token that verifies.
RefreshBegin(c, p) ==
    /\ RefreshValid(p)
    /\ Begin(c, "refresh", p, NoPair, p \in spent, "check")
    /\ UNCHANGED <<now, faults, pairVars, redisVars, loggedOut, spent>>

\* isRefreshTokenValid
RefreshCheck(c) ==
    /\ call[c].pc = "check"
    /\ GoTo(c, IF RefreshKeyLive(call[c].pair) THEN "revoke" ELSE "denied")
    /\ UNCHANGED <<now, faults, pairVars, redisVars, loggedOut, spent>>

\* Mutant: a new pair is signed and the old key forgotten.
RefreshKeepsOld(c, p) ==
    /\ call[c].pc = "revoke"
    /\ Sign(p, call[c].pair)
    /\ call' = [call EXCEPT ![c].pc = "store", ![c].other = p]
    /\ UNCHANGED <<now, faults, issued, redisVars, loggedOut, spent>>

\* revokeRefreshToken, then sign the new pair.
RefreshRevoke(c, p) ==
    /\ call[c].pc = "revoke"
    /\ keyExp' = [keyExp EXCEPT ![call[c].pair] = 0]
    /\ spent' = spent \cup {call[c].pair}
    /\ Sign(p, call[c].pair)
    /\ call' = [call EXCEPT ![c].pc = "store", ![c].other = p]
    /\ UNCHANGED <<now, faults, issued, blackExp, loggedOut>>

-----------------------------------------------------------------------------
(* The guards and logging out *)

\* authMiddleware or socketAuthGuard: the access token verifies.  A logout
\* also names a refresh token q, or none.
GuardBegin(c, op, p, q) ==
    /\ op \in {"api", "connect", "logout"}
    /\ op # "logout" => q = NoPair
    /\ q # NoPair => q \in issued
    /\ AccessValid(p)
    /\ Begin(c, op, p, q, p \in loggedOut, "guard")
    /\ UNCHANGED <<now, faults, pairVars, redisVars, loggedOut, spent>>

\* isTokenBlacklisted: the request is refused, or goes on.
GuardCheck(c) ==
    /\ call[c].pc = "guard"
    /\ IF Blacklisted(call[c].pair)
       THEN GoTo(c, "denied")
       ELSE call' = [call EXCEPT ![c].at = now, ![c].pc =
                       IF call[c].op = "logout" THEN "blacklist" ELSE "ok"]
    /\ UNCHANGED <<now, faults, pairVars, redisVars, loggedOut, spent>>

\* Logout confirms to its client.
Confirm(c) ==
    /\ GoTo(c, "ok")
    /\ loggedOut' = loggedOut \cup {call[c].pair}

\* Mutant: logout takes the refresh token for granted.
AlwaysRevokes(c) == TRUE

\* The body carries a refresh token, and it verifies.
NamesRefresh(c) == call[c].other # NoPair /\ RefreshValid(call[c].other)

\* blacklistToken; then the refresh token is verified, if one was given.
LogoutBlacklist(c) ==
    /\ call[c].pc = "blacklist"
    /\ blackExp' = [blackExp EXCEPT ![call[c].pair] = now + BlackTTL]
    /\ IF NamesRefresh(c)
       THEN GoTo(c, "forget") /\ UNCHANGED loggedOut
       ELSE Confirm(c)
    /\ UNCHANGED <<now, faults, pairVars, keyExp, spent>>

\* revokeRefreshToken of the logout.
LogoutRevoke(c) ==
    /\ call[c].pc = "forget"
    /\ keyExp' = [keyExp EXCEPT ![call[c].other] = 0]
    /\ spent' = spent \cup {call[c].other}
    /\ Confirm(c)
    /\ UNCHANGED <<now, faults, pairVars, blackExp>>

\* Its failure is swallowed by the catch meant for invalid tokens.
LogoutRevokeFails(c) ==
    /\ call[c].pc = "forget"
    /\ faults < MaxFaults
    /\ faults' = faults + 1
    /\ Confirm(c)
    /\ UNCHANGED <<now, pairVars, redisVars, spent>>

\* A socket stays connected until one side closes it.
Disconnect(c) ==
    /\ Connected(c)
    /\ GoTo(c, "closed")
    /\ UNCHANGED <<now, faults, pairVars, redisVars, loggedOut, spent>>

\* Any other Redis call fails: 500, or 401 from the guards.
Fail(c) ==
    /\ call[c].pc \in Waiting \ {"forget"}
    /\ faults < MaxFaults
    /\ faults' = faults + 1
    /\ GoTo(c, "error")
    /\ UNCHANGED <<now, pairVars, redisVars, loggedOut, spent>>

\* The process ends: what was waiting is lost, sockets are closed.
Crash ==
    /\ faults < MaxFaults
    /\ faults' = faults + 1
    /\ call' = [c \in Calls |->
                  CASE call[c].pc \in Waiting -> [call[c] EXCEPT !.pc = "error"]
                    [] Connected(c) -> [call[c] EXCEPT !.pc = "closed"]
                    [] OTHER -> call[c]]
    /\ UNCHANGED <<now, pairVars, redisVars, loggedOut, spent>>

Tick ==
    /\ now < MaxTime
    /\ now' = now + 1
    /\ UNCHANGED <<faults, pairVars, redisVars, call, loggedOut, spent>>

-----------------------------------------------------------------------------
Next ==
    \/ \E c \in Calls, p \in Pairs :
          SignIn(c, p) \/ RefreshBegin(c, p) \/ RefreshRevoke(c, p)
    \/ \E c \in Calls, op \in Ops, p \in Pairs, q \in Pairs \cup {NoPair} :
          GuardBegin(c, op, p, q)
    \/ \E c \in Calls : \/ StoreKey(c) \/ RefreshCheck(c) \/ GuardCheck(c)
                        \/ LogoutBlacklist(c) \/ LogoutRevoke(c)
                        \/ LogoutRevokeFails(c) \/ Disconnect(c) \/ Fail(c)
    \/ Tick \/ Crash

Spec == Init /\ [][Next]_vars

-----------------------------------------------------------------------------
(* Properties *)

\* Once a logout was confirmed, no request, socket or second logout that
\* begins later gets through with that access token for as long as the token
\* is valid, although the blacklist entry itself expires and the token is
\* verified one await before the blacklist is read (middleware/auth.ts:33-44,
\* socket/guards.ts:27-35, routes/auth.ts:192).  Rests on
\* BlacklistCovers.
LoggedOutStaysOut ==
    \A c \in Calls :
        /\ call[c].op \in {"api", "connect", "logout"}
        /\ call[c].late
        /\ call[c].at # 0
        => call[c].at >= born[call[c].pair] + AccessTTL

\* A refresh that begins after its token was exchanged or revoked yields
\* nothing, whatever other activations are half-way (routes/auth.ts:161-168).
SpentStaysSpent ==
    \A c \in Calls :
        call[c].op = "refresh" /\ call[c].late => call[c].other = NoPair

\* Rotation: when a refresh has signed a pair, the refresh token it was
\* exchanged for is dead, also if the exchange itself then fails
\* (routes/auth.ts:168-170).
OldTokenDead ==
    \A p \in Pairs : parent[p] # NoPair => keyExp[parent[p]] = 0

-----------------------------------------------------------------------------
(* What the documentation says and the code does not do *)

\* docs/security-model.md:165: "Les jetons de rafraichissement utilisent la
\* rotation - les anciens jetons sont invalides lors du rafraichissement": one
\* refresh token is exchanged for one new pair.
ExchangedOnce ==
    \A p, q \in issued : p # q /\ parent[p] # NoPair => parent[p] # parent[q]
=============================================================================
