----------------------------- MODULE LinkGuard -----------------------------
(***************************************************************************)
(* Share links and plans: agents/linkGuard.ts, routes/share.ts, the tier   *)
(* store of premium/middleware.ts and routes/premium.ts.                   *)
(*                                                                         *)
(* A link lives in the memory of the process.  POST /api/share awaits one  *)
(* database read and then checks the plan and creates the link without     *)
(* another await, so it is three steps: the request, the read, the rest.   *)
(* The random token is never drawn twice: a request is named by the token  *)
(* it would draw, and a token is used for one request only.                *)
(***************************************************************************)
EXTENDS Integers, FiniteSets

CONSTANTS
    Tokens,      \* requests for links, and the links they create
    Users,
    Convs,
    Members,     \* participants of a conversation (they never change)
    IPs,
    Options,     \* bodies of POST /api/share: life, maxViews, pin, once, white
    Days,        \* durations sent to POST /api/premium/activate; may be <= 0
    MaxLinks,    \* maxSharedLinks of a tier, -1 = unlimited
    IPLimit,     \* 5: distinct addresses a link tolerates, less one
    Retention,   \* INACTIVE_LINK_RETENTION_MS
    Nobody,      \* no user, no conversation
    Never,       \* expiresAt of a plan without end
    MaxTime      \* bound on the clock

Tiers == {"free", "secure", "fortress"}

Option == [life : Nat \ {0}, maxViews : Nat \ {0}, pin : BOOLEAN,
           once : BOOLEAN, white : SUBSET IPs]

ASSUME LinkAssumption ==
    /\ IsFiniteSet(Tokens)
    /\ Members \in [Convs -> SUBSET Users]
    /\ Options \subseteq Option
    /\ Days \subseteq Int
    /\ MaxLinks \in [Tiers -> Int]
    /\ IPLimit \in Nat /\ Retention \in Nat /\ MaxTime \in Nat
    /\ Never \notin Int
    /\ Nobody \notin Users \cup Convs

\* CreateLinkShareSchema allows at most 24 hours.
ASSUME LivesBounded == \A o \in Options : o.life <= Retention

VARIABLES
    now,
    convs,     \* conversations that exist
    stage,     \* of a request or link; "asked", "found" are awaits
    link,      \* the StoredLink of a token
    plan,      \* userTiers: tier and end; the free plan without end = no entry
    opened     \* history: accesses granted, per token

vars == <<now, convs, stage, link, plan, opened>>

Stages == {"unused", "asked", "found", "refused", "live", "gone"}

StoredLink ==
    [createdBy : Users \cup {Nobody}, conv : Convs \cup {Nobody}, createdAt : Int, expiresAt : Int,
     maxViews : Nat, views : Nat, pin : BOOLEAN, once : BOOLEAN,
     white : SUBSET IPs, active : BOOLEAN, ips : SUBSET IPs]

NoLink ==
    [createdBy |-> Nobody, conv |-> Nobody, createdAt |-> 0, expiresAt |-> 0,
     maxViews |-> 0, views |-> 0, pin |-> FALSE, once |-> FALSE,
     white |-> {}, active |-> FALSE, ips |-> {}]

NoEntry == [tier |-> "free", end |-> Never]

Init ==
    /\ now = 0
    /\ convs = Convs
    /\ stage = [t \in Tokens |-> "unused"]
    /\ link = [t \in Tokens |-> NoLink]
    /\ plan = [u \in Users |-> NoEntry]
    /\ opened = [t \in Tokens |-> 0]

-----------------------------------------------------------------------------
(* Plans *)

Expired(u) == plan[u].end # Never /\ plan[u].end < now

getUserTier(u) == IF Expired(u) THEN "free" ELSE plan[u].tier

\* getUserTier removes an entry that it finds expired.
PlanRead(u) == [plan EXCEPT ![u] = IF Expired(u) THEN NoEntry ELSE @]

\* A duration of 0 is falsy: the plan then never ends.
setUserTier(u, tier, d) ==
    plan' = [plan EXCEPT ![u] =
                [tier |-> tier, end |-> IF d = 0 THEN Never ELSE now + d]]

\* POST /api/premium/activate.
Activate(u, tier, d) ==
    /\ now + d <= MaxTime
    /\ setUserTier(u, tier, d)
    /\ UNCHANGED <<now, convs, stage, link, opened>>

\* GET /api/premium/me, POST /api/premium/verify, requireFeature,
\* requireAgent: they only look the plan up.
LookUpPlan(u) ==
    /\ plan' = PlanRead(u)
    /\ UNCHANGED <<now, convs, stage, link, opened>>

-----------------------------------------------------------------------------
(* Links *)

getUserLinks(u) ==
    {t \in Tokens : /\ stage[t] = "live"
                    /\ link[t].createdBy = u
                    /\ link[t].active
                    /\ now < link[t].expiresAt}

\* POST /api/share, up to the await of Conversation.findById.
AskLink(t, u, c) ==
    /\ stage[t] = "unused"
    /\ stage' = [stage EXCEPT ![t] = "asked"]
    /\ link' = [link EXCEPT ![t].createdBy = u, ![t].conv = c]
    /\ UNCHANGED <<now, convs, plan, opened>>

Refuse(t) ==
    /\ stage' = [stage EXCEPT ![t] = "refused"]
    /\ link' = [link EXCEPT ![t] = NoLink]

\* The database answers; a failing read ends in the catch.
FindConversation(t) ==
    /\ stage[t] = "asked"
    /\ \/ /\ link[t].conv \in convs
          /\ link[t].createdBy \in Members[link[t].conv]
          /\ stage' = [stage EXCEPT ![t] = "found"]
          /\ UNCHANGED link
       \/ Refuse(t)
    /\ UNCHANGED <<now, convs, plan, opened>>

\* Mutant: the limit is off by one.
LimitOffByOne(u) ==
    LET max == MaxLinks[getUserTier(u)]
    IN  max # -1 => Cardinality(getUserLinks(u)) <= max

WithinLimit(u) ==
    LET max == MaxLinks[getUserTier(u)]
    IN  max # -1 => Cardinality(getUserLinks(u)) < max

createShareLink(t, o) ==
    link' = [link EXCEPT ![t].createdAt = now, ![t].expiresAt = now + o.life,
                         ![t].maxViews = o.maxViews, ![t].pin = o.pin,
                         ![t].once = o.once, ![t].white = o.white,
                         ![t].active = TRUE]

\* The rest of POST /api/share: the limit of the plan in force now, and the
\* link, in one step of the event loop.
CreateLink(t, o) ==
    LET u == link[t].createdBy
    IN  /\ stage[t] = "found"
        /\ now + o.life < MaxTime
        /\ plan' = PlanRead(u)
        /\ \/ /\ WithinLimit(u)
              /\ stage' = [stage EXCEPT ![t] = "live"]
              /\ createShareLink(t, o)
           \/ /\ ~WithinLimit(u)
              /\ Refuse(t)
        /\ UNCHANGED <<now, convs, opened>>

Spent(t) == now > link[t].expiresAt \/ link[t].views >= link[t].maxViews

\* The address and the PIN of an access fit the link.
Admits(t, ip, pinOk) ==
    /\ link[t].white = {} \/ ip \in link[t].white
    /\ link[t].pin => pinOk

Suspicious(t, ip) ==
    Cardinality(link[t].ips) > IPLimit /\ ip \notin link[t].ips

Deactivate(t) == link' = [link EXCEPT ![t].active = FALSE]

\* An active link that is expired, used up or opened from too many
\* addresses is switched off by the access that finds out.
RefuseAccess(t, ip, pinOk) ==
    /\ stage[t] = "live"
    /\ link[t].active
    /\ Spent(t) \/ (Admits(t, ip, pinOk) /\ Suspicious(t, ip))
    /\ Deactivate(t)
    /\ UNCHANGED <<now, convs, stage, plan, opened>>

\* Mutant: a one-time link stays active.
GrantAgain(t, ip, pinOk) ==
    /\ stage[t] = "live" /\ link[t].active
    /\ ~Spent(t) /\ Admits(t, ip, pinOk) /\ ~Suspicious(t, ip)
    /\ link' = [link EXCEPT ![t].views = @ + 1, ![t].ips = @ \cup {ip}]
    /\ opened' = [opened EXCEPT ![t] = @ + 1]
    /\ UNCHANGED <<now, convs, stage, plan>>

GrantAccess(t, ip, pinOk) ==
    /\ stage[t] = "live"
    /\ link[t].active
    /\ ~Spent(t)
    /\ Admits(t, ip, pinOk)
    /\ ~Suspicious(t, ip)
    /\ link' = [link EXCEPT ![t].views = @ + 1,
                            ![t].ips = @ \cup {ip},
                            ![t].active = ~link[t].once]
    /\ opened' = [opened EXCEPT ![t] = @ + 1]
    /\ UNCHANGED <<now, convs, stage, plan>>

\* POST /api/share/access; every other refusal changes nothing.
validateLinkAccess(t, ip, pinOk) ==
    RefuseAccess(t, ip, pinOk) \/ GrantAccess(t, ip, pinOk)

\* DELETE /api/share/:token.
revokeLink(t, u) ==
    /\ stage[t] = "live"
    /\ link[t].createdBy = u
    /\ Deactivate(t)
    /\ UNCHANGED <<now, convs, stage, plan, opened>>

\* Mutant: links nobody switched off are not cleaned up.
StaleInactive(t) == ~link[t].active /\ now - link[t].createdAt > Retention

\* The cleanup interval.
Stale(t) ==
    \/ now > link[t].expiresAt
    \/ ~link[t].active /\ now - link[t].createdAt > Retention

Cleanup ==
    LET old == {t \in Tokens : stage[t] = "live" /\ Stale(t)}
    IN  /\ stage' = [t \in Tokens |-> IF t \in old THEN "gone" ELSE stage[t]]
        /\ link' = [t \in Tokens |-> IF t \in old THEN NoLink ELSE link[t]]
        /\ UNCHANGED <<now, convs, plan, opened>>

-----------------------------------------------------------------------------
(* Surroundings *)

\* A conversation is deleted; its links are not told.
DeleteConversation(c) ==
    /\ convs' = convs \ {c}
    /\ UNCHANGED <<now, stage, link, plan, opened>>

\* The process ends and starts again: both maps are empty, open requests
\* are never answered.
Restart ==
    /\ stage' = [t \in Tokens |->
                    CASE stage[t] \in {"asked", "found"} -> "refused"
                      [] stage[t] = "live" -> "gone"
                      [] OTHER -> stage[t]]
    /\ link' = [t \in Tokens |-> NoLink]
    /\ plan' = [u \in Users |-> NoEntry]
    /\ UNCHANGED <<now, convs, opened>>

Tick ==
    /\ now < MaxTime
    /\ now' = now + 1
    /\ UNCHANGED <<convs, stage, link, plan, opened>>

Next ==
    \/ \E u \in Users : LookUpPlan(u) \/ \E tier \in Tiers, d \in Days : Activate(u, tier, d)
    \/ \E t \in Tokens :
          \/ FindConversation(t)
          \/ \E u \in Users, c \in Convs : AskLink(t, u, c)
          \/ \E u \in Users : revokeLink(t, u)
          \/ \E o \in Options : CreateLink(t, o)
          \/ \E ip \in IPs, pinOk \in BOOLEAN : validateLinkAccess(t, ip, pinOk)
    \/ \E c \in Convs : DeleteConversation(c)
    \/ Cleanup
    \/ Restart
    \/ Tick

Spec == Init /\ [][Next]_vars

\* Time passes and the interval fires; nothing is assumed of the users.
FairSpec == Spec /\ WF_vars(Tick) /\ WF_vars(Cleanup)

-----------------------------------------------------------------------------
(* Properties *)

\* The clock keeps its bound, and links and plans their shape, whatever is
\* requested, cleaned up or lost in a restart.
TypeOK ==
    /\ now \in 0..MaxTime
    /\ convs \in SUBSET Convs
    /\ stage \in [Tokens -> Stages]
    /\ link \in [Tokens -> StoredLink]
    /\ opened \in [Tokens -> Nat]
    /\ plan \in [Users -> [tier : Tiers, end : Int \cup {Never}]]

\* What LinkService sees of a link.
Usable(t) == stage[t] = "live" /\ link[t].active /\ ~Spent(t)
Allowance(l) == IF l.once THEN 1 ELSE l.maxViews

Service == INSTANCE LinkService WITH
    Allowances <- {Allowance(o) : o \in Options},
    issued <- {t \in Tokens : stage[t] \in {"live", "gone"}},
    left <- [t \in Tokens |-> IF Usable(t) THEN Allowance(link[t]) - link[t].views ELSE 0]

\* The links do what LinkService promises: no link is opened more often than
\* it was issued for, and none is opened after it was used up, revoked,
\* expired, switched off or forgotten (linkGuard.ts:87-152, 191-198).
ImplementsService == Service!Spec

\* A step that gives a user one more active link leaves the user within the
\* limit of the plan in force at that instant, whatever requests were under
\* way together and however the plan changed meanwhile (share.ts:45-73,
\* premium/middleware.ts:19-47).
LinksWithinPlan ==
    [][\A u \in Users :
          \/ Cardinality(getUserLinks(u)') <= Cardinality(getUserLinks(u))
          \/ MaxLinks[getUserTier(u)] = -1
          \/ Cardinality(getUserLinks(u)') <= MaxLinks[getUserTier(u)]]_vars

\* Every link is forgotten in the end, used or not (linkGuard.ts:191-198).
LinksForgotten == \A t \in Tokens : stage[t] = "live" ~> stage[t] = "gone"
=============================================================================
