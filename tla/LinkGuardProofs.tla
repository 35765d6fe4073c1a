-------------------------- MODULE LinkGuardProofs --------------------------
(***************************************************************************)
(* Proofs about LinkGuard, for every number of requests, users, addresses, *)
(* every set of options and every plan.                                    *)
(***************************************************************************)
EXTENDS LinkGuard, FiniteSetTheorems, TLAPS

-----------------------------------------------------------------------------
(* Type correctness *)

Plans == [tier : Tiers, end : Int \cup {Never}]

LEMMA InitType == Init => TypeOK
<1>1. NoLink \in StoredLink
  BY DEF NoLink, StoredLink
<1>2. NoEntry \in Plans
  BY DEF NoEntry, Plans, Tiers
<1> QED
  BY <1>1, <1>2, LinkAssumption DEF Init, TypeOK, Stages, Plans

LEMMA PlanReadType ==
    ASSUME TypeOK, NEW u \in Users
    PROVE  PlanRead(u) \in [Users -> Plans]
<1>1. NoEntry \in Plans
  BY DEF NoEntry, Plans, Tiers
<1> QED
  BY <1>1 DEF TypeOK, PlanRead, Plans

LEMMA GrantedShape ==
    ASSUME NEW l \in StoredLink, NEW v \in Nat, NEW S \in SUBSET IPs, NEW a \in BOOLEAN
    PROVE  [l EXCEPT !.views = v, !.ips = S, !.active = a] \in StoredLink
  BY DEF StoredLink

LEMMA OtherShapes ==
    ASSUME NEW l \in StoredLink
    PROVE  /\ [l EXCEPT !.active = FALSE] \in StoredLink
           /\ \A u \in Users, c \in Convs : [l EXCEPT !.createdBy = u, !.conv = c] \in StoredLink
  BY DEF StoredLink

\* A step changes one link at most, to another StoredLink.
LEMMA RefuseType ==
    ASSUME TypeOK, NEW t \in Tokens, Refuse(t)
    PROVE  stage' \in [Tokens -> Stages] /\ link' \in [Tokens -> StoredLink]
<1>1. NoLink \in StoredLink
  BY DEF NoLink, StoredLink
<1> QED
  BY <1>1 DEF TypeOK, Refuse, Stages

LEMMA DeactivateType ==
    ASSUME TypeOK, NEW t \in Tokens, Deactivate(t)
    PROVE  link' \in [Tokens -> StoredLink]
<1>1. [link[t] EXCEPT !.active = FALSE] \in StoredLink
  BY OtherShapes DEF TypeOK
<1>2. link' = [link EXCEPT ![t] = [link[t] EXCEPT !.active = FALSE]]
  BY DEF Deactivate
<1> QED
  BY <1>1, <1>2 DEF TypeOK

LEMMA NextType == TypeOK /\ [Next]_vars => TypeOK'
<1> SUFFICES ASSUME TypeOK, [Next]_vars PROVE TypeOK'
  OBVIOUS
<1>0. NoLink \in StoredLink
  BY DEF NoLink, StoredLink
<1>1. ASSUME NEW u \in Users, LookUpPlan(u) PROVE TypeOK'
  BY <1>1, PlanReadType DEF LookUpPlan, TypeOK, Plans
<1>2. ASSUME NEW u \in Users, NEW tier \in Tiers, NEW d \in Days, Activate(u, tier, d)
      PROVE TypeOK'
  <2>1. now + d \in Int
    BY LinkAssumption DEF TypeOK
  <2>2. [tier |-> tier, end |-> IF d = 0 THEN Never ELSE now + d] \in Plans
    BY <2>1 DEF Plans
  <2> QED
    BY <1>2, <2>2 DEF Activate, setUserTier, TypeOK, Plans
<1>3. ASSUME NEW t \in Tokens, FindConversation(t) PROVE TypeOK'
  <2>1. stage' \in [Tokens -> Stages] /\ link' \in [Tokens -> StoredLink]
    BY <1>3, RefuseType DEF FindConversation, TypeOK, Stages
  <2> QED
    BY <1>3, <2>1 DEF FindConversation, TypeOK
<1>4. ASSUME NEW t \in Tokens, NEW u \in Users, NEW c \in Convs, AskLink(t, u, c)
      PROVE TypeOK'
  <2>1. [link[t] EXCEPT !.createdBy = u, !.conv = c] \in StoredLink
    BY OtherShapes DEF TypeOK
  <2>2. link' = [link EXCEPT ![t] = [link[t] EXCEPT !.createdBy = u, !.conv = c]]
    BY <1>4 DEF AskLink, TypeOK
  <2>3. link' \in [Tokens -> StoredLink]
    BY <2>1, <2>2 DEF TypeOK
  <2> QED
    BY <1>4, <2>3 DEF AskLink, TypeOK, Stages
<1>5. ASSUME NEW t \in Tokens, NEW u \in Users, revokeLink(t, u) PROVE TypeOK'
  BY <1>5, DeactivateType DEF revokeLink, TypeOK
<1>6. ASSUME NEW t \in Tokens, NEW o \in Options, CreateLink(t, o) PROVE TypeOK'
  <2>1. o \in Option
    BY LinkAssumption
  <2>2. link[t].createdBy \in Users \cup {Nobody}
    BY DEF TypeOK, StoredLink
  <2>3. stage' \in [Tokens -> Stages] /\ link' \in [Tokens -> StoredLink]
    <3>1. CASE createShareLink(t, o) /\ stage' = [stage EXCEPT ![t] = "live"]
      <4>1. now \in Int /\ now + o.life \in Int
        BY <2>1 DEF Option, TypeOK
      <4>2. link'[t] = [link[t] EXCEPT !.createdAt = now, !.expiresAt = now + o.life,
                           !.maxViews = o.maxViews, !.pin = o.pin, !.once = o.once,
                           !.white = o.white, !.active = TRUE]
        BY <3>1 DEF createShareLink, TypeOK
      <4>3. link'[t] \in StoredLink
        <5>1. link[t] \in StoredLink /\ o.maxViews \in Nat /\ o.pin \in BOOLEAN
              /\ o.once \in BOOLEAN /\ o.white \in SUBSET IPs
          BY <2>1 DEF TypeOK, Option
        <5> DEFINE l == link[t]
                   to == now + o.life
                   v == o.maxViews
                   pin == o.pin
                   once == o.once
                   w == o.white
        <5>2. /\ l \in StoredLink /\ now \in Int /\ to \in Int /\ v \in Nat
              /\ pin \in BOOLEAN /\ once \in BOOLEAN /\ w \in SUBSET IPs
          BY <5>1, <4>1
        <5>3. link'[t] = [l EXCEPT !.createdAt = now, !.expiresAt = to, !.maxViews = v,
                            !.pin = pin, !.once = once, !.white = w, !.active = TRUE]
          BY <4>2
        <5> HIDE DEF l, to, v, pin, once, w
        <5> QED
          BY <5>2, <5>3, ZenonT(40) DEF StoredLink
      <4>4. link' = [link EXCEPT ![t] = link'[t]]
        BY <3>1, <4>2 DEF createShareLink, TypeOK
      <4>5. link' \in [Tokens -> StoredLink]
        BY <4>3, <4>4 DEF TypeOK
      <4> QED
        BY <3>1, <4>5 DEF TypeOK, Stages
    <3>2. CASE Refuse(t)
      BY <3>2, RefuseType
    <3> QED
      BY <3>1, <3>2, <1>6 DEF CreateLink
  <2>4. plan' \in [Users -> Plans]
    BY <1>6 DEF CreateLink, PlanRead, TypeOK, Plans, NoEntry, Tiers
  <2> QED
    BY <1>6, <2>3, <2>4 DEF CreateLink, TypeOK, Plans
<1>7. ASSUME NEW t \in Tokens, NEW ip \in IPs, NEW pinOk \in BOOLEAN, RefuseAccess(t, ip, pinOk)
      PROVE TypeOK'
  BY <1>7, DeactivateType DEF RefuseAccess, TypeOK
<1>8. ASSUME NEW t \in Tokens, NEW ip \in IPs, NEW pinOk \in BOOLEAN, GrantAccess(t, ip, pinOk)
      PROVE TypeOK'
  <2>1. [link[t] EXCEPT !.views = @ + 1, !.ips = @ \cup {ip}, !.active = ~link[t].once] \in StoredLink
    <3>1. link[t] \in StoredLink
      BY DEF TypeOK
    <3>2. link[t].views + 1 \in Nat /\ link[t].ips \cup {ip} \in SUBSET IPs
      BY <3>1 DEF StoredLink
    <3>3. (~link[t].once) \in BOOLEAN
      OBVIOUS
    <3> QED
      BY <3>1, <3>2, <3>3, GrantedShape
  <2>2. link' = [link EXCEPT ![t] = [link[t] EXCEPT !.views = @ + 1, !.ips = @ \cup {ip},
                                                     !.active = ~link[t].once]]
    BY <1>8 DEF GrantAccess, TypeOK
  <2>3. link' \in [Tokens -> StoredLink]
    BY <2>1, <2>2 DEF TypeOK
  <2> QED
    BY <1>8, <2>3 DEF GrantAccess, TypeOK
<1>9. ASSUME NEW c \in Convs, DeleteConversation(c) PROVE TypeOK'
  BY <1>9 DEF DeleteConversation, TypeOK
<1>10. CASE Cleanup
  BY <1>10, <1>0 DEF Cleanup, TypeOK, Stages
<1>11. CASE Restart
  <2>1. NoEntry \in Plans
    BY DEF NoEntry, Plans, Tiers
  <2> QED
    BY <1>11, <1>0, <2>1 DEF Restart, TypeOK, Stages, Plans
<1>12. CASE Tick
  BY <1>12, LinkAssumption DEF Tick, TypeOK
<1>13. CASE UNCHANGED vars
  BY <1>13 DEF vars, TypeOK
<1> QED
  BY <1>1, <1>2, <1>3, <1>4, <1>5, <1>6, <1>7, <1>8, <1>9, <1>10, <1>11, <1>12, <1>13
     DEF Next, validateLinkAccess

\* LinkGuard is type-correct for every value of its constants.
THEOREM TypeCorrect == Spec => []TypeOK
  BY InitType, NextType, PTL DEF Spec
-----------------------------------------------------------------------------
(* The links implement LinkService *)

\* A link that was not created has no views, and neither has an active
\* one-time link.
LinkInv ==
    \A t \in Tokens :
        /\ stage[t] \in {"unused", "asked", "found", "refused"} => link[t].views = 0
        /\ link[t].active /\ link[t].once => link[t].views = 0

Issued == {t \in Tokens : stage[t] \in {"live", "gone"}}
LeftOf(t) == IF Usable(t) THEN Allowance(link[t]) - link[t].views ELSE 0
Left == [t \in Tokens |-> LeftOf(t)]

Same(t) == stage'[t] = stage[t] /\ link'[t] = link[t]

LEMMA InitService == Init => LinkInv /\ Service!Init
<1> SUFFICES ASSUME Init PROVE LinkInv /\ Service!Init
  OBVIOUS
<1>1. \A t \in Tokens : stage[t] = "unused" /\ link[t].views = 0
  BY DEF Init, NoLink
<1>2. LinkInv
  BY DEF Init, NoLink, LinkInv
<1>3. \A t \in Tokens : ~Usable(t)
  BY <1>1 DEF Usable
<1> QED
  BY <1>1, <1>2, <1>3 DEF Init, Service!Init

\* What the steps that create, open and close links do to a token.
LEMMA Refused ==
    ASSUME TypeOK, NEW t \in Tokens, Refuse(t)
    PROVE  /\ stage'[t] = "refused" /\ link'[t].views = 0 /\ link'[t].active = FALSE
           /\ \A s \in Tokens \ {t} : Same(s)
  BY DEF Refuse, TypeOK, NoLink, Same

LEMMA Deactivated ==
    ASSUME TypeOK, NEW t \in Tokens, Deactivate(t), UNCHANGED stage
    PROVE  /\ stage'[t] = stage[t] /\ link'[t].active = FALSE /\ link'[t].views = link[t].views
           /\ \A s \in Tokens \ {t} : Same(s)
  BY DEF Deactivate, TypeOK, StoredLink, Same

LEMMA Created ==
    ASSUME TypeOK, NEW t \in Tokens, NEW o \in Options, createShareLink(t, o),
           stage' = [stage EXCEPT ![t] = "live"]
    PROVE  /\ stage'[t] = "live" /\ link'[t].active = TRUE
           /\ link'[t].views = link[t].views /\ link'[t].once = o.once
           /\ link'[t].maxViews = o.maxViews /\ link'[t].expiresAt = now + o.life
           /\ \A s \in Tokens \ {t} : Same(s)
  BY DEF createShareLink, TypeOK, StoredLink, Same

LEMMA Granted ==
    ASSUME TypeOK, NEW t \in Tokens, NEW ip \in IPs, NEW pinOk \in BOOLEAN,
           GrantAccess(t, ip, pinOk)
    PROVE  /\ stage'[t] = stage[t] /\ link'[t].views = link[t].views + 1
           /\ link'[t].active = ~link[t].once /\ link'[t].once = link[t].once
           /\ link'[t].maxViews = link[t].maxViews /\ link'[t].expiresAt = link[t].expiresAt
           /\ \A s \in Tokens \ {t} : Same(s)
  BY DEF GrantAccess, TypeOK, StoredLink, Same

LEMMA Asked ==
    ASSUME TypeOK, NEW t \in Tokens, NEW u, NEW c, AskLink(t, u, c)
    PROVE  /\ stage'[t] = "asked"
           /\ link'[t].views = link[t].views /\ link'[t].active = link[t].active
           /\ link'[t].once = link[t].once
           /\ \A s \in Tokens \ {t} : Same(s)
  BY DEF AskLink, TypeOK, StoredLink, Same

LEMMA NextLinkInv == TypeOK /\ LinkInv /\ [Next]_vars => LinkInv'
<1> SUFFICES ASSUME TypeOK, LinkInv, [Next]_vars PROVE LinkInv'
  OBVIOUS
<1>1. ASSUME UNCHANGED <<stage, link>> PROVE LinkInv'
  BY <1>1 DEF LinkInv
<1>2. ASSUME NEW t \in Tokens, Refuse(t) PROVE LinkInv'
  BY <1>2, Refused DEF LinkInv, Same
<1>3. ASSUME NEW t \in Tokens, Deactivate(t), UNCHANGED stage PROVE LinkInv'
  BY <1>3, Deactivated DEF LinkInv, Same
<1>4. ASSUME NEW t \in Tokens, FindConversation(t) PROVE LinkInv'
  BY <1>2, <1>4 DEF FindConversation, LinkInv, TypeOK
<1>5. ASSUME NEW t \in Tokens, NEW u \in Users, NEW c \in Convs, AskLink(t, u, c) PROVE LinkInv'
  <2>1. stage[t] = "unused"
    BY <1>5 DEF AskLink
  <2> QED
    BY <1>5, <2>1, Asked DEF LinkInv, Same
<1>6. ASSUME NEW t \in Tokens, NEW o \in Options, CreateLink(t, o) PROVE LinkInv'
  <2>1. stage[t] = "found"
    BY <1>6 DEF CreateLink
  <2>2. CASE createShareLink(t, o) /\ stage' = [stage EXCEPT ![t] = "live"]
    <3>1. /\ link'[t].views = link[t].views
          /\ \A s \in Tokens \ {t} : Same(s)
          /\ stage'[t] = "live"
      BY <2>1, <2>2, Created
    <3>2. link[t].views = 0
      BY <2>1 DEF LinkInv
    <3> QED
      BY <3>1, <3>2 DEF LinkInv, Same
  <2> QED
    BY <1>2, <1>6, <2>2 DEF CreateLink
<1>7. ASSUME NEW t \in Tokens, NEW ip \in IPs, NEW pinOk \in BOOLEAN, GrantAccess(t, ip, pinOk)
      PROVE LinkInv'
  <2>1. stage[t] = "live"
    BY <1>7 DEF GrantAccess
  <2>2. /\ stage'[t] = stage[t]
        /\ link'[t].active = ~link[t].once /\ link'[t].once = link[t].once
        /\ \A s \in Tokens \ {t} : Same(s)
    BY <1>7, Granted
  <2>3. ~(link'[t].active /\ link'[t].once)
    BY <2>2, Zenon
  <2> QED
    BY <2>1, <2>2, <2>3 DEF LinkInv, Same
<1>8. CASE Cleanup
  BY <1>8 DEF Cleanup, LinkInv, NoLink, TypeOK
<1>9. CASE Restart
  BY <1>9 DEF Restart, LinkInv, NoLink
<1> QED
  BY <1>1, <1>3, <1>4, <1>5, <1>6, <1>7, <1>8, <1>9
     DEF Next, vars, LookUpPlan, Activate, revokeLink, validateLinkAccess, RefuseAccess,
         DeleteConversation, Tick

\* A token that nothing happens to is left alone as long as the clock stands.
LEMMA SameLeft ==
    ASSUME NEW t \in Tokens, Same(t), UNCHANGED now
    PROVE  LeftOf(t)' = LeftOf(t)
  BY DEF LeftOf, Usable, Spent, Allowance, Same

\* Steps of LinkService, in terms of Issued and Left.
LEMMA StutterStep ==
    ASSUME Issued' = Issued, Left' = Left, UNCHANGED opened
    PROVE  UNCHANGED Service!vars
  BY DEF Service!vars, Issued, Left, LeftOf

LEMMA IssueStep ==
    ASSUME NEW t \in Tokens, NEW o \in Options, t \notin Issued, Issued' = Issued \cup {t},
           Left' = [Left EXCEPT ![t] = Allowance(o)], UNCHANGED opened
    PROVE  Service!Next
<1>1. Service!Issue(t, Allowance(o))
  BY DEF Service!Issue, Issued, Left, LeftOf
<1> QED
  BY <1>1 DEF Service!Next

LEMMA OpenStep ==
    ASSUME NEW t \in Tokens, Left[t] > 0, Left' = [Left EXCEPT ![t] = @ - 1],
           opened' = [opened EXCEPT ![t] = @ + 1], Issued' = Issued
    PROVE  Service!Next
<1>1. Service!Open(t)
  BY DEF Service!Open, Issued, Left, LeftOf
<1> QED
  BY <1>1 DEF Service!Next

LEMMA CloseStep ==
    ASSUME NEW S \in SUBSET Tokens, Left' = [t \in Tokens |-> IF t \in S THEN 0 ELSE Left[t]],
           Issued' = Issued, UNCHANGED opened
    PROVE  Service!Next
<1>1. Service!Close(S)
  BY DEF Service!Close, Issued, Left, LeftOf
<1> QED
  BY <1>1 DEF Service!Next

\* A step that switches one link off, or a token that is not created.
LEMMA OneOff ==
    ASSUME NEW t \in Tokens, UNCHANGED <<now, opened>>, \A s \in Tokens \ {t} : Same(s),
           ~Usable(t)', stage'[t] \in {"live", "gone"} <=> stage[t] \in {"live", "gone"}
    PROVE  Service!Next
<1>1. Issued' = Issued
  BY DEF Issued, Same
<1>2. LeftOf(t)' = 0
  BY DEF LeftOf
<1>3. \A s \in Tokens \ {t} : LeftOf(s)' = LeftOf(s)
  BY SameLeft
<1>4. Left' = [s \in Tokens |-> IF s \in {t} THEN 0 ELSE Left[s]]
  BY <1>2, <1>3 DEF Left
<1> QED
  BY <1>1, <1>4, CloseStep

LEMMA NextService == TypeOK /\ LinkInv /\ [Next]_vars => [Service!Next]_(Service!vars)
<1> SUFFICES ASSUME TypeOK, LinkInv, [Next]_vars PROVE [Service!Next]_(Service!vars)
  OBVIOUS
<1>1. ASSUME UNCHANGED <<now, stage, link, opened>> PROVE UNCHANGED Service!vars
  <2>1. \A t \in Tokens : LeftOf(t)' = LeftOf(t)
    BY <1>1, SameLeft DEF Same
  <2> QED
    BY <1>1, <2>1, StutterStep DEF Issued, Left
<1>2. ASSUME NEW t \in Tokens, Refuse(t), UNCHANGED <<now, opened>>, stage[t] \in {"asked", "found"}
      PROVE  Service!Next
  BY <1>2, Refused, OneOff DEF Usable
<1>3. ASSUME NEW t \in Tokens, Deactivate(t), UNCHANGED <<now, stage, opened>>
      PROVE  Service!Next
  BY <1>3, Deactivated, OneOff DEF Usable
<1>4. ASSUME NEW t \in Tokens, FindConversation(t) PROVE Service!Next
  <2>1. CASE stage' = [stage EXCEPT ![t] = "found"] /\ UNCHANGED link
    <3>1. /\ stage'[t] = "found" /\ stage[t] = "asked"
          /\ \A s \in Tokens \ {t} : Same(s)
      BY <1>4, <2>1 DEF FindConversation, TypeOK, Same
    <3> QED
      BY <1>4, <3>1, OneOff DEF FindConversation, Usable
  <2> QED
    BY <1>2, <1>4, <2>1 DEF FindConversation
<1>5. ASSUME NEW t \in Tokens, NEW u \in Users, NEW c \in Convs, AskLink(t, u, c)
      PROVE  Service!Next
  <2>1. stage[t] = "unused" /\ UNCHANGED <<now, opened>>
    BY <1>5 DEF AskLink
  <2> QED
    BY <1>5, <2>1, Asked, OneOff DEF Usable
<1>6. ASSUME NEW t \in Tokens, NEW o \in Options, CreateLink(t, o) PROVE Service!Next
  <2>1. stage[t] = "found" /\ link[t].views = 0 /\ UNCHANGED <<now, opened>>
    BY <1>6 DEF CreateLink, LinkInv
  <2>2. CASE createShareLink(t, o) /\ stage' = [stage EXCEPT ![t] = "live"]
    <3>1. o.life \in Nat \ {0} /\ o.maxViews \in Nat \ {0} /\ now \in Nat
      BY LinkAssumption DEF Option, TypeOK
    <3>2. /\ stage'[t] = "live" /\ link'[t].active = TRUE
          /\ link'[t].views = 0 /\ link'[t].once = o.once
          /\ link'[t].maxViews = o.maxViews /\ link'[t].expiresAt = now + o.life
          /\ \A s \in Tokens \ {t} : Same(s)
      BY <2>1, <2>2, Created
    <3>3. Usable(t)'
      BY <2>1, <3>1, <3>2 DEF Usable, Spent
    <3>4. Allowance(link[t])' = Allowance(o) /\ Allowance(o) \in Nat
      BY <3>1, <3>2 DEF Allowance
    <3>5. LeftOf(t)' = Allowance(o)
      BY <3>2, <3>3, <3>4 DEF LeftOf
    <3>6. \A s \in Tokens \ {t} : LeftOf(s)' = LeftOf(s)
      BY <2>1, <3>2, SameLeft
    <3>7. Left' = [Left EXCEPT ![t] = Allowance(o)]
      BY <3>5, <3>6 DEF Left
    <3>8. t \notin Issued /\ Issued' = Issued \cup {t}
      BY <2>1, <3>2 DEF Issued, Same
    <3> QED
      BY <2>1, <3>7, <3>8, IssueStep
  <2> QED
    BY <1>2, <1>6, <2>1, <2>2 DEF CreateLink
<1>7. ASSUME NEW t \in Tokens, NEW ip \in IPs, NEW pinOk \in BOOLEAN, GrantAccess(t, ip, pinOk)
      PROVE  Service!Next
  <2>1. /\ stage[t] = "live" /\ link[t].active /\ ~Spent(t) /\ UNCHANGED now
        /\ opened' = [opened EXCEPT ![t] = @ + 1]
    BY <1>7 DEF GrantAccess
  <2>2. /\ stage'[t] = "live" /\ link'[t].views = link[t].views + 1
        /\ link'[t].active = ~link[t].once /\ link'[t].once = link[t].once
        /\ link'[t].maxViews = link[t].maxViews /\ link'[t].expiresAt = link[t].expiresAt
        /\ \A s \in Tokens \ {t} : Same(s)
    BY <1>7, <2>1, Granted
  <2>3. link[t].views \in Nat /\ link[t].maxViews \in Nat /\ link[t].once \in BOOLEAN
        /\ link[t].expiresAt \in Int /\ now \in Nat
    BY DEF TypeOK, StoredLink
  <2>4. ~(now > link[t].expiresAt) /\ link[t].views < link[t].maxViews
    BY <2>1, <2>3 DEF Spent
  <2>5. LeftOf(t) = Allowance(link[t]) - link[t].views
    BY <2>1 DEF LeftOf, Usable
  <2>6. LeftOf(t) > 0 /\ LeftOf(t)' = LeftOf(t) - 1
    <3>1. CASE link[t].once
      <4>1. link[t].views = 0
        BY <2>1, <3>1 DEF LinkInv
      <4>2. ~Usable(t)'
        BY <2>2, <3>1 DEF Usable
      <4> QED
        BY <2>5, <3>1, <4>1, <4>2 DEF LeftOf, Allowance
    <3>2. CASE ~link[t].once
      <4>1. Usable(t)' <=> link[t].views + 1 < link[t].maxViews
        <5>1. stage'[t] = "live" /\ link'[t].active
          BY <2>2, <3>2
        <5>2. Spent(t)' <=> ~(link[t].views + 1 < link[t].maxViews)
          BY <2>1, <2>2, <2>3, <2>4 DEF Spent
        <5> QED
          BY <5>1, <5>2 DEF Usable
      <4>2. Allowance(link[t])' = link[t].maxViews /\ Allowance(link[t]) = link[t].maxViews
        BY <2>2, <3>2 DEF Allowance
      <4>3. LeftOf(t)' = IF link[t].views + 1 < link[t].maxViews
                         THEN link[t].maxViews - (link[t].views + 1) ELSE 0
        BY <4>1, <4>2, <2>2 DEF LeftOf
      <4> QED
        BY <2>3, <2>4, <2>5, <4>2, <4>3
    <3> QED
      BY <3>1, <3>2, <2>3
  <2>7. \A s \in Tokens \ {t} : LeftOf(s)' = LeftOf(s)
    BY <2>1, <2>2, SameLeft
  <2>8. Left[t] > 0 /\ Left' = [Left EXCEPT ![t] = @ - 1]
    BY <2>6, <2>7 DEF Left
  <2>9. Issued' = Issued
    BY <2>1, <2>2 DEF Issued, Same
  <2> QED
    BY <2>1, <2>8, <2>9, OpenStep
<1>8. CASE Cleanup
  <2> DEFINE old == {t \in Tokens : stage[t] = "live" /\ Stale(t)}
  <2>1. UNCHANGED <<now, opened>>
        /\ \A t \in Tokens : IF t \in old THEN stage[t] = "live" /\ stage'[t] = "gone" ELSE Same(t)
    BY <1>8 DEF Cleanup, Same
  <2>2. \A t \in Tokens : LeftOf(t)' = IF t \in old THEN 0 ELSE LeftOf(t)
    <3> SUFFICES ASSUME NEW t \in Tokens PROVE LeftOf(t)' = IF t \in old THEN 0 ELSE LeftOf(t)
      OBVIOUS
    <3>1. CASE t \in old
      BY <2>1, <3>1 DEF LeftOf, Usable
    <3>2. CASE t \notin old
      BY <2>1, <3>2, SameLeft
    <3> QED
      BY <3>1, <3>2
  <2>3. Left' = [t \in Tokens |-> IF t \in old THEN 0 ELSE Left[t]]
    BY <2>2 DEF Left
  <2>4. Issued' = Issued
    BY <2>1 DEF Issued, Same
  <2>5. old \in SUBSET Tokens
    OBVIOUS
  <2> QED
    BY <2>1, <2>3, <2>4, <2>5, CloseStep
<1>9. CASE Restart
  <2>1. \A t \in Tokens : ~Usable(t)'
    BY <1>9 DEF Restart, Usable, NoLink
  <2>2. Left' = [t \in Tokens |-> IF t \in Tokens THEN 0 ELSE Left[t]]
    BY <2>1 DEF Left, LeftOf
  <2>3. Issued' = Issued
    BY <1>9 DEF Restart, Issued
  <2> QED
    BY <1>9, <2>2, <2>3, CloseStep DEF Restart
<1>10. CASE Tick
  <2> DEFINE S == {t \in Tokens : Spent(t)'}
  <2>1. now' = now + 1 /\ now \in Nat /\ UNCHANGED <<stage, link, opened>>
    BY <1>10 DEF Tick, TypeOK
  <2>2. \A t \in Tokens : LeftOf(t)' = IF t \in S THEN 0 ELSE LeftOf(t)
    <3> SUFFICES ASSUME NEW t \in Tokens PROVE LeftOf(t)' = IF t \in S THEN 0 ELSE LeftOf(t)
      OBVIOUS
    <3>1. link[t].expiresAt \in Int
      BY DEF TypeOK, StoredLink
    <3>2. Spent(t) => Spent(t)'
      BY <2>1, <3>1 DEF Spent
    <3>3. CASE Spent(t)'
      BY <3>3 DEF LeftOf, Usable
    <3>4. CASE ~Spent(t)'
      <4>1. Usable(t)' <=> Usable(t)
        BY <2>1, <3>2, <3>4 DEF Usable
      <4> QED
        BY <2>1, <3>4, <4>1 DEF LeftOf, Allowance
    <3> QED
      BY <3>3, <3>4
  <2>3. Left' = [t \in Tokens |-> IF t \in S THEN 0 ELSE Left[t]]
    BY <2>2 DEF Left
  <2>4. Issued' = Issued /\ S \in SUBSET Tokens
    BY <2>1 DEF Issued
  <2> QED
    BY <2>1, <2>3, <2>4, CloseStep
<1>11. ASSUME NEW t \in Tokens, NEW u \in Users, revokeLink(t, u) PROVE Service!Next
  BY <1>3, <1>11 DEF revokeLink
<1>12. ASSUME NEW t \in Tokens, NEW ip \in IPs, NEW pinOk \in BOOLEAN, RefuseAccess(t, ip, pinOk)
       PROVE  Service!Next
  BY <1>3, <1>12 DEF RefuseAccess
<1>13. ASSUME \/ UNCHANGED vars
              \/ \E u \in Users : LookUpPlan(u) \/ \E tier \in Tiers, d \in Days : Activate(u, tier, d)
              \/ \E c \in Convs : DeleteConversation(c)
       PROVE  UNCHANGED Service!vars
  <2>1. UNCHANGED <<now, stage, link, opened>>
    BY <1>13 DEF vars, LookUpPlan, Activate, DeleteConversation
  <2> QED
    BY <2>1, <1>1
<1> QED
  BY <1>4, <1>5, <1>6, <1>7, <1>8, <1>9, <1>10, <1>11, <1>12, <1>13 DEF Next, validateLinkAccess

\* Share links implement LinkService: no link is opened more often than it was
\* issued for, and none after it was used up, revoked, expired, switched off
\* by the address guard or forgotten (linkGuard.ts:87-152, 191-198).
THEOREM LinksRefine == Spec => ImplementsService
<1>1. TypeOK /\ LinkInv /\ [Next]_vars => (TypeOK /\ LinkInv)'
  BY NextType, NextLinkInv
<1> QED
  BY <1>1, InitType, InitService, NextService, PTL DEF Spec, ImplementsService, Service!Spec
-----------------------------------------------------------------------------
(* Plans *)

\* Nobody gets more links, or somebody does within the plan.
PlanKept(u) ==
    \/ Cardinality(getUserLinks(u)') <= Cardinality(getUserLinks(u))
    \/ MaxLinks[getUserTier(u)] = -1
    \/ Cardinality(getUserLinks(u)') <= MaxLinks[getUserTier(u)]

LEMMA LinksFinite ==
    ASSUME NEW u
    PROVE  IsFiniteSet(getUserLinks(u)) /\ Cardinality(getUserLinks(u)) \in Nat
<1>1. getUserLinks(u) \subseteq Tokens
  BY DEF getUserLinks
<1>2. IsFiniteSet(getUserLinks(u))
  BY <1>1, LinkAssumption, FS_Subset
<1> QED
  BY <1>2, FS_CardinalityType

LEMMA FewerLinks ==
    ASSUME NEW u, getUserLinks(u)' \subseteq getUserLinks(u)
    PROVE  PlanKept(u)
  BY LinksFinite, FS_Subset DEF PlanKept

\* Links that are new to a user are so by CreateLink only.
LEMMA NoNewLinks ==
    ASSUME TypeOK, NEW u, now' >= now, now' \in Nat,
           \A t \in Tokens : \/ Same(t)
                             \/ stage'[t] # "live"
                             \/ ~link'[t].active
                             \/ /\ stage[t] = "live" /\ link[t].active
                                /\ link'[t].createdBy = link[t].createdBy
                                /\ link'[t].expiresAt = link[t].expiresAt
    PROVE  PlanKept(u)
<1>1. \A t \in Tokens : link[t].expiresAt \in Int
  BY DEF TypeOK, StoredLink
<1>2. now \in Nat
  BY DEF TypeOK
<1>3. getUserLinks(u)' \subseteq getUserLinks(u)
  BY <1>1, <1>2 DEF getUserLinks, Same
<1> QED
  BY <1>3, FewerLinks

LEMMA CreateKeepsPlan ==
    ASSUME TypeOK, NEW u \in Users, NEW t \in Tokens, NEW o \in Options, CreateLink(t, o),
           WithinLimit(link[t].createdBy), createShareLink(t, o),
           stage' = [stage EXCEPT ![t] = "live"]
    PROVE  PlanKept(u)
<1>1. \A s \in Tokens \ {t} : Same(s)
  BY Created
<1>2. now' = now /\ link'[t].createdBy = link[t].createdBy
  BY DEF CreateLink, createShareLink, TypeOK, StoredLink
<1>3. CASE u # link[t].createdBy
  <2>1. getUserLinks(u)' \subseteq getUserLinks(u)
    BY <1>1, <1>2, <1>3 DEF getUserLinks, Same
  <2> QED
    BY <2>1, FewerLinks
<1>4. CASE u = link[t].createdBy
  <2>1. getUserLinks(u)' \subseteq getUserLinks(u) \cup {t}
    BY <1>1, <1>2 DEF getUserLinks, Same
  <2>2. /\ IsFiniteSet(getUserLinks(u) \cup {t})
        /\ Cardinality(getUserLinks(u) \cup {t}) <= Cardinality(getUserLinks(u)) + 1
        /\ Cardinality(getUserLinks(u) \cup {t}) \in Nat
    <3> DEFINE L == getUserLinks(u)
    <3>1. IsFiniteSet(L) /\ Cardinality(L) \in Nat
      BY LinksFinite
    <3> HIDE DEF L
    <3>2. /\ IsFiniteSet(L \cup {t})
          /\ Cardinality(L \cup {t}) = IF t \in L THEN Cardinality(L) ELSE Cardinality(L) + 1
      BY <3>1, FS_AddElement
    <3>3. Cardinality(L \cup {t}) <= Cardinality(L) + 1 /\ Cardinality(L \cup {t}) \in Nat
      BY <3>1, <3>2
    <3> QED
      BY <3>2, <3>3 DEF L
  <2>3. Cardinality(getUserLinks(u)') <= Cardinality(getUserLinks(u) \cup {t})
    BY <2>1, <2>2, FS_Subset
  <2>4. MaxLinks[getUserTier(u)] \in Int
    <3>1. getUserTier(u) \in Tiers
      BY DEF getUserTier, TypeOK, Tiers
    <3> QED
      BY <3>1, LinkAssumption
  <2>5. MaxLinks[getUserTier(u)] # -1 => Cardinality(getUserLinks(u)) < MaxLinks[getUserTier(u)]
    BY <1>4 DEF WithinLimit
  <2>6. Cardinality(getUserLinks(u)) \in Nat
    BY LinksFinite
  <2>7. Cardinality(getUserLinks(u)') \in Nat
    BY <2>1, <2>2, FS_Subset, FS_CardinalityType
  <2> QED
    BY <2>2, <2>3, <2>4, <2>5, <2>6, <2>7 DEF PlanKept
<1> QED
  BY <1>3, <1>4

LEMMA NextKeepsPlans == TypeOK /\ [Next]_vars => \A u \in Users : PlanKept(u)
<1> SUFFICES ASSUME TypeOK, [Next]_vars, NEW u \in Users PROVE PlanKept(u)
  OBVIOUS
<1>0. now \in Nat /\ \A t \in Tokens : link[t].expiresAt \in Int
  BY DEF TypeOK, StoredLink
<1>1. ASSUME UNCHANGED <<stage, link>>, now' \in {now, now + 1} PROVE PlanKept(u)
  BY <1>0, <1>1, NoNewLinks DEF Same
<1>2. ASSUME NEW t \in Tokens, Refuse(t), UNCHANGED now PROVE PlanKept(u)
  <2>1. \A s \in Tokens : Same(s) \/ stage'[s] # "live"
    BY <1>2, Refused
  <2> QED
    BY <1>0, <1>2, <2>1, NoNewLinks
<1>3. ASSUME NEW t \in Tokens, Deactivate(t), UNCHANGED <<now, stage>> PROVE PlanKept(u)
  <2>1. \A s \in Tokens : Same(s) \/ ~link'[s].active
    BY <1>3, Deactivated
  <2> QED
    BY <1>0, <1>3, <2>1, NoNewLinks
<1>4. ASSUME NEW t \in Tokens, FindConversation(t) PROVE PlanKept(u)
  <2>1. CASE stage' = [stage EXCEPT ![t] = "found"] /\ UNCHANGED link
    <3>1. /\ stage'[t] = "found" /\ \A s \in Tokens \ {t} : Same(s)
      BY <1>4, <2>1 DEF FindConversation, TypeOK, Same
    <3> QED
      BY <1>0, <1>4, <3>1, NoNewLinks DEF FindConversation
  <2> QED
    BY <1>2, <1>4, <2>1 DEF FindConversation
<1>5. ASSUME NEW t \in Tokens, NEW v \in Users, NEW c \in Convs, AskLink(t, v, c) PROVE PlanKept(u)
  <2>1. UNCHANGED now
    BY <1>5 DEF AskLink
  <2> QED
    BY <1>0, <1>5, <2>1, Asked, NoNewLinks
<1>6. ASSUME NEW t \in Tokens, NEW o \in Options, CreateLink(t, o) PROVE PlanKept(u)
  BY <1>2, <1>6, CreateKeepsPlan DEF CreateLink
<1>7. ASSUME NEW t \in Tokens, NEW ip \in IPs, NEW pinOk \in BOOLEAN, GrantAccess(t, ip, pinOk)
      PROVE  PlanKept(u)
  <2>1. stage[t] = "live" /\ link[t].active /\ UNCHANGED now
    BY <1>7 DEF GrantAccess
  <2>2. link'[t].createdBy = link[t].createdBy
    BY <1>7 DEF GrantAccess, TypeOK, StoredLink
  <2> QED
    BY <1>0, <1>7, <2>1, <2>2, Granted, NoNewLinks
<1>8. CASE Cleanup
  <2>1. UNCHANGED now /\ \A t \in Tokens : Same(t) \/ stage'[t] = "gone"
    BY <1>8 DEF Cleanup, Same
  <2> QED
    BY <1>0, <2>1, NoNewLinks
<1>9. CASE Restart
  <2>1. UNCHANGED now /\ \A t \in Tokens : stage'[t] # "live"
    BY <1>9 DEF Restart
  <2> QED
    BY <1>0, <2>1, NoNewLinks
<1> QED
  BY <1>1, <1>3, <1>4, <1>5, <1>6, <1>7, <1>8, <1>9
     DEF Next, vars, LookUpPlan, Activate, revokeLink, validateLinkAccess, RefuseAccess,
         DeleteConversation, Tick

\* A step that gives a user one more active link leaves the user within the
\* limit of the plan in force, for any number of concurrent requests and
\* whatever limits the plans have (share.ts:45-73).
THEOREM PlansHold == Spec => LinksWithinPlan
<1>1. TypeOK /\ [Next]_vars => [\A u \in Users : PlanKept(u)]_vars
  BY NextKeepsPlans
<1>2. TypeOK /\ [Next]_vars => TypeOK'
  BY NextType
<1> QED
  BY <1>1, <1>2, InitType, PTL DEF Spec, LinksWithinPlan, PlanKept
=============================================================================
