-------------------------- MODULE AuthTokensProofs --------------------------
(***************************************************************************)
(* Proofs about AuthTokens, for every number of pairs and activations and  *)
(* all lifetimes with AccessTTL <= BlackTTL.                               *)
(***************************************************************************)
EXTENDS AuthTokens, TLAPS

Guarded == {"api", "connect", "logout"}

-----------------------------------------------------------------------------
(* Type correctness *)

LEMMA InitType == Init => TypeOK
  BY DEF Init, TypeOK, HasTokens, Waiting, CallRec, AllOps

\* The field updates an activation undergoes.
LEMMA CallUpdate ==
    ASSUME TypeOK, NEW c \in Calls,
           NEW pc \in {"idle"} \cup Waiting \cup Ended
    PROVE  /\ [call[c] EXCEPT !.pc = pc] \in CallRec
           /\ [call[c] EXCEPT !.pc = pc].pc = pc
           /\ [call[c] EXCEPT !.pc = pc].op = call[c].op
           /\ [call[c] EXCEPT !.pc = pc].pair = call[c].pair
           /\ [call[c] EXCEPT !.pc = pc].other = call[c].other
           /\ [call[c] EXCEPT !.pc = pc].late = call[c].late
           /\ [call[c] EXCEPT !.pc = pc].at = call[c].at
<1>1. call[c] \in CallRec
  BY DEF TypeOK
<1> QED
  BY <1>1 DEF CallRec

\* What one step may make of activation x: it begins, is let through by a
\* guard, finds its refresh key, signs a new pair, goes on from blacklisting
\* to revoking, ends, or is left alone.
Begins(x) ==
    /\ call[x].pc = "idle"
    /\ \E op \in AllOps, p \in Pairs \cup {NoPair}, q \in Pairs \cup {NoPair},
          late \in BOOLEAN, pc \in Waiting :
          /\ call'[x] = [op |-> op, pc |-> pc, pair |-> p, other |-> q,
                         late |-> late, at |-> 0]
          /\ \/ /\ op = "signin" /\ pc = "store" /\ q \in Pairs
                /\ Sign(q, NoPair) /\ ~late
             \/ /\ op = "refresh" /\ pc = "check" /\ p \in issued
                /\ q = NoPair /\ (late <=> p \in spent)
             \/ /\ op \in Guarded /\ pc = "guard" /\ p \in issued
                /\ q \in issued \cup {NoPair} /\ (late <=> p \in loggedOut)

Passes(x) ==
    /\ call[x].pc = "guard"
    /\ ~Blacklisted(call[x].pair)
    /\ \E pc \in {"blacklist", "ok"} :
          call'[x] = [call[x] EXCEPT !.at = now, !.pc = pc]

FindsKey(x) ==
    /\ call[x].pc = "check"
    /\ RefreshKeyLive(call[x].pair)
    /\ call'[x] = [call[x] EXCEPT !.pc = "revoke"]

Rotates(x) ==
    /\ call[x].pc = "revoke"
    /\ \E q \in Pairs : /\ call'[x] = [call[x] EXCEPT !.pc = "store", !.other = q]
                        /\ Sign(q, call[x].pair)

Forgets(x) ==
    /\ call[x].pc = "blacklist"
    /\ call[x].other \in issued
    /\ blackExp' = [blackExp EXCEPT ![call[x].pair] = now + BlackTTL]
    /\ call'[x] = [call[x] EXCEPT !.pc = "forget"]

Ends(x) == \E pc \in Ended : call'[x] = [call[x] EXCEPT !.pc = pc]

CallStep(x) ==
    \/ call'[x] = call[x]
    \/ Begins(x) \/ Passes(x) \/ FindsKey(x) \/ Rotates(x) \/ Forgets(x)
    \/ Ends(x)

LEMMA CallSteps ==
    ASSUME TypeOK, [Next]_vars, NEW x \in Calls
    PROVE  CallStep(x)
<1>0. call \in [Calls -> CallRec]
  BY DEF TypeOK
<1>1. ASSUME NEW c \in Calls, NEW p \in Pairs, SignIn(c, p) PROVE CallStep(x)
  BY <1>0, <1>1 DEF SignIn, Begin, CallStep, Begins, AllOps, Waiting
<1>2. ASSUME NEW c \in Calls, NEW p \in Pairs, RefreshBegin(c, p)
      PROVE  CallStep(x)
  <2>1. CASE x # c
    BY <1>0, <1>2, <2>1 DEF RefreshBegin, Begin, CallStep
  <2>2. CASE x = c
    <3>1. PICK late \in BOOLEAN : late = (p \in spent)
      <4>1. (p \in spent) \in BOOLEAN
        OBVIOUS
      <4> WITNESS (p \in spent) \in BOOLEAN
      <4> QED
        OBVIOUS
    <3>2. /\ call[x].pc = "idle"
          /\ call'[x] = [op |-> "refresh", pc |-> "check", pair |-> p,
                         other |-> NoPair, late |-> late, at |-> 0]
          /\ p \in issued
      BY <1>0, <1>2, <2>2, <3>1 DEF RefreshBegin, RefreshValid, Begin
    <3>3. (late <=> p \in spent) /\ "refresh" \in AllOps /\ "check" \in Waiting
      BY <3>1 DEF AllOps, Waiting
    <3> QED
      BY <3>2, <3>3 DEF CallStep, Begins
  <2> QED
    BY <2>1, <2>2
<1>3. ASSUME NEW c \in Calls, NEW p \in Pairs, RefreshRevoke(c, p)
      PROVE  CallStep(x)
  BY <1>0, <1>3 DEF RefreshRevoke, CallStep, Rotates
<1>4. ASSUME NEW c \in Calls, NEW op \in Ops, NEW p \in Pairs,
             NEW q \in Pairs \cup {NoPair}, GuardBegin(c, op, p, q)
      PROVE  CallStep(x)
  <2>1. CASE x # c
    BY <1>0, <1>4, <2>1 DEF GuardBegin, Begin, CallStep
  <2>2. CASE x = c
    <3>1. PICK late \in BOOLEAN : late = (p \in loggedOut)
      <4>1. (p \in loggedOut) \in BOOLEAN
        OBVIOUS
      <4> WITNESS (p \in loggedOut) \in BOOLEAN
      <4> QED
        OBVIOUS
    <3>2. /\ call[x].pc = "idle"
          /\ call'[x] = [op |-> op, pc |-> "guard", pair |-> p, other |-> q,
                         late |-> late, at |-> 0]
          /\ p \in issued
          /\ op \in Guarded
      BY <1>0, <1>4, <2>2, <3>1 DEF GuardBegin, AccessValid, Begin, Guarded
    <3>3. q \in issued \cup {NoPair}
      BY <1>4 DEF GuardBegin
    <3>4. (late <=> p \in loggedOut) /\ op \in AllOps /\ "guard" \in Waiting
      BY <3>1, AuthAssumption DEF Waiting
    <3> QED
      BY <3>2, <3>3, <3>4 DEF CallStep, Begins
  <2> QED
    BY <2>1, <2>2
<1>5. ASSUME NEW c \in Calls, GuardCheck(c) PROVE CallStep(x)
  <2>1. CASE x # c
    BY <1>0, <1>5, <2>1 DEF GuardCheck, GoTo, CallStep
  <2>2. CASE x = c /\ Blacklisted(call[c].pair)
    BY <1>0, <1>5, <2>2 DEF GuardCheck, GoTo, CallStep, Ends, Ended
  <2>3. CASE x = c /\ ~Blacklisted(call[c].pair)
    <3>1. /\ call[x].pc = "guard"
          /\ \E pc \in {"blacklist", "ok"} :
                call' = [call EXCEPT ![x].at = now, ![x].pc = pc]
      BY <1>5, <2>3 DEF GuardCheck
    <3>2. \E pc \in {"blacklist", "ok"} :
             call'[x] = [call[x] EXCEPT !.at = now, !.pc = pc]
      BY <1>0, <3>1
    <3> QED
      BY <2>3, <3>1, <3>2 DEF CallStep, Passes
  <2> QED
    BY <2>1, <2>2, <2>3
<1>6. ASSUME NEW c \in Calls, LogoutBlacklist(c) PROVE CallStep(x)
  BY <1>0, <1>6 DEF LogoutBlacklist, Forgets, NamesRefresh, RefreshValid, Confirm, GoTo, CallStep, Ends, Ended
<1>7. ASSUME NEW c \in Calls, RefreshCheck(c) PROVE CallStep(x)
  BY <1>0, <1>7 DEF RefreshCheck, FindsKey, GoTo, CallStep, Ends, Ended
<1>8. ASSUME NEW c \in Calls,
             \/ StoreKey(c) \/ LogoutRevoke(c) \/ LogoutRevokeFails(c)
             \/ Disconnect(c) \/ Fail(c)
      PROVE  CallStep(x)
  BY <1>0, <1>8
     DEF StoreKey, LogoutRevoke, LogoutRevokeFails, Disconnect, Fail, Confirm,
         GoTo, CallStep, Ends, Ended
<1>9. CASE Crash
  BY <1>0, <1>9 DEF Crash, CallStep, Ends, Ended
<1>10. CASE UNCHANGED call
  BY <1>10 DEF CallStep
<1> QED
  BY <1>1, <1>2, <1>3, <1>4, <1>5, <1>6, <1>7, <1>8, <1>9, <1>10
     DEF Next, Tick, vars

\* An activation keeps its shape, and has the tokens of its next step.
LEMMA NextCall ==
    ASSUME TypeOK, [Next]_vars, NEW x \in Calls
    PROVE  call'[x] \in CallRec /\ HasTokens(call'[x])
<1>1. CallStep(x)
  BY CallSteps
<1>2. /\ call[x] \in CallRec /\ HasTokens(call[x]) /\ now \in Nat
      /\ issued \subseteq Pairs
  BY DEF TypeOK
<1>3. CASE Ends(x)
  BY <1>2, <1>3 DEF Ends, CallRec, HasTokens, Waiting, Ended
<1>4. CASE FindsKey(x)
  BY <1>2, <1>4 DEF FindsKey, CallRec, HasTokens, Waiting
<1>5. CASE Forgets(x)
  BY <1>2, <1>5 DEF Forgets, CallRec, HasTokens, Waiting
<1>6. CASE Passes(x)
  BY <1>2, <1>6 DEF Passes, CallRec, HasTokens, Waiting, Ended
<1>7. CASE Rotates(x)
  BY <1>2, <1>7 DEF Rotates, CallRec, HasTokens, Waiting
<1>8. CASE Begins(x)
  BY <1>2, <1>8 DEF Begins, CallRec, HasTokens, Waiting
<1>9. CASE call'[x] = call[x]
  BY <1>2, <1>9
<1> QED
  BY <1>1, <1>3, <1>4, <1>5, <1>6, <1>7, <1>8, <1>9 DEF CallStep

LEMMA NextType == TypeOK /\ [Next]_vars => TypeOK'
<1> SUFFICES ASSUME TypeOK, [Next]_vars PROVE TypeOK'
  OBVIOUS
<1>1. call' \in [Calls -> CallRec]
  <2>1. \A c \in Calls : call'[c] \in CallRec
    BY NextCall
  <2>2. call' = [c \in Calls |-> call'[c]]
    BY DEF TypeOK, Next, SignIn, RefreshBegin, RefreshRevoke, GuardBegin,
           StoreKey, RefreshCheck, GuardCheck, LogoutBlacklist, LogoutRevoke,
           LogoutRevokeFails, Disconnect, Fail, Tick, Crash, vars, Begin, GoTo,
           Confirm
  <2> QED
    BY <2>1, <2>2
<1>2. now' \in Nat \ {0} /\ faults' \in Nat
  <2>1. now \in Nat \ {0} /\ faults \in Nat
    BY DEF TypeOK
  <2>2. now' \in {now, now + 1} /\ faults' \in {faults, faults + 1}
    BY DEF Next, SignIn, RefreshBegin, RefreshRevoke, GuardBegin, StoreKey,
           RefreshCheck, GuardCheck, LogoutBlacklist, LogoutRevoke,
           LogoutRevokeFails, Disconnect, Fail, Tick, Crash, vars
  <2> QED
    BY <2>1, <2>2
<1>3. born' \in [Pairs -> Nat] /\ parent' \in [Pairs -> Pairs \cup {NoPair}]
  <2>1. CASE \E p \in Pairs, q \in Pairs \cup {NoPair} : Sign(p, q)
    BY <2>1 DEF Sign, TypeOK
  <2>2. CASE UNCHANGED <<born, parent>>
    BY <2>2 DEF TypeOK
  <2>3. ASSUME NEW c \in Calls, NEW p \in Pairs, SignIn(c, p) \/ RefreshRevoke(c, p)
        PROVE  \E q \in Pairs \cup {NoPair} : Sign(p, q)
    <3>1. call[c].pair \in Pairs \cup {NoPair}
      BY DEF TypeOK, CallRec
    <3> QED
      BY <2>3, <3>1 DEF SignIn, RefreshRevoke
  <2> QED
    BY <2>1, <2>2, <2>3 DEF Next, RefreshBegin, GuardBegin, StoreKey,
           RefreshCheck, GuardCheck, LogoutBlacklist, LogoutRevoke,
           LogoutRevokeFails, Disconnect, Fail, Tick, Crash, vars, pairVars
<1>4. keyExp' \in [Pairs -> Nat] /\ blackExp' \in [Pairs -> Nat]
  <2>1. /\ keyExp \in [Pairs -> Nat] /\ blackExp \in [Pairs -> Nat]
        /\ now + KeyTTL \in Nat /\ now + BlackTTL \in Nat
    BY AuthAssumption DEF TypeOK
  <2>2. \/ keyExp' = keyExp
        \/ \E p \in Pairs \cup {NoPair}, e \in {0, now + KeyTTL} :
              keyExp' = [keyExp EXCEPT ![p] = e]
    <3>1. \A c \in Calls : {call[c].pair, call[c].other} \subseteq Pairs \cup {NoPair}
      BY DEF TypeOK, CallRec
    <3> QED
      BY <3>1 DEF Next, SignIn, RefreshBegin, RefreshRevoke, GuardBegin,
                       StoreKey, RefreshCheck, GuardCheck, LogoutBlacklist,
                       LogoutRevoke, LogoutRevokeFails, Disconnect, Fail, Tick,
                       Crash, vars, redisVars
  <2>3. \/ blackExp' = blackExp
        \/ \E p \in Pairs \cup {NoPair} : blackExp' = [blackExp EXCEPT ![p] = now + BlackTTL]
    <3>1. \A c \in Calls : call[c].pair \in Pairs \cup {NoPair}
      BY DEF TypeOK, CallRec
    <3> QED
      BY <3>1 DEF Next, SignIn, RefreshBegin, RefreshRevoke, GuardBegin,
                       StoreKey, RefreshCheck, GuardCheck, LogoutBlacklist,
                       LogoutRevoke, LogoutRevokeFails, Disconnect, Fail, Tick,
                       Crash, vars, redisVars
  <2> QED
    BY <2>1, <2>2, <2>3
<1>5. \A c \in Calls : HasTokens(call'[c])
  BY NextCall
<1>6. issued' \subseteq Pairs /\ loggedOut' \subseteq Pairs /\ spent' \subseteq Pairs
  <2>1. \A c \in Calls :
           /\ call[c].pc \in {"store", "forget"} => call[c].other \in Pairs
           /\ call[c].pc \in {"revoke", "blacklist", "forget"} => call[c].pair \in Pairs
    BY DEF TypeOK, HasTokens, Waiting
  <2>2. issued \subseteq Pairs /\ loggedOut \subseteq Pairs /\ spent \subseteq Pairs
    BY DEF TypeOK
  <2>3. issued' \subseteq Pairs
    BY <2>1, <2>2 DEF Next, SignIn, RefreshBegin, RefreshRevoke, GuardBegin,
                       StoreKey, RefreshCheck, GuardCheck, LogoutBlacklist,
                       LogoutRevoke, LogoutRevokeFails, Disconnect, Fail, Tick,
                       Crash, vars, pairVars
  <2>4. loggedOut' \subseteq Pairs
    <3>1. \/ UNCHANGED loggedOut
          \/ \E c \in Calls : /\ call[c].pc \in {"blacklist", "forget"}
                              /\ loggedOut' = loggedOut \cup {call[c].pair}
      BY DEF Next, SignIn, RefreshBegin, RefreshRevoke, GuardBegin, StoreKey,
             RefreshCheck, GuardCheck, LogoutBlacklist, LogoutRevoke,
             LogoutRevokeFails, Disconnect, Fail, Tick, Crash, vars, Confirm
    <3> QED
      BY <2>1, <2>2, <3>1
  <2>5. spent' \subseteq Pairs
    <3>1. \/ UNCHANGED spent
          \/ \E c \in Calls : /\ call[c].pc = "revoke"
                              /\ spent' = spent \cup {call[c].pair}
          \/ \E c \in Calls : /\ call[c].pc = "forget"
                              /\ spent' = spent \cup {call[c].other}
      BY DEF Next, SignIn, RefreshBegin, RefreshRevoke, GuardBegin, StoreKey,
             RefreshCheck, GuardCheck, LogoutBlacklist, LogoutRevoke,
             LogoutRevokeFails, Disconnect, Fail, Tick, Crash, vars
    <3> QED
      BY <2>1, <2>2, <3>1
  <2> QED
    BY <2>3, <2>4, <2>5
<1> QED
  BY <1>1, <1>2, <1>3, <1>4, <1>5, <1>6 DEF TypeOK

\* AuthTokens is type-correct, and no step works on a token it does not have.
THEOREM TypeCorrect == Spec => []TypeOK
  BY InitType, NextType, PTL DEF Spec

-----------------------------------------------------------------------------
(* The inductive invariant *)

\* The blacklist entry of p outlasts its access token.
Shut(p) == born[p] + AccessTTL <= blackExp[p]

\* What holds of the pairs: a deleted key stays deleted, a refreshed pair's
\* parent is spent, a logged-out pair is shut.
PairInv ==
    /\ \A p \in Pairs : born[p] <= now
    /\ \A p \in issued : born[p] # 0
    /\ spent \subseteq issued
    /\ \A p \in spent : keyExp[p] = 0
    /\ \A p \in Pairs : parent[p] # NoPair => parent[p] \in spent
    /\ \A p \in loggedOut : p \in issued /\ Shut(p)

\* What the control state of an activation says about its tokens.
CallInv(x) ==
    /\ call[x].pc \in {"check", "revoke"} =>
          call[x].op = "refresh" /\ call[x].pair \in issued
    /\ call[x].pc = "store" =>
          call[x].other \notin issued /\ born[call[x].other] # 0
    /\ call[x].pc \in {"guard", "blacklist", "forget"} =>
          call[x].op \in Guarded /\ call[x].pair \in issued
    /\ call[x].pc = "forget" => call[x].other \in issued /\ Shut(call[x].pair)
    /\ call[x].pc = "guard" => call[x].at = 0
    /\ call[x].op \in Guarded /\ call[x].late =>
          /\ call[x].pair \in loggedOut
          /\ call[x].at # 0 => call[x].at >= born[call[x].pair] + AccessTTL
    /\ call[x].op = "refresh" /\ call[x].late =>
          /\ call[x].pair \in spent
          /\ call[x].other = NoPair
          /\ call[x].pc \notin {"revoke", "store"}

\* Two activations never store the key of one pair.
StoreInv ==
    \A x, y \in Calls :
        /\ x # y
        /\ call[x].pc = "store" /\ call[y].pc = "store"
        => call[x].other # call[y].other

CallsInv == \A x \in Calls : CallInv(x)
Inv == PairInv /\ CallsInv /\ StoreInv

\* What a step does to the pairs, apart from the step's own pair.
LEMMA Monotone ==
    ASSUME TypeOK, PairInv, [Next]_vars
    PROVE  /\ issued \subseteq issued'
           /\ spent \subseteq spent'
           /\ loggedOut \subseteq loggedOut'
           /\ now <= now'
           /\ \A p \in Pairs : born[p] # 0 => born'[p] = born[p]
           /\ \A p \in Pairs : born'[p] <= now'
           /\ \A p \in issued : Shut(p) => Shut(p)'
<1>0. /\ now \in Nat \ {0} /\ born \in [Pairs -> Nat] /\ blackExp \in [Pairs -> Nat]
      /\ issued \subseteq Pairs
      /\ \A p \in Pairs : born[p] <= now
      /\ \A p \in issued : born[p] # 0
  BY DEF TypeOK, PairInv
<1>1. issued \subseteq issued' /\ spent \subseteq spent' /\ loggedOut \subseteq loggedOut'
  BY DEF Next, SignIn, RefreshBegin, RefreshRevoke, GuardBegin, StoreKey,
         RefreshCheck, GuardCheck, LogoutBlacklist, LogoutRevoke,
         LogoutRevokeFails, Disconnect, Fail, Tick, Crash, vars, pairVars, Confirm
<1>2. now' = now \/ (now' = now + 1 /\ UNCHANGED <<born, blackExp>>)
  BY DEF Next, SignIn, RefreshBegin, RefreshRevoke, GuardBegin, StoreKey,
         RefreshCheck, GuardCheck, LogoutBlacklist, LogoutRevoke,
         LogoutRevokeFails, Disconnect, Fail, Tick, Crash, vars, pairVars, redisVars
<1>3. UNCHANGED born \/ \E p \in Pairs : born[p] = 0 /\ born' = [born EXCEPT ![p] = now]
  BY DEF Next, SignIn, RefreshBegin, RefreshRevoke, GuardBegin, StoreKey,
         RefreshCheck, GuardCheck, LogoutBlacklist, LogoutRevoke,
         LogoutRevokeFails, Disconnect, Fail, Tick, Crash, vars, pairVars, Sign
<1>4. \/ UNCHANGED blackExp
      \/ \E p \in Pairs : blackExp' = [blackExp EXCEPT ![p] = now + BlackTTL]
  <2>1. \A c \in Calls : call[c].pc = "blacklist" => call[c].pair \in Pairs
    BY DEF TypeOK, HasTokens, Waiting
  <2> QED
    BY <2>1 DEF Next, SignIn, RefreshBegin, RefreshRevoke, GuardBegin, StoreKey,
         RefreshCheck, GuardCheck, LogoutBlacklist, LogoutRevoke,
         LogoutRevokeFails, Disconnect, Fail, Tick, Crash, vars, redisVars
<1>5. \A p \in Pairs : born[p] # 0 => born'[p] = born[p]
  BY <1>0, <1>3
<1>6. \A p \in Pairs : born'[p] <= now'
  BY <1>0, <1>2, <1>3
<1>7. ASSUME NEW p \in issued, Shut(p) PROVE Shut(p)'
  <2>1. p \in Pairs /\ born'[p] = born[p] /\ born[p] \in Nat /\ born[p] <= now
    BY <1>0, <1>5
  <2>2. blackExp'[p] = blackExp[p] \/ blackExp'[p] = now + BlackTTL
    BY <1>0, <1>4, <2>1
  <2> QED
    BY <1>0, <1>7, <2>1, <2>2, AuthAssumption, BlacklistCovers DEF Shut
<1> QED
  BY <1>0, <1>1, <1>2, <1>5, <1>6, <1>7

\* The three writes of a refresh key, and who makes them.
LEMMA KeyWrites ==
    ASSUME TypeOK, PairInv, CallsInv, [Next]_vars
    PROVE  \/ UNCHANGED <<keyExp, spent>> /\ issued' = issued
           \/ \E p \in Pairs : /\ p \notin issued /\ born[p] # 0
                               /\ keyExp' = [keyExp EXCEPT ![p] = now + KeyTTL]
                               /\ issued' = issued \cup {p}
                               /\ spent' = spent
           \/ \E p \in issued : /\ keyExp' = [keyExp EXCEPT ![p] = 0]
                                /\ spent' = spent \cup {p}
                                /\ issued' = issued
<1>1. \A c \in Calls :
         /\ call[c].pc = "store" => /\ call[c].other \in Pairs
                                    /\ call[c].other \notin issued
                                    /\ born[call[c].other] # 0
         /\ call[c].pc = "revoke" => call[c].pair \in issued
         /\ call[c].pc = "forget" => call[c].other \in issued
  BY DEF TypeOK, HasTokens, CallsInv, CallInv
<1> QED
  BY <1>1 DEF Next, SignIn, RefreshBegin, RefreshRevoke, GuardBegin, StoreKey,
         RefreshCheck, GuardCheck, LogoutBlacklist, LogoutRevoke,
         LogoutRevokeFails, Disconnect, Fail, Tick, Crash, vars, pairVars, redisVars

LEMMA NextPair == TypeOK /\ Inv /\ [Next]_vars => PairInv'
<1> SUFFICES ASSUME TypeOK, Inv, [Next]_vars PROVE PairInv'
  OBVIOUS
<1>0. PairInv /\ CallsInv /\ keyExp \in [Pairs -> Nat] /\ issued \subseteq Pairs
  BY DEF Inv, TypeOK
<1>1. /\ issued \subseteq issued' /\ spent \subseteq spent'
      /\ loggedOut \subseteq loggedOut'
      /\ \A p \in Pairs : born[p] # 0 => born'[p] = born[p]
      /\ \A p \in Pairs : born'[p] <= now'
      /\ \A p \in issued : Shut(p) => Shut(p)'
  BY <1>0, Monotone
<1>2. /\ \A p \in issued' : born'[p] # 0
      /\ spent' \subseteq issued'
      /\ \A p \in spent' : keyExp'[p] = 0
  <2>1. /\ \A p \in issued : p \in Pairs /\ born[p] # 0
        /\ spent \subseteq issued
        /\ \A p \in spent : keyExp[p] = 0
    BY <1>0 DEF PairInv
  <2>2. CASE UNCHANGED <<keyExp, spent>> /\ issued' = issued
    BY <1>1, <2>1, <2>2
  <2>3. CASE \E p \in Pairs : /\ p \notin issued /\ born[p] # 0
                              /\ keyExp' = [keyExp EXCEPT ![p] = now + KeyTTL]
                              /\ issued' = issued \cup {p}
                              /\ spent' = spent
    BY <1>0, <1>1, <2>1, <2>3
  <2>4. CASE \E p \in issued : /\ keyExp' = [keyExp EXCEPT ![p] = 0]
                               /\ spent' = spent \cup {p}
                               /\ issued' = issued
    BY <1>0, <1>1, <2>1, <2>4
  <2> QED
    BY <1>0, <2>2, <2>3, <2>4, KeyWrites
<1>3. ASSUME NEW p \in Pairs, parent'[p] # NoPair PROVE parent'[p] \in spent'
  <2>1. \/ parent'[p] = parent[p]
        \/ parent'[p] = NoPair
        \/ parent'[p] \in spent'
    <3>1. parent \in [Pairs -> Pairs \cup {NoPair}]
      BY DEF TypeOK
    <3> QED
      BY <3>1 DEF Next, SignIn, RefreshBegin, RefreshRevoke, GuardBegin, StoreKey,
             RefreshCheck, GuardCheck, LogoutBlacklist, LogoutRevoke,
             LogoutRevokeFails, Disconnect, Fail, Tick, Crash, vars, pairVars, Sign
  <2> QED
    BY <1>0, <1>1, <1>3, <2>1 DEF PairInv
<1>4. ASSUME NEW p \in loggedOut' PROVE p \in issued' /\ Shut(p)'
  <2>1. CASE p \in loggedOut
    BY <1>0, <1>1, <2>1 DEF PairInv
  <2>2. CASE p \notin loggedOut
    <3>1. PICK c \in Calls :
             /\ p = call[c].pair
             /\ \/ /\ call[c].pc = "blacklist"
                   /\ blackExp' = [blackExp EXCEPT ![p] = now + BlackTTL]
                   /\ born' = born
                \/ call[c].pc = "forget"
      BY <2>2 DEF Next, SignIn, RefreshBegin, RefreshRevoke, GuardBegin, StoreKey,
             RefreshCheck, GuardCheck, LogoutBlacklist, LogoutRevoke,
             LogoutRevokeFails, Disconnect, Fail, Tick, Crash, vars, pairVars, Confirm
    <3>2. p \in issued /\ (call[c].pc = "forget" => Shut(p))
      BY <1>0, <3>1 DEF CallsInv, CallInv
    <3>3. CASE call[c].pc = "forget"
      BY <1>1, <3>2, <3>3
    <3>4. CASE call[c].pc # "forget"
      <4>1. /\ now \in Nat /\ born[p] \in Nat /\ born[p] <= now
            /\ p \in Pairs /\ blackExp \in [Pairs -> Nat]
        BY <1>0, <3>2 DEF TypeOK, PairInv
      <4>2. blackExp'[p] = now + BlackTTL /\ born'[p] = born[p]
        BY <3>1, <3>4, <4>1
      <4> QED
        BY <1>1, <3>2, <4>1, <4>2, AuthAssumption, BlacklistCovers DEF Shut
    <3> QED
      BY <3>3, <3>4
  <2> QED
    BY <2>1, <2>2
<1> QED
  BY <1>1, <1>2, <1>3, <1>4 DEF PairInv

\* A step that signs a pair issues none.
LEMMA SignIssuesNone ==
    ASSUME TypeOK, PairInv, [Next]_vars, NEW q \in Pairs, NEW f, Sign(q, f)
    PROVE  issued' = issued /\ q \notin issued /\ born'[q] # 0
<1>1. now \in Nat \ {0} /\ born \in [Pairs -> Nat] /\ born[q] = 0 /\ born'[q] = now
  BY DEF TypeOK, Sign
<1>2. q \notin issued
  BY <1>1 DEF PairInv
<1>3. born' # born
  BY <1>1
<1> QED
  BY <1>1, <1>2, <1>3
     DEF Next, SignIn, RefreshBegin, RefreshRevoke, GuardBegin, StoreKey,
         RefreshCheck, GuardCheck, LogoutBlacklist, LogoutRevoke,
         LogoutRevokeFails, Disconnect, Fail, Tick, Crash, vars, pairVars

LEMMA NextCalls == TypeOK /\ Inv /\ [Next]_vars => CallsInv'
<1> SUFFICES ASSUME TypeOK, Inv, [Next]_vars, NEW x \in Calls PROVE CallInv(x)'
  BY DEF CallsInv
<1>0. /\ PairInv /\ CallsInv /\ CallInv(x) /\ call[x] \in CallRec
      /\ HasTokens(call[x])
      /\ issued \subseteq Pairs /\ loggedOut \subseteq Pairs
      /\ now \in Nat \ {0} /\ born \in [Pairs -> Nat]
  BY DEF Inv, CallsInv, TypeOK
<1>1. /\ issued \subseteq issued' /\ spent \subseteq spent'
      /\ loggedOut \subseteq loggedOut'
      /\ \A p \in Pairs : born[p] # 0 => born'[p] = born[p]
      /\ \A p \in issued : Shut(p) => Shut(p)'
  BY <1>0, Monotone
<1>2. \A p \in loggedOut : p \in issued /\ born[p] # 0 /\ Shut(p)
  BY <1>0 DEF PairInv
<1>3. CallStep(x)
  BY CallSteps
<1>4. CASE call'[x] = call[x]
  <2>1. call[x].pc = "store" => call[x].other \notin issued'
    <3>1. \/ issued' = issued
          \/ \E c \in Calls : /\ call[c].pc = "store"
                              /\ call'[c].pc = "ok"
                              /\ issued' = issued \cup {call[c].other}
      <4>1. \A c \in Calls : StoreKey(c) => call'[c].pc = "ok"
        BY DEF StoreKey, GoTo, TypeOK, CallRec
      <4> QED
        BY <4>1 DEF Next, SignIn, RefreshBegin, RefreshRevoke, GuardBegin, StoreKey,
             RefreshCheck, GuardCheck, LogoutBlacklist, LogoutRevoke,
             LogoutRevokeFails, Disconnect, Fail, Tick, Crash, vars, pairVars
    <3> QED
      BY <1>0, <1>4, <3>1 DEF CallInv, Inv, StoreInv
  <2>2. call[x].pc = "store" => born'[call[x].other] # 0
    BY <1>0, <1>1 DEF CallInv, HasTokens
  <2> QED
    BY <1>0, <1>1, <1>2, <1>4, <2>1, <2>2 DEF CallInv
<1>5. CASE Ends(x)
  BY <1>0, <1>1, <1>2, <1>5 DEF Ends, Ended, CallInv, CallRec
<1>6. CASE FindsKey(x)
  <2>1. ~call[x].late
    BY <1>0, <1>6 DEF FindsKey, RefreshKeyLive, CallInv, PairInv
  <2> QED
    BY <1>0, <1>1, <1>6, <2>1 DEF FindsKey, CallInv, CallRec, Guarded
<1>7. CASE Forgets(x)
  <2>1. born'[call[x].pair] + AccessTTL <= blackExp'[call[x].pair]
    <3>1. /\ call[x].pair \in issued /\ blackExp \in [Pairs -> Nat]
          /\ born[call[x].pair] # 0 /\ born[call[x].pair] <= now
      BY <1>0, <1>7 DEF Forgets, CallInv, PairInv, TypeOK
    <3>2. blackExp'[call[x].pair] = now + BlackTTL
      BY <1>0, <1>7, <3>1 DEF Forgets
    <3>3. /\ born'[call[x].pair] = born[call[x].pair]
          /\ born[call[x].pair] \in Nat
      BY <1>0, <1>1, <3>1
    <3> QED
      BY <1>0, <3>1, <3>2, <3>3, AuthAssumption, BlacklistCovers
  <2>2. call'[x].pair = call[x].pair /\ call'[x].pc = "forget"
    BY <1>0, <1>7 DEF Forgets, CallRec
  <2> QED
    BY <1>0, <1>1, <1>2, <1>7, <2>1, <2>2 DEF Forgets, CallInv, CallRec, Guarded, Shut
<1>8. CASE Passes(x)
  <2>1. call[x].late => now >= born[call[x].pair] + AccessTTL
    BY <1>0, <1>2, <1>8, AuthAssumption
       DEF Passes, Blacklisted, CallInv, Shut, TypeOK
  <2> QED
    BY <1>0, <1>1, <1>2, <1>8, <2>1 DEF Passes, CallInv, CallRec, Guarded
<1>9. CASE Rotates(x)
  <2>1. PICK q \in Pairs : /\ call'[x] = [call[x] EXCEPT !.pc = "store", !.other = q]
                           /\ Sign(q, call[x].pair)
    BY <1>9 DEF Rotates
  <2>2. born'[q] # 0 /\ q \notin issued /\ issued' = issued
    BY <1>0, <2>1, SignIssuesNone
  <2>3. ~call[x].late /\ call[x].op = "refresh"
    BY <1>0, <1>9 DEF Rotates, CallInv
  <2> QED
    BY <1>0, <2>1, <2>2, <2>3 DEF CallInv, CallRec, Guarded
<1>10. CASE Begins(x)
  <2>1. PICK op \in AllOps, p \in Pairs \cup {NoPair},
             q \in Pairs \cup {NoPair}, late \in BOOLEAN, pc \in Waiting :
          /\ call'[x] = [op |-> op, pc |-> pc, pair |-> p, other |-> q,
                         late |-> late, at |-> 0]
          /\ \/ /\ op = "signin" /\ pc = "store" /\ q \in Pairs
                /\ Sign(q, NoPair) /\ ~late
             \/ /\ op = "refresh" /\ pc = "check" /\ p \in issued
                /\ q = NoPair /\ (late <=> p \in spent)
             \/ /\ op \in Guarded /\ pc = "guard" /\ p \in issued
                /\ q \in issued \cup {NoPair} /\ (late <=> p \in loggedOut)
    BY <1>10 DEF Begins
  <2>2. CASE op = "signin" /\ pc = "store" /\ q \in Pairs /\ Sign(q, NoPair) /\ ~late
    <3>1. born'[q] # 0 /\ q \notin issued /\ issued' = issued
      BY <1>0, <2>2, SignIssuesNone
    <3> QED
      BY <2>1, <2>2, <3>1 DEF CallInv, Guarded
  <2>3. CASE /\ op = "refresh" /\ pc = "check" /\ p \in issued
             /\ q = NoPair /\ (late <=> p \in spent)
    BY <1>1, <2>1, <2>3 DEF CallInv, Guarded
  <2>4. CASE /\ op \in Guarded /\ pc = "guard" /\ p \in issued
             /\ q \in issued \cup {NoPair} /\ (late <=> p \in loggedOut)
    BY <1>1, <2>1, <2>4 DEF CallInv, Guarded
  <2> QED
    BY <2>1, <2>2, <2>3, <2>4
<1> QED
  BY <1>3, <1>4, <1>5, <1>6, <1>7, <1>8, <1>9, <1>10 DEF CallStep

\* One step makes at most one activation store, and for a pair just signed.
LEMMA NextStore == TypeOK /\ Inv /\ [Next]_vars => StoreInv'
<1> SUFFICES ASSUME TypeOK, Inv, [Next]_vars, NEW x \in Calls, NEW y \in Calls,
                    x # y, call'[x].pc = "store", call'[y].pc = "store"
             PROVE  call'[x].other # call'[y].other
  BY DEF StoreInv
<1> DEFINE Fresh(z) == call'[z].other \in Pairs /\ Sign(call'[z].other, parent'[call'[z].other])
<1>0. /\ call \in [Calls -> CallRec] /\ PairInv /\ CallsInv /\ StoreInv
      /\ parent \in [Pairs -> Pairs \cup {NoPair}]
      /\ \A z \in Calls : HasTokens(call[z])
  BY DEF TypeOK, Inv
<1>1. ASSUME NEW z \in Calls, call'[z].pc = "store"
      PROVE  call'[z] = call[z] \/ Fresh(z)
  <2>1. CallStep(z)
    BY CallSteps
  <2>2. CASE Begins(z)
    BY <1>0, <1>1, <2>2 DEF Begins, Sign
  <2>3. CASE Rotates(z)
    BY <1>0, <1>1, <2>3 DEF Rotates, Sign, CallRec
  <2>4. call[z] \in CallRec
    BY <1>0
  <2>5. ~Passes(z) /\ ~FindsKey(z) /\ ~Forgets(z) /\ ~Ends(z)
    BY <1>1, <2>4 DEF Passes, FindsKey, Forgets, Ends, Ended, CallRec
  <2> QED
    BY <2>1, <2>2, <2>3, <2>5 DEF CallStep
<1>2. \/ \A z \in Calls : call'[z] = call[z] \/ call'[z].pc # "store"
      \/ \E c \in Calls : \A z \in Calls : z # c => call'[z] = call[z]
  <2>1. CASE Crash
    BY <1>0, <2>1 DEF Crash, CallRec, Waiting
  <2>2. ASSUME NEW c \in Calls,
               \/ \E p \in Pairs : SignIn(c, p) \/ RefreshBegin(c, p) \/ RefreshRevoke(c, p)
               \/ \E op \in Ops, p \in Pairs, q \in Pairs \cup {NoPair} : GuardBegin(c, op, p, q)
        PROVE  \A z \in Calls : z # c => call'[z] = call[z]
    BY <1>0, <2>2 DEF SignIn, RefreshBegin, RefreshRevoke, GuardBegin, Begin
  <2>3. ASSUME NEW c \in Calls,
               \/ StoreKey(c) \/ RefreshCheck(c) \/ GuardCheck(c) \/ LogoutBlacklist(c)
               \/ LogoutRevoke(c) \/ LogoutRevokeFails(c) \/ Disconnect(c) \/ Fail(c)
        PROVE  \A z \in Calls : z # c => call'[z] = call[z]
    BY <1>0, <2>3 DEF StoreKey, RefreshCheck, GuardCheck, LogoutBlacklist, LogoutRevoke,
                      LogoutRevokeFails, Disconnect, Fail, GoTo, Confirm
  <2>4. CASE Tick \/ UNCHANGED vars
    BY <2>4 DEF Tick, vars
  <2> QED
    BY <2>1, <2>2, <2>3, <2>4 DEF Next
<1>3. ASSUME NEW u \in Calls, NEW v \in Calls, call'[u] = call[u],
             call'[u].pc = "store", Fresh(v)
      PROVE  call'[u].other # call'[v].other
  <2>1. born[call[u].other] # 0
    BY <1>0, <1>3 DEF CallsInv, CallInv
  <2> QED
    BY <1>3, <2>1 DEF Sign
<1>4. CASE call'[x] = call[x] /\ call'[y] = call[y]
  BY <1>0, <1>4 DEF StoreInv
<1>5. call'[x] = call[x] \/ call'[y] = call[y]
  BY <1>2
<1> QED
  BY <1>1, <1>3, <1>4, <1>5

LEMMA InitInv == Init => Inv
  BY DEF Init, Inv, PairInv, CallsInv, CallInv, StoreInv, Guarded

\* The inductive step of the invariant the three theorems rest on.
LEMMA NextInv == TypeOK /\ Inv /\ [Next]_vars => Inv'
  BY NextPair, NextCalls, NextStore DEF Inv

LEMMA Invariance == Spec => [](TypeOK /\ Inv)
<1>1. TypeOK /\ Inv /\ [Next]_vars => (TypeOK /\ Inv)'
  BY NextType, NextInv
<1> QED
  BY <1>1, InitType, InitInv, PTL DEF Spec

\* A confirmed logout keeps every later use of that access token out, for all
\* lifetimes with AccessTTL <= BlackTTL (middleware/auth.ts:33-44).
THEOREM LogoutEffective == Spec => []LoggedOutStaysOut
<1>1. Inv => LoggedOutStaysOut
  BY DEF Inv, CallsInv, CallInv, LoggedOutStaysOut, Guarded
<1> QED
  BY <1>1, Invariance, PTL

\* A refresh that begins once its token is spent signs nothing
\* (routes/auth.ts:161-168).
THEOREM NoLateRefresh == Spec => []SpentStaysSpent
<1>1. Inv => SpentStaysSpent
  BY DEF Inv, CallsInv, CallInv, SpentStaysSpent
<1> QED
  BY <1>1, Invariance, PTL

\* Rotation kills the token that was exchanged (routes/auth.ts:168-170).
THEOREM RotationRevokes == Spec => []OldTokenDead
<1>1. Inv => OldTokenDead
  BY DEF Inv, PairInv, OldTokenDead
<1> QED
  BY <1>1, Invariance, PTL
=============================================================================
