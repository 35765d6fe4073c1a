-------------------------- MODULE MessageSendProofs --------------------------
(***************************************************************************)
(* Proofs about MessageSend, for every set of users, sockets, requests and *)
(* every window.                                                           *)
(***************************************************************************)
EXTENDS MessageSend, TLAPS

-----------------------------------------------------------------------------
(* The inductive invariant, in four named parts *)

\* A claimed nonce is protected at least until its window has passed.
NonceInv ==
    /\ \A r \in Sends : acceptedAt[r] # 0 =>
          /\ pc[r] \notin {"idle", "nonce"}
          /\ acceptedAt[r] + NonceTTL <= nonceExp[req[r].nonce]
    /\ NonceWindow

\* Rooms and joins in progress hold participants' sockets only; participants
\* are those of a conversation that exists or existed.
RoomInv ==
    /\ \A c \in Convs : conv[c].st = "none" => conv[c].participants = {}
    /\ \A c \in Convs : \A s \in rooms[c] : UserOf[s] \in conv[c].participants
    /\ \A s \in Sockets, c \in Convs :
          <<s, c>> \in joining => UserOf[s] \in conv[c].participants

\* What the control state of an activation says about its message.
Allowed(r) == UserOf[req[r].socket] \in conv[req[r].conv].participants

Flow(r) ==
    /\ pc[r] \in {"idle", "nonce", "check", "create"} => msg[r] = "none"
    /\ pc[r] \in {"create", "update", "emit"} => Allowed(r)
    /\ pc[r] \in {"update", "emit"} => msg[r] # "none"
    /\ ack[r] # "none" => pc[r] = "done"
    /\ ack[r] = "ok" => msg[r] # "none" /\ Allowed(r)
    /\ ack[r] \in {"replay", "denied"} => msg[r] = "none"

FlowInv == \A r \in Sends : Flow(r)

\* Only acknowledged messages were received, and by participants.
InboxInv ==
    \A s \in Sockets : \A r \in inbox[s] :
        /\ ack[r] = "ok"
        /\ UserOf[s] \in conv[req[r].conv].participants

-----------------------------------------------------------------------------
(* Type correctness *)

LEMMA InitType == Init => TypeOK
  BY SendAssumption DEF Init, TypeOK, ConvDoc, InFlight

\* The two updates a conversation document undergoes keep its type.
LEMMA ConvDocUpdate ==
    ASSUME NEW d \in ConvDoc, NEW t \in Nat
    PROVE  /\ [d EXCEPT !.lastMessageAt = t] \in ConvDoc
           /\ [d EXCEPT !.lastMessageAt = t].st = d.st
           /\ [d EXCEPT !.lastMessageAt = t].participants = d.participants
           /\ [d EXCEPT !.st = "gone"] \in ConvDoc
           /\ [d EXCEPT !.st = "gone"].st = "gone"
           /\ [d EXCEPT !.st = "gone"].participants = d.participants
  BY DEF ConvDoc

LEMMA NextType == TypeOK /\ [Next]_vars => TypeOK'
<1> SUFFICES ASSUME TypeOK, [Next]_vars PROVE TypeOK'
  OBVIOUS
<1> USE SendAssumption DEF TypeOK, ConvDoc, InFlight
<1>1. ASSUME NEW r \in Sends, NEW q \in Requests, SendArrive(r, q)
      PROVE TypeOK'
  BY <1>1 DEF SendArrive, nonceVars, roomVars
<1>2. ASSUME NEW r \in Sends, SendClaimNonce(r) PROVE TypeOK'
  BY <1>2 DEF SendClaimNonce, roomVars
<1>3. ASSUME NEW r \in Sends, SendReplay(r) PROVE TypeOK'
  BY <1>3 DEF SendReplay, nonceVars, roomVars
<1>4. ASSUME NEW r \in Sends, SendAllowed(r) PROVE TypeOK'
  BY <1>4 DEF SendAllowed, nonceVars, roomVars
<1>5. ASSUME NEW r \in Sends, SendDenied(r) PROVE TypeOK'
  BY <1>5 DEF SendDenied, nonceVars, roomVars
<1>6. ASSUME NEW r \in Sends, SendCreate(r) PROVE TypeOK'
  BY <1>6 DEF SendCreate, nonceVars, roomVars
<1>7. ASSUME NEW r \in Sends, SendUpdate(r) PROVE TypeOK'
  <2>1. /\ req[r] \in Requests
        /\ req[r].conv \in Convs
        /\ stamp[r] \in Nat
    BY <1>7 DEF SendUpdate
  <2>2. [conv[req[r].conv] EXCEPT !.lastMessageAt = stamp[r]] \in ConvDoc
    BY <2>1, ConvDocUpdate
  <2>3. conv' \in [Convs -> ConvDoc]
    BY <1>7, <2>1, <2>2 DEF SendUpdate, MessageTime
  <2> QED
    BY <1>7, <2>3 DEF SendUpdate, nonceVars, roomVars
<1>8. ASSUME NEW r \in Sends, SendEmit(r) PROVE TypeOK'
  BY <1>8 DEF SendEmit, nonceVars
<1>9. ASSUME NEW r \in Sends, SendError(r) PROVE TypeOK'
  BY <1>9 DEF SendError, nonceVars, roomVars
<1>10. ASSUME NEW r \in Sends, MsgRemove(r) PROVE TypeOK'
  BY <1>10 DEF MsgRemove, sendVars, nonceVars, roomVars
<1>11. ASSUME NEW s \in Sockets, Connect(s) PROVE TypeOK'
  BY <1>11 DEF Connect, sendVars, nonceVars
<1>12. ASSUME NEW s \in Sockets, Disconnect(s) PROVE TypeOK'
  BY <1>12 DEF Disconnect, sendVars, nonceVars
<1>13. ASSUME NEW s \in Sockets, NEW c \in Convs, Join(s, c) PROVE TypeOK'
  BY <1>13 DEF Join, sendVars, nonceVars
<1>14. ASSUME NEW s \in Sockets, NEW c \in Convs, JoinDone(s, c) PROVE TypeOK'
  BY <1>14 DEF JoinDone, sendVars, nonceVars
<1>15. ASSUME NEW s \in Sockets, NEW c \in Convs, Leave(s, c) PROVE TypeOK'
  BY <1>15 DEF Leave, sendVars, nonceVars
<1>16. ASSUME NEW c \in Convs, NEW g \in Groups, ConvCreate(c, g) PROVE TypeOK'
  BY <1>16 DEF ConvCreate, sendVars, nonceVars, roomVars
<1>17. ASSUME NEW c \in Convs, ConvRemove(c) PROVE TypeOK'
  <2>1. [conv[c] EXCEPT !.st = "gone"] \in ConvDoc
    BY ConvDocUpdate
  <2>2. conv' \in [Convs -> ConvDoc]
    BY <1>17, <2>1 DEF ConvRemove
  <2> QED
    BY <1>17, <2>2 DEF ConvRemove, sendVars, nonceVars, roomVars
<1>18. CASE Tick
  BY <1>18 DEF Tick, sendVars, nonceVars, roomVars
<1>19. CASE Crash
  BY <1>19 DEF Crash, nonceVars
<1>20. CASE UNCHANGED vars
  BY <1>20 DEF vars, sendVars, nonceVars, roomVars
<1> QED
  BY <1>1, <1>2, <1>3, <1>4, <1>5, <1>6, <1>7, <1>8, <1>9, <1>10, <1>11,
     <1>12, <1>13, <1>14, <1>15, <1>16, <1>17, <1>18, <1>19, <1>20
     DEF Next, SendStep

\* The state always has the declared types; in particular a payload is known
\* for every activation that has started.
THEOREM TypeCorrect == Spec => []TypeOK
<1>1. Init => TypeOK
  BY InitType
<1>2. TypeOK /\ [Next]_vars => TypeOK'
  BY NextType
<1> QED
  BY <1>1, <1>2, PTL DEF Spec

-----------------------------------------------------------------------------
(* Replay protection *)

\* Only two actions touch what NonceInv speaks of: the arrival of a payload
\* and the claim; every other step keeps payloads and nonces, and never
\* takes an activation back to its start.
LEMMA NonceFrame ==
    ASSUME TypeOK, NonceInv,
           UNCHANGED <<req, nonceExp, acceptedAt>>,
           \A r \in Sends : pc'[r] \in {"idle", "nonce"} => pc'[r] = pc[r]
    PROVE  NonceInv'
  BY DEF NonceInv, NonceWindow, TypeOK

LEMMA NextNonce == TypeOK /\ NonceInv /\ [Next]_vars => NonceInv'
<1> SUFFICES ASSUME TypeOK, NonceInv, [Next]_vars PROVE NonceInv'
  OBVIOUS
<1>1. ASSUME NEW r \in Sends, NEW q \in Requests, SendArrive(r, q)
      PROVE NonceInv'
  <2>1. acceptedAt[r] = 0
    BY <1>1 DEF SendArrive, NonceInv
  <2>2. /\ UNCHANGED <<nonceExp, acceptedAt>>
        /\ \A x \in Sends \ {r} : req'[x] = req[x] /\ pc'[x] = pc[x]
    BY <1>1 DEF SendArrive, TypeOK, nonceVars
  <2> QED
    BY <2>1, <2>2 DEF NonceInv, NonceWindow
<1>2. ASSUME NEW r \in Sends, SendClaimNonce(r) PROVE NonceInv'
  <2> DEFINE n == req[r].nonce
  <2>1. /\ acceptedAt[r] = 0 /\ nonceExp[n] <= now /\ n \in Nonces
        /\ req' = req
    BY <1>2, SendAssumption DEF SendClaimNonce, Claimed, NonceInv, TypeOK
  <2>2. /\ acceptedAt'[r] = now /\ nonceExp'[n] = now + NonceTTL
        /\ \A x \in Sends \ {r} : acceptedAt'[x] = acceptedAt[x]
        /\ \A k \in Nonces \ {n} : nonceExp'[k] = nonceExp[k]
        /\ pc'[r] = "check"
        /\ \A x \in Sends \ {r} : pc'[x] = pc[x]
    BY <1>2, <2>1 DEF SendClaimNonce, TypeOK
  <2>3. /\ now \in Nat /\ NonceTTL \in Nat
        /\ \A x \in Sends : acceptedAt[x] \in Nat
        /\ \A k \in Nonces : nonceExp[k] \in Nat
    BY SendAssumption DEF TypeOK
  <2>4. ASSUME NEW x \in Sends \ {r}, acceptedAt[x] # 0
        PROVE  /\ req[x].nonce \in Nonces
               /\ acceptedAt[x] + NonceTTL <= nonceExp'[req[x].nonce]
               /\ req[x].nonce = n => acceptedAt[x] + NonceTTL <= now
    <3>1. req[x] \in Requests /\ req[x].nonce \in Nonces
      BY <2>4, SendAssumption DEF NonceInv, TypeOK
    <3>2. acceptedAt[x] + NonceTTL <= nonceExp[req[x].nonce]
      BY <2>4 DEF NonceInv
    <3> QED
      BY <3>1, <3>2, <2>1, <2>2, <2>3
  <2>5. ASSUME NEW x \in Sends, acceptedAt'[x] # 0
        PROVE  /\ pc'[x] \notin {"idle", "nonce"}
               /\ acceptedAt'[x] + NonceTTL <= nonceExp'[req'[x].nonce]
    <3>1. CASE x = r
      BY <3>1, <2>1, <2>2, <2>3
    <3>2. CASE x # r
      BY <3>2, <2>1, <2>2, <2>4, <2>5 DEF NonceInv
    <3> QED
      BY <3>1, <3>2
  <2>6. NonceWindow'
    <3> SUFFICES ASSUME NEW r1 \in Sends, NEW r2 \in Sends, r1 # r2,
                        acceptedAt'[r1] # 0, acceptedAt'[r2] # 0,
                        req'[r1].nonce = req'[r2].nonce
                 PROVE  \/ acceptedAt'[r1] + NonceTTL <= acceptedAt'[r2]
                        \/ acceptedAt'[r2] + NonceTTL <= acceptedAt'[r1]
      BY DEF NonceWindow
    <3>1. CASE r1 = r
      BY <3>1, <2>1, <2>2, <2>4
    <3>2. CASE r2 = r
      BY <3>2, <2>1, <2>2, <2>4
    <3>3. CASE r1 # r /\ r2 # r
      BY <3>3, <2>1, <2>2 DEF NonceInv, NonceWindow
    <3> QED
      BY <3>1, <3>2, <3>3
  <2> QED
    BY <2>5, <2>6 DEF NonceInv
<1>3. ASSUME NEW r \in Sends, \/ SendReplay(r) \/ SendAllowed(r)
                               \/ SendDenied(r) \/ SendCreate(r)
                               \/ SendUpdate(r) \/ SendEmit(r)
                               \/ SendError(r) \/ MsgRemove(r)
      PROVE NonceInv'
  <2>1. UNCHANGED <<req, nonceExp, acceptedAt>>
    BY <1>3 DEF SendReplay, SendAllowed, SendDenied, SendCreate, SendUpdate,
                SendEmit, SendError, MsgRemove, sendVars, nonceVars
  <2>2. \A x \in Sends : pc'[x] \in {"idle", "nonce"} => pc'[x] = pc[x]
    BY <1>3 DEF SendReplay, SendAllowed, SendDenied, SendCreate, SendUpdate,
                SendEmit, SendError, MsgRemove, sendVars, TypeOK
  <2> QED
    BY <2>1, <2>2, NonceFrame
<1>4. CASE UNCHANGED <<pc, req, nonceExp, acceptedAt>>
  BY <1>4, NonceFrame
<1>5. CASE Crash
  <2>1. \A x \in Sends : pc'[x] \in {"idle", "nonce"} => pc'[x] = pc[x]
    BY <1>5 DEF Crash, InFlight
  <2> QED
    BY <1>5, <2>1, NonceFrame DEF Crash, nonceVars
<1>6. CASE \/ \E s \in Sockets : Connect(s) \/ Disconnect(s)
           \/ \E s \in Sockets, c \in Convs : Join(s, c) \/ JoinDone(s, c) \/ Leave(s, c)
           \/ \E c \in Convs, g \in Groups : ConvCreate(c, g)
           \/ \E c \in Convs : ConvRemove(c)
           \/ Tick
           \/ UNCHANGED vars
  BY <1>6, <1>4 DEF Connect, Disconnect, Join, JoinDone, Leave, ConvCreate,
                    ConvRemove, Tick, vars, sendVars, nonceVars
<1> QED
  BY <1>1, <1>2, <1>3, <1>5, <1>6 DEF Next, SendStep

\* Two sends that claim one nonce do so at least NonceTTL apart: for every
\* number of concurrent handlers, failures and restarts.
THEOREM ReplayProtection == Spec => []NonceWindow
<1>1. Init => NonceInv
  BY DEF Init, NonceInv, NonceWindow
<1>2. TypeOK /\ NonceInv /\ [Next]_vars => NonceInv'
  BY NextNonce
<1>3. NonceInv => NonceWindow
  BY DEF NonceInv
<1> QED
  BY <1>1, <1>2, <1>3, TypeCorrect, PTL DEF Spec

-----------------------------------------------------------------------------
(* Who receives, and what clients are told *)

\* The steps that may write a conversation document.
LEMMA ConvChanges ==
    ASSUME [Next]_vars
    PROVE  \/ UNCHANGED conv
           \/ \E r \in Sends : SendUpdate(r)
           \/ \E k \in Convs, g \in Groups : ConvCreate(k, g)
           \/ \E k \in Convs : ConvRemove(k)
  BY DEF Next, SendStep, SendArrive, SendClaimNonce, SendReplay, SendAllowed,
         SendDenied, SendCreate, SendEmit, SendError, MsgRemove, Connect,
         Disconnect, Join, JoinDone, Leave, Tick, Crash, vars

\* No step takes a participant out of a conversation.
LEMMA ParticipantsKept ==
    ASSUME TypeOK, RoomInv, [Next]_vars
    PROVE  \A c \in Convs :
              /\ conv[c].participants \subseteq conv'[c].participants
              /\ conv'[c].st = "none" => conv'[c].participants = {}
<1>1. CASE UNCHANGED conv
  BY <1>1 DEF RoomInv
<1>2. ASSUME NEW r \in Sends, SendUpdate(r)
      PROVE  \A c \in Convs : /\ conv'[c].st = conv[c].st
                               /\ conv'[c].participants = conv[c].participants
  <2>1. /\ stamp[r] \in Nat /\ req[r].conv \in Convs
    BY <1>2, SendAssumption DEF SendUpdate, TypeOK
  <2>2. \A c \in Convs : \/ conv'[c] = conv[c]
                          \/ conv'[c] = [conv[c] EXCEPT !.lastMessageAt = stamp[r]]
    BY <1>2, <2>1 DEF SendUpdate, MessageTime, TypeOK
  <2>3. ASSUME NEW c \in Convs
        PROVE  /\ [conv[c] EXCEPT !.lastMessageAt = stamp[r]].st = conv[c].st
               /\ [conv[c] EXCEPT !.lastMessageAt = stamp[r]].participants
                     = conv[c].participants
    <3>1. conv[c] \in ConvDoc
      BY DEF TypeOK
    <3> QED
      BY <3>1, <2>1, ConvDocUpdate
  <2> QED
    BY <2>2, <2>3
<1>3. ASSUME NEW k \in Convs, NEW g \in Groups, ConvCreate(k, g)
      PROVE  \A c \in Convs : \/ conv'[c] = conv[c]
                               \/ /\ conv[c].st = "none"
                                  /\ conv'[c].st = "live"
  BY <1>3 DEF ConvCreate, TypeOK
<1>4. ASSUME NEW k \in Convs, ConvRemove(k)
      PROVE  \A c \in Convs : \/ conv'[c] = conv[c]
                               \/ /\ conv'[c].st = "gone"
                                  /\ conv'[c].participants = conv[c].participants
  <2>1. \A c \in Convs : \/ conv'[c] = conv[c]
                          \/ conv'[c] = [conv[c] EXCEPT !.st = "gone"]
    BY <1>4 DEF ConvRemove, TypeOK
  <2>2. ASSUME NEW c \in Convs
        PROVE  /\ [conv[c] EXCEPT !.st = "gone"].st = "gone"
               /\ [conv[c] EXCEPT !.st = "gone"].participants
                     = conv[c].participants
    <3>1. conv[c] \in ConvDoc
      BY DEF TypeOK
    <3> QED
      BY <3>1, ConvDocUpdate
  <2> QED
    BY <2>1, <2>2
<1>5. CASE \E r \in Sends : SendUpdate(r)
  BY <1>2, <1>5 DEF RoomInv
<1>6. CASE \E k \in Convs, g \in Groups : ConvCreate(k, g)
  BY <1>3, <1>6 DEF RoomInv
<1>7. CASE \E k \in Convs : ConvRemove(k)
  BY <1>4, <1>7 DEF RoomInv
<1> QED
  BY <1>1, <1>5, <1>6, <1>7, ConvChanges

LEMMA NextRoom == TypeOK /\ RoomInv /\ [Next]_vars => RoomInv'
<1> SUFFICES ASSUME TypeOK, RoomInv, [Next]_vars PROVE RoomInv'
  OBVIOUS
<1>1. \A c \in Convs :
         /\ conv[c].participants \subseteq conv'[c].participants
         /\ conv'[c].st = "none" => conv'[c].participants = {}
  BY ParticipantsKept
<1>2. \A c \in Convs : \A s \in rooms'[c] : s \in rooms[c] \/ <<s, c>> \in joining
  <2>1. CASE \E s \in Sockets, c \in Convs : JoinDone(s, c)
    BY <2>1 DEF JoinDone, TypeOK
  <2>2. CASE \E s \in Sockets, c \in Convs : Leave(s, c)
    BY <2>2 DEF Leave, TypeOK
  <2>3. CASE \E s \in Sockets : Disconnect(s)
    BY <2>3 DEF Disconnect
  <2>4. CASE Crash
    BY <2>4 DEF Crash
  <2>5. CASE UNCHANGED rooms
    BY <2>5
  <2> QED
    BY <2>1, <2>2, <2>3, <2>4, <2>5
       DEF Next, SendStep, SendArrive, SendClaimNonce, SendReplay, SendAllowed,
           SendDenied, SendCreate, SendUpdate, SendEmit, SendError, MsgRemove,
           Connect, Join, ConvCreate, ConvRemove, Tick, vars, roomVars
<1>3. \A s \in Sockets, c \in Convs :
         <<s, c>> \in joining' => \/ <<s, c>> \in joining
                                 \/ UserOf[s] \in conv[c].participants
  <2>1. CASE \E s \in Sockets, c \in Convs : Join(s, c)
    BY <2>1 DEF Join, Participates
  <2>2. CASE \E s \in Sockets, c \in Convs : JoinDone(s, c)
    BY <2>2 DEF JoinDone
  <2>3. CASE Crash
    BY <2>3 DEF Crash
  <2>4. CASE UNCHANGED joining
    BY <2>4
  <2> QED
    BY <2>1, <2>2, <2>3, <2>4
       DEF Next, SendStep, SendArrive, SendClaimNonce, SendReplay, SendAllowed,
           SendDenied, SendCreate, SendUpdate, SendEmit, SendError, MsgRemove,
           Connect, Disconnect, Leave, ConvCreate, ConvRemove, Tick, vars,
           roomVars
<1>4. \A c \in Convs : rooms'[c] \subseteq Sockets
  BY NextType DEF TypeOK
<1> QED
  BY <1>1, <1>2, <1>3, <1>4 DEF RoomInv

\* The part of an activation's state that Flow speaks of is as it was, but
\* for the end of the process or the removal of a document that existed.
Same(x) ==
    /\ req'[x] = req[x]
    /\ ack'[x] = ack[x]
    /\ pc'[x] = pc[x] \/ (pc'[x] = "lost" /\ pc[x] # "done")
    /\ msg'[x] = "none" <=> msg[x] = "none"

\* An activation that has not ended stays allowed: participants are kept.
LEMMA AllowedKept ==
    ASSUME TypeOK, RoomInv, [Next]_vars, NEW x \in Sends,
           pc[x] # "idle", req'[x] = req[x], Allowed(x)
    PROVE  Allowed(x)'
<1>1. req[x].conv \in Convs
  BY SendAssumption DEF TypeOK
<1> QED
  BY <1>1, ParticipantsKept DEF Allowed

LEMMA FlowFrame ==
    ASSUME TypeOK, RoomInv, [Next]_vars, NEW x \in Sends, Flow(x), Same(x)
    PROVE  Flow(x)'
<1>1. CASE pc[x] = "idle"
  BY <1>1 DEF Flow, Same
<1>2. CASE pc[x] # "idle"
  <2>1. Allowed(x) => Allowed(x)'
    BY <1>2, AllowedKept DEF Same
  <2> QED
    BY <2>1 DEF Flow, Same
<1> QED
  BY <1>1, <1>2

\* The steps of activation r itself.
OwnStep(r) ==
    \/ \E q \in Requests : SendArrive(r, q)
    \/ SendStep(r)
    \/ SendError(r)

\* A step of one activation leaves every other one alone, and an activation
\* that is over takes no step.
LEMMA OthersSame ==
    ASSUME TypeOK, NEW r \in Sends, NEW x \in Sends, OwnStep(r)
    PROVE  /\ x # r => Same(x)
           /\ pc[r] # "done"
  BY DEF OwnStep, SendStep, SendArrive, SendClaimNonce, SendReplay,
         SendAllowed, SendDenied, SendCreate, SendUpdate, SendEmit, SendError,
         InFlight, Same, TypeOK

LEMMA NextFlow == TypeOK /\ RoomInv /\ FlowInv /\ [Next]_vars => FlowInv'
<1> SUFFICES ASSUME TypeOK, RoomInv, FlowInv, [Next]_vars, NEW x \in Sends
             PROVE  Flow(x)'
  BY DEF FlowInv
<1>0. Flow(x)
  BY DEF FlowInv
<1>1. Same(x) => Flow(x)'
  BY <1>0, FlowFrame
<1>2. ASSUME NEW q \in Requests, SendArrive(x, q) PROVE Flow(x)'
  BY <1>0, <1>2 DEF SendArrive, Flow, TypeOK
<1>3. CASE SendClaimNonce(x)
  BY <1>0, <1>3 DEF SendClaimNonce, Flow, TypeOK
<1>4. CASE SendReplay(x)
  BY <1>0, <1>4 DEF SendReplay, Flow, TypeOK
<1>5. CASE SendAllowed(x)
  BY <1>0, <1>5 DEF SendAllowed, Flow, Allowed, Participates, TypeOK
<1>6. CASE SendDenied(x)
  BY <1>0, <1>6 DEF SendDenied, Flow, TypeOK
<1>7. CASE SendCreate(x)
  BY <1>0, <1>7 DEF SendCreate, Flow, Allowed, TypeOK
<1>8. CASE SendUpdate(x)
  <2>1. pc[x] # "idle" /\ req'[x] = req[x]
    BY <1>8 DEF SendUpdate
  <2>2. Allowed(x) => Allowed(x)'
    BY <2>1, AllowedKept
  <2> QED
    BY <1>0, <1>8, <2>2 DEF SendUpdate, Flow, TypeOK
<1>9. CASE SendEmit(x)
  BY <1>0, <1>9 DEF SendEmit, Flow, Allowed, TypeOK
<1>10. CASE SendError(x)
  BY <1>0, <1>10 DEF SendError, Flow, TypeOK
<1>11. ASSUME NEW r \in Sends, MsgRemove(r) PROVE Same(x)
  BY <1>11 DEF MsgRemove, sendVars, Same, TypeOK
<1>12. CASE Crash
  <2>1. Same(x)
    BY <1>12 DEF Crash, InFlight, Same
  <2> QED
    BY <2>1, <1>1
<1>13. CASE \/ \E s \in Sockets : Connect(s) \/ Disconnect(s)
            \/ \E s \in Sockets, c \in Convs : Join(s, c) \/ JoinDone(s, c) \/ Leave(s, c)
            \/ \E c \in Convs, g \in Groups : ConvCreate(c, g)
            \/ \E c \in Convs : ConvRemove(c)
            \/ Tick
            \/ UNCHANGED vars
  <2>1. Same(x)
    BY <1>13 DEF Connect, Disconnect, Join, JoinDone, Leave, ConvCreate,
                 ConvRemove, Tick, vars, sendVars, Same
  <2> QED
    BY <2>1, <1>1
<1>14. CASE \E r \in Sends : OwnStep(r)
  <2>1. PICK r \in Sends : OwnStep(r)
    BY <1>14
  <2>2. CASE x # r
    BY <2>1, <2>2, OthersSame, <1>1
  <2>3. CASE x = r
    BY <2>1, <2>3, <1>2, <1>3, <1>4, <1>5, <1>6, <1>7, <1>8, <1>9, <1>10
       DEF OwnStep, SendStep
  <2> QED
    BY <2>2, <2>3
<1>15. CASE \E r \in Sends : MsgRemove(r)
  BY <1>15, <1>11, <1>1
<1> QED
  BY <1>12, <1>13, <1>14, <1>15 DEF Next, OwnStep

\* What a socket has received stays explained: an acknowledged activation
\* is over, keeps its request, and its conversation keeps its participants.
LEMMA NextInbox ==
    TypeOK /\ RoomInv /\ FlowInv /\ InboxInv /\ [Next]_vars => InboxInv'
<1> SUFFICES ASSUME TypeOK, RoomInv, FlowInv, InboxInv, [Next]_vars,
                    NEW s \in Sockets, NEW x \in inbox'[s]
             PROVE  /\ ack'[x] = "ok"
                    /\ UserOf[s] \in conv'[req'[x].conv].participants
  BY DEF InboxInv
<1>0. x \in Sends
  BY NextType DEF TypeOK
<1>1. CASE x \in inbox[s]
  <2>1. ack[x] = "ok" /\ UserOf[s] \in conv[req[x].conv].participants
    BY <1>1 DEF InboxInv
  <2>2. pc[x] = "done"
    BY <1>0, <2>1 DEF FlowInv, Flow
  <2>3. ack'[x] = ack[x] /\ req'[x] = req[x]
    <3>1. CASE \E r \in Sends : OwnStep(r)
      BY <1>0, <2>2, <3>1, OthersSame DEF Same
    <3>2. CASE UNCHANGED <<ack, req>>
      BY <3>2
    <3> QED
      BY <3>1, <3>2
         DEF Next, OwnStep, MsgRemove, Connect, Disconnect, Join, JoinDone,
             Leave, ConvCreate, ConvRemove, Tick, Crash, vars, sendVars
  <2>4. req[x].conv \in Convs
    BY <1>0, <2>2, SendAssumption DEF TypeOK
  <2> QED
    BY <2>1, <2>3, <2>4, ParticipantsKept
<1>2. CASE x \notin inbox[s]
  <2>1. PICK r \in Sends : SendEmit(r)
    <3>1. ~UNCHANGED inbox
      BY <1>2
    <3> QED
      BY <3>1
         DEF Next, SendStep, SendArrive, SendClaimNonce, SendReplay,
             SendAllowed, SendDenied, SendCreate, SendUpdate, SendError,
             MsgRemove, Connect, Disconnect, Join, JoinDone, Leave, ConvCreate,
             ConvRemove, Tick, Crash, vars, roomVars
  <2>2. x = r /\ s \in rooms[req[r].conv]
    BY <1>2, <2>1 DEF SendEmit
  <2>3. req[r].conv \in Convs
    BY <2>1, SendAssumption DEF SendEmit, TypeOK
  <2>4. UserOf[s] \in conv[req[r].conv].participants
    BY <2>2, <2>3 DEF RoomInv
  <2>5. ack'[r] = "ok" /\ req' = req /\ conv' = conv
    BY <2>1 DEF SendEmit, TypeOK
  <2> QED
    BY <2>2, <2>4, <2>5
<1> QED
  BY <1>1, <1>2

\* The four parts together are inductive.
LEMMA DeliveryInvariant ==
    Spec => [](TypeOK /\ RoomInv /\ FlowInv /\ InboxInv)
<1>1. Init => RoomInv /\ FlowInv /\ InboxInv
  BY DEF Init, RoomInv, FlowInv, Flow, InboxInv
<1>2. TypeOK /\ RoomInv /\ FlowInv /\ InboxInv /\ [Next]_vars
        => RoomInv' /\ FlowInv' /\ InboxInv'
  BY NextRoom, NextFlow, NextInbox
<1> QED
  BY <1>1, <1>2, TypeCorrect, PTL DEF Spec

\* For every set of users and sockets and every interleaving of joins, leaves,
\* sends, deletions and restarts, a socket receives only messages of
\* conversations its user takes part in.
THEOREM Confidentiality == Spec => []OnlyParticipantsReceive
<1>1. InboxInv => OnlyParticipantsReceive
  BY DEF InboxInv, OnlyParticipantsReceive
<1> QED
  BY <1>1, DeliveryInvariant, PTL

\* An "ok" or a received message means the message was stored and its sender
\* took part; a refusal means it never was.
THEOREM Truthfulness == Spec => []ClientsToldTheTruth
<1>1. TypeOK /\ FlowInv /\ InboxInv => ClientsToldTheTruth
  BY DEF TypeOK, FlowInv, Flow, Allowed, InboxInv, ClientsToldTheTruth
<1> QED
  BY <1>1, DeliveryInvariant, PTL

-----------------------------------------------------------------------------
(* lastMessageAt *)

\* A stored message keeps its request and timestamp, and once stored it is
\* never as if it had not been.
LEMMA StoredKept ==
    ASSUME TypeOK, FlowInv, [Next]_vars, NEW x \in Sends, msg[x] # "none"
    PROVE  msg'[x] # "none" /\ req'[x] = req[x] /\ stamp'[x] = stamp[x]
<1>1. pc[x] \notin {"idle", "nonce", "check", "create"}
  BY DEF FlowInv, Flow
<1>2. CASE \E r \in Sends : OwnStep(r)
  <2>1. PICK r \in Sends : OwnStep(r)
    BY <1>2
  <2>2. CASE x = r
    BY <1>1, <2>1, <2>2
       DEF OwnStep, SendStep, SendArrive, SendClaimNonce, SendReplay,
           SendAllowed, SendDenied, SendCreate, SendUpdate, SendEmit, SendError
  <2>3. CASE x # r
    <3>1. msg'[x] # "none" /\ req'[x] = req[x]
      BY <2>1, <2>3, OthersSame DEF Same
    <3>2. stamp'[x] = stamp[x]
      BY <2>1, <2>3
         DEF OwnStep, SendStep, SendArrive, SendClaimNonce, SendReplay,
             SendAllowed, SendDenied, SendCreate, SendUpdate, SendEmit,
             SendError, TypeOK
    <3> QED
      BY <3>1, <3>2
  <2> QED
    BY <2>2, <2>3
<1>3. CASE \E r \in Sends : MsgRemove(r)
  BY <1>3 DEF MsgRemove, sendVars, TypeOK
<1>4. CASE UNCHANGED <<msg, req, stamp>>
  BY <1>4
<1> QED
  BY <1>2, <1>3, <1>4
     DEF Next, OwnStep, Connect, Disconnect, Join, JoinDone, Leave, ConvCreate,
         ConvRemove, Tick, Crash, vars, sendVars

\* lastMessageAt of one conversation is explained.
Real(c) ==
    conv[c].st # "none" =>
        \/ conv[c].lastMessageAt = conv[c].createdAt
        \/ \E r \in Sends : /\ msg[r] # "none"
                            /\ req[r].conv = c
                            /\ conv[c].lastMessageAt = stamp[r]

\* A step that keeps a document's two timestamps keeps its explanation.
LEMMA RealFrame ==
    ASSUME TypeOK, FlowInv, [Next]_vars, NEW c \in Convs, Real(c),
           conv[c].st # "none",
           conv'[c].lastMessageAt = conv[c].lastMessageAt,
           conv'[c].createdAt = conv[c].createdAt
    PROVE  Real(c)'
<1>1. CASE conv[c].lastMessageAt = conv[c].createdAt
  BY <1>1 DEF Real
<1>2. CASE \E r \in Sends : /\ msg[r] # "none"
                             /\ req[r].conv = c
                             /\ conv[c].lastMessageAt = stamp[r]
  <2>1. PICK r \in Sends : /\ msg[r] # "none"
                            /\ req[r].conv = c
                            /\ conv[c].lastMessageAt = stamp[r]
    BY <1>2
  <2>2. msg'[r] # "none" /\ req'[r] = req[r] /\ stamp'[r] = stamp[r]
    BY <2>1, StoredKept
  <2> QED
    BY <2>1, <2>2 DEF Real
<1> QED
  BY <1>1, <1>2 DEF Real

LEMMA NextReal ==
    TypeOK /\ FlowInv /\ LastMessageAtIsReal /\ [Next]_vars
        => LastMessageAtIsReal'
<1> SUFFICES ASSUME TypeOK, FlowInv, LastMessageAtIsReal, [Next]_vars,
                    NEW c \in Convs
             PROVE  Real(c)'
  BY DEF LastMessageAtIsReal, Real
<1>0. Real(c)
  BY DEF LastMessageAtIsReal, Real
<1>1. conv[c] \in ConvDoc
  BY DEF TypeOK
<1>2. CASE conv'[c] = conv[c]
  <2>1. CASE conv[c].st = "none"
    BY <1>2, <2>1 DEF Real
  <2>2. CASE conv[c].st # "none"
    BY <1>0, <1>2, <2>2, RealFrame
  <2> QED
    BY <2>1, <2>2
<1>3. ASSUME NEW r \in Sends, SendUpdate(r), conv'[c] # conv[c]
      PROVE  Real(c)'
  <2>1. /\ req[r].conv = c
        /\ conv'[c] = [conv[c] EXCEPT !.lastMessageAt = stamp[r]]
    BY <1>3 DEF SendUpdate, MessageTime, TypeOK
  <2>2. conv'[c].lastMessageAt = stamp[r]
    BY <1>1, <2>1 DEF ConvDoc
  <2>3. msg[r] # "none" /\ msg' = msg /\ req' = req /\ stamp' = stamp
    BY <1>3 DEF SendUpdate, FlowInv, Flow
  <2> QED
    BY <2>1, <2>2, <2>3 DEF Real
<1>4. ASSUME NEW k \in Convs, NEW g \in Groups, ConvCreate(k, g),
             conv'[c] # conv[c]
      PROVE  Real(c)'
  BY <1>4 DEF ConvCreate, Real, TypeOK
<1>5. ASSUME NEW k \in Convs, ConvRemove(k), conv'[c] # conv[c]
      PROVE  Real(c)'
  <2>1. conv[c].st = "live" /\ conv'[c] = [conv[c] EXCEPT !.st = "gone"]
    BY <1>5 DEF ConvRemove, TypeOK
  <2>2. /\ conv'[c].lastMessageAt = conv[c].lastMessageAt
        /\ conv'[c].createdAt = conv[c].createdAt
    BY <1>1, <2>1 DEF ConvDoc
  <2>3. conv[c].st # "none"
    BY <2>1
  <2> QED
    BY <1>0, <2>2, <2>3, RealFrame
<1>6. \/ UNCHANGED conv
      \/ \E r \in Sends : SendUpdate(r)
      \/ \E k \in Convs, g \in Groups : ConvCreate(k, g)
      \/ \E k \in Convs : ConvRemove(k)
  BY ConvChanges
<1> QED
  BY <1>2, <1>3, <1>4, <1>5, <1>6

\* lastMessageAt is the creation instant or the timestamp of a message that
\* was stored in that conversation, for every number of concurrent sends.
THEOREM LastMessageReal == Spec => []LastMessageAtIsReal
<1>1. Init => LastMessageAtIsReal
  BY DEF Init, LastMessageAtIsReal
<1> QED
  BY <1>1, NextReal, DeliveryInvariant, PTL DEF Spec
=============================================================================
