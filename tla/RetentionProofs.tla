--------------------------- MODULE RetentionProofs ---------------------------
(***************************************************************************)
(* Proofs about Retention, for every set of documents, every lifetime and  *)
(* every grace period, with both forms of the purge.                       *)
(***************************************************************************)
EXTENDS Retention, TLAPS

-----------------------------------------------------------------------------
(* Type correctness *)

LEMMA InitType == Init => TypeOK
  BY DEF Init, TypeOK, ConvDoc, MsgDoc

\* The updates a message document undergoes after it was built.
LEMMA MsgDocUpdate ==
    ASSUME NEW d \in MsgDoc
    PROVE  /\ \A s \in {"stored", "gone"} :
                 /\ [d EXCEPT !.st = s] \in MsgDoc
                 /\ [d EXCEPT !.st = s].st = s
                 /\ [d EXCEPT !.st = s].burn = d.burn
                 /\ [d EXCEPT !.st = s].delivered = d.delivered
                 /\ [d EXCEPT !.st = s].read = d.read
           /\ [d EXCEPT !.delivered = TRUE] \in MsgDoc
           /\ [d EXCEPT !.delivered = TRUE].st = d.st
           /\ [d EXCEPT !.delivered = TRUE].burn = d.burn
           /\ [d EXCEPT !.delivered = TRUE].delivered
           /\ [d EXCEPT !.delivered = TRUE].read = d.read
           /\ MarkRead(d) \in MsgDoc
           /\ MarkRead(d).st = d.st
           /\ MarkRead(d).burn = d.burn
           /\ MarkRead(d).delivered
           /\ MarkRead(d).read
<1>1. \A s \in {"stored", "gone"} :
         /\ [d EXCEPT !.st = s] \in MsgDoc
         /\ [d EXCEPT !.st = s].st = s
         /\ [d EXCEPT !.st = s].burn = d.burn
         /\ [d EXCEPT !.st = s].delivered = d.delivered
         /\ [d EXCEPT !.st = s].read = d.read
  BY DEF MsgDoc
<1>2. /\ [d EXCEPT !.delivered = TRUE] \in MsgDoc
      /\ [d EXCEPT !.delivered = TRUE].st = d.st
      /\ [d EXCEPT !.delivered = TRUE].burn = d.burn
      /\ [d EXCEPT !.delivered = TRUE].delivered
      /\ [d EXCEPT !.delivered = TRUE].read = d.read
  BY DEF MsgDoc
<1>3. /\ MarkRead(d) \in MsgDoc
      /\ MarkRead(d).st = d.st
      /\ MarkRead(d).burn = d.burn
      /\ MarkRead(d).delivered
      /\ MarkRead(d).read
  BY DEF MsgDoc, MarkRead
<1> QED
  BY <1>1, <1>2, <1>3

\* Everything that can happen to one message document in one step.
MsgStep(m) ==
    \/ msg'[m] = msg[m]
    \/ /\ msg[m].st = "none"
       /\ msg'[m] \in MsgDoc
       /\ msg'[m].st = "built"
       /\ ~msg'[m].delivered
       /\ ~msg'[m].read
    \/ /\ msg[m].st = "built"
       /\ \E s \in {"stored", "gone"} : msg'[m] = [msg[m] EXCEPT !.st = s]
    \/ /\ msg[m].st = "stored"
       /\ \/ msg'[m] = [msg[m] EXCEPT !.st = "gone"]
          \/ msg'[m] = [msg[m] EXCEPT !.delivered = TRUE]
          \/ msg'[m] = MarkRead(msg[m]) /\ m \in reading'

LEMMA MsgSteps ==
    ASSUME TypeOK, [Next]_vars, NEW m \in Msgs
    PROVE  MsgStep(m)
<1>1. CASE \E k \in Msgs, c \in Convs, t \in MsgTtls, b \in Burns :
              MsgBuild(k, c, t, b)
  <2>1. PICK k \in Msgs, c \in Convs, t \in MsgTtls, b \in Burns :
             MsgBuild(k, c, t, b)
    BY <1>1
  <2>2. ExpiryOf(t) \in Nat /\ b \in BOOLEAN
    BY RetentionAssumption DEF ExpiryOf, TypeOK
  <2>3. [st |-> "built", conv |-> {c}, burn |-> b, expiresAt |-> ExpiryOf(t),
         delivered |-> FALSE, read |-> FALSE] \in MsgDoc
    BY <2>2 DEF MsgDoc
  <2> QED
    BY <2>1, <2>3 DEF MsgBuild, MsgStep, TypeOK
<1>2. CASE \E k \in Msgs : MsgInsert(k)
  BY <1>2 DEF MsgInsert, MsgStep, TypeOK
<1>3. CASE \E k \in Msgs : MsgDelivered(k)
  <2>1. PICK k \in Msgs : MsgDelivered(k)
    BY <1>3
  <2>2. msg[k].st = "stored" /\ msg' = [msg EXCEPT ![k].delivered = TRUE]
    BY <2>1 DEF MsgDelivered, Stored
  <2>3. m # k => msg'[m] = msg[m]
    BY <2>2 DEF TypeOK
  <2>4. m = k => msg'[m] = [msg[m] EXCEPT !.delivered = TRUE]
    BY <2>2 DEF TypeOK
  <2> QED
    BY <2>2, <2>3, <2>4 DEF MsgStep
<1>4. CASE \E k \in Msgs : MsgRead(k)
  BY <1>4 DEF MsgRead, Stored, MsgStep, TypeOK
<1>5. CASE \E M : msg' = Without(M)
  BY <1>5 DEF Without, Stored, MsgStep
<1>6. CASE ProcessEnds
  BY <1>6 DEF ProcessEnds, MsgStep
<1>7. CASE UNCHANGED msg
  BY <1>7 DEF MsgStep
<1> QED
  BY <1>1, <1>2, <1>3, <1>4, <1>5, <1>6, <1>7
     DEF Next, MsgDeliveredDone, MsgReadDone, BurnFire, BurnDelete, TtlMessage,
         ConvCreate, ConvDelete, TtlConv, ConvDeleteMessages, ConvDeleteDoc,
         ConvDeleteError, PurgeStart, PurgeMessages, PurgeConvs, PurgeError,
         Tick, Shutdown, Crash, Exit, Restart, vars

\* Everything that can happen to one conversation document in one step.
ConvStep(c) ==
    \/ conv'[c] = conv[c]
    \/ /\ conv[c].st = "none"
       /\ conv'[c] \in ConvDoc
       /\ conv'[c].st = "live"
       /\ conv'[c].expiresAt # 0 => conv'[c].selfDestruct
    \/ /\ conv'[c] = [conv[c] EXCEPT !.st = "gone"]
       /\ \/ ExpiredBy(conv[c].expiresAt, now)
          \/ ExpiredBy(conv[c].expiresAt, job.at)
          \/ \E d \in Deletes : c \in del[d].conv

LEMMA ConvSteps ==
    ASSUME TypeOK, [Next]_vars, NEW c \in Convs
    PROVE  ConvStep(c)
<1>1. CASE \E k \in Convs, sd \in BOOLEAN, t \in ConvTtls : ConvCreate(k, sd, t)
  <2>1. PICK k \in Convs, sd \in BOOLEAN, t \in ConvTtls : ConvCreate(k, sd, t)
    BY <1>1
  <2>2. /\ ConvExpiry(sd, t) \in Nat
        /\ ConvExpiry(sd, t) # 0 => sd
    BY RetentionAssumption DEF ConvExpiry, ExpiryOf, TypeOK
  <2>3. DEFINE doc == [st |-> "live", selfDestruct |-> sd,
                       expiresAt |-> ConvExpiry(sd, t)]
  <2>4. /\ doc \in ConvDoc
        /\ doc.st = "live"
        /\ doc.expiresAt # 0 => doc.selfDestruct
    BY <2>2 DEF ConvDoc
  <2>5. conv[k].st = "none" /\ conv' = [conv EXCEPT ![k] = doc]
    BY <2>1 DEF ConvCreate
  <2> QED
    BY <2>4, <2>5 DEF ConvStep, ConvDoc, TypeOK
<1>2. CASE \E k \in Convs : TtlConv(k)
  BY <1>2 DEF TtlConv, ConvStep, TypeOK
<1>3. CASE \E d \in Deletes : ConvDeleteDoc(d)
  BY <1>3 DEF ConvDeleteDoc, ConvStep, TypeOK
<1>4. CASE PurgeConvs
  BY <1>4 DEF PurgeConvs, ConvStep
<1>5. CASE UNCHANGED conv
  BY <1>5 DEF ConvStep
<1> QED
  BY <1>1, <1>2, <1>3, <1>4, <1>5
     DEF Next, MsgBuild, MsgInsert, MsgDelivered, MsgDeliveredDone,
         MsgRead, MsgReadDone,
         BurnFire, BurnDelete, TtlMessage, ConvDelete, ConvDeleteMessages,
         ConvDeleteError, PurgeStart, PurgeMessages, PurgeError, Tick,
         Shutdown, Crash, Exit, Restart, ProcessEnds, vars

DelDoc == [st : {"idle", "active", "ok", "failed"},
           todo : SUBSET {"messages", "conversation"}, conv : SUBSET Convs]

\* One operation of a deletion ending keeps the type of its activation.
LEMMA DelAfterType ==
    ASSUME TypeOK, NEW d \in Deletes, NEW op, NEW st \in {"active", "ok", "failed", "idle"}
    PROVE  DelAfter(d, op, st) \in [Deletes -> DelDoc]
<1>1. del \in [Deletes -> DelDoc]
  BY DEF TypeOK, DelDoc
<1> QED
  BY <1>1 DEF DelAfter, DelDoc

LEMMA NextType == TypeOK /\ [Next]_vars => TypeOK'
<1> SUFFICES ASSUME TypeOK, [Next]_vars PROVE TypeOK'
  OBVIOUS
<1>1. /\ now' \in Nat \ {0}
      /\ server' \in {"up", "draining", "down"}
      /\ faults' \in Nat
  <2>0. now \in Nat \ {0} /\ server \in {"up", "draining", "down"} /\ faults \in Nat
    BY DEF TypeOK
  <2>1. CASE Tick \/ Shutdown \/ Crash \/ Exit \/ Restart
    <3>1. /\ now' \in {now, now + 1}
          /\ faults' \in {faults, faults + 1}
          /\ server' \in {server, "up", "draining", "down"}
      BY <2>1 DEF Tick, Shutdown, Crash, Exit, Restart, ProcessEnds
    <3> QED
      BY <2>0, <3>1
  <2>2. CASE PurgeError \/ \E d \in Deletes : ConvDeleteError(d)
    BY <2>2 DEF TypeOK, PurgeError, ConvDeleteError
  <2>3. CASE UNCHANGED procVars
    BY <2>3 DEF TypeOK, procVars
  <2> QED
    BY <2>1, <2>2, <2>3
       DEF Next, MsgBuild, MsgInsert, MsgDelivered, MsgDeliveredDone,
           MsgRead, MsgReadDone,
           BurnFire, BurnDelete, TtlMessage, ConvCreate, ConvDelete, TtlConv,
           ConvDeleteMessages, ConvDeleteDoc, PurgeStart, PurgeMessages,
           PurgeConvs, vars, procVars
<1>2. conv' \in [Convs -> ConvDoc]
  <2>1. \A c \in Convs : conv'[c] \in ConvDoc
    <3>1. \A c \in Convs : [conv[c] EXCEPT !.st = "gone"] \in ConvDoc
      BY DEF TypeOK, ConvDoc
    <3>2. \A c \in Convs : conv[c] \in ConvDoc
      BY DEF TypeOK
    <3>3. \A c \in Convs : ConvStep(c)
      BY ConvSteps
    <3> QED
      BY <3>1, <3>2, <3>3 DEF ConvStep
  <2>2. conv' = [c \in Convs |-> conv'[c]]
    BY DEF TypeOK, Next, MsgBuild, MsgInsert, MsgDelivered, MsgDeliveredDone,
           MsgRead, MsgReadDone, BurnFire,
           BurnDelete, TtlMessage, ConvCreate, ConvDelete, TtlConv,
           ConvDeleteMessages, ConvDeleteDoc, ConvDeleteError, PurgeStart,
           PurgeMessages, PurgeConvs, PurgeError, Tick, Shutdown, Crash, Exit,
           Restart, ProcessEnds, vars, procVars, burnVars
  <2> QED
    BY <2>1, <2>2
<1>3. msg' \in [Msgs -> MsgDoc]
  <2>1. \A m \in Msgs : msg'[m] \in MsgDoc
    <3>1. TAKE m \in Msgs
    <3>2. msg[m] \in MsgDoc
      BY DEF TypeOK
    <3>3. MsgStep(m)
      BY MsgSteps
    <3>4. /\ \A s \in {"stored", "gone"} : [msg[m] EXCEPT !.st = s] \in MsgDoc
          /\ [msg[m] EXCEPT !.delivered = TRUE] \in MsgDoc
          /\ MarkRead(msg[m]) \in MsgDoc
      BY <3>2, MsgDocUpdate
    <3> QED
      BY <3>2, <3>3, <3>4 DEF MsgStep
  <2>2. msg' = [m \in Msgs |-> msg'[m]]
    BY DEF TypeOK, Without, Next, MsgBuild, MsgInsert, MsgDelivered, MsgDeliveredDone,
           MsgRead, MsgReadDone, BurnFire,
           BurnDelete, TtlMessage, ConvCreate, ConvDelete, TtlConv,
           ConvDeleteMessages, ConvDeleteDoc, ConvDeleteError, PurgeStart,
           PurgeMessages, PurgeConvs, PurgeError, Tick, Shutdown, Crash, Exit,
           Restart, ProcessEnds, vars, procVars, burnVars
  <2> QED
    BY <2>1, <2>2
<1>4. told' \in [Msgs -> SUBSET {"delivered", "read"}]
  <2>1. CASE \E m \in Msgs : \E e \in {"delivered", "read"} :
                told' = [told EXCEPT ![m] = @ \cup {e}]
    BY <2>1 DEF TypeOK
  <2>2. CASE UNCHANGED told
    BY <2>2 DEF TypeOK
  <2> QED
    BY <2>1, <2>2 DEF Next, MsgBuild, MsgInsert, MsgDelivered, MsgDeliveredDone,
                      MsgRead, MsgReadDone,
                   BurnFire, BurnDelete, TtlMessage, ConvCreate, ConvDelete,
                   TtlConv, ConvDeleteMessages, ConvDeleteDoc, ConvDeleteError,
                   PurgeStart, PurgeMessages, PurgeConvs, PurgeError, Tick,
                   Shutdown, Crash, Exit, Restart, ProcessEnds, vars, burnVars
<1>5. delivering' \subseteq Msgs /\ reading' \subseteq Msgs /\ burning' \subseteq Msgs
  BY DEF TypeOK, Next, MsgBuild, MsgInsert, MsgDelivered, MsgDeliveredDone,
         MsgRead, MsgReadDone, BurnFire,
         BurnDelete, TtlMessage, ConvCreate, ConvDelete, TtlConv,
         ConvDeleteMessages, ConvDeleteDoc, ConvDeleteError, PurgeStart,
         PurgeMessages, PurgeConvs, PurgeError, Tick, Shutdown, Crash, Exit,
         Restart, ProcessEnds, vars, procVars, burnVars
<1>6. burnTimers' \subseteq Msgs \X Nat
  <2>1. \A m \in Msgs : BurnTimer(m) \subseteq Msgs \X Nat
    BY RetentionAssumption DEF BurnTimer, TypeOK
  <2> QED
    BY <2>1 DEF TypeOK, Next, MsgBuild, MsgInsert, MsgDelivered, MsgDeliveredDone,
                MsgRead, MsgReadDone, BurnFire,
           BurnDelete, TtlMessage, ConvCreate, ConvDelete, TtlConv,
           ConvDeleteMessages, ConvDeleteDoc, ConvDeleteError, PurgeStart,
           PurgeMessages, PurgeConvs, PurgeError, Tick, Shutdown, Crash, Exit,
           Restart, ProcessEnds, vars, procVars, burnVars
<1>7. job' \in [at : Nat, todo : SUBSET {"messages", "conversations"}]
  <2>1. CASE PurgeStart
    BY <2>1 DEF PurgeStart, TypeOK
  <2>2. CASE \E T \in SUBSET job.todo : job' = [job EXCEPT !.todo = T]
    BY <2>2 DEF TypeOK
  <2>3. CASE UNCHANGED job
    BY <2>3 DEF TypeOK
  <2>4. CASE PurgeMessages \/ PurgeConvs \/ PurgeError \/ ProcessEnds
    <3>1. \A x : job.todo \ {x} \in SUBSET job.todo
      OBVIOUS
    <3>2. {} \in SUBSET job.todo
      OBVIOUS
    <3> QED
      BY <2>2, <2>4, <3>1, <3>2
         DEF PurgeMessages, PurgeConvs, PurgeError, ProcessEnds
  <2> QED
    BY <2>1, <2>3, <2>4
       DEF Next, MsgBuild, MsgInsert, MsgDelivered, MsgDeliveredDone,
           MsgRead, MsgReadDone,
           BurnFire, BurnDelete, TtlMessage, ConvCreate, ConvDelete, TtlConv,
           ConvDeleteMessages, ConvDeleteDoc, ConvDeleteError, Tick, Shutdown,
           Crash, Exit, Restart, vars
<1>8. del' \in [Deletes -> DelDoc]
  <2>1. del \in [Deletes -> DelDoc]
    BY DEF TypeOK, DelDoc
  <2>2. CASE \E d \in Deletes, c \in Convs : ConvDelete(d, c)
    BY <2>1, <2>2 DEF ConvDelete, DelDoc
  <2>3. CASE \E d \in Deletes, op \in {"messages", "conversation"} :
                \E st \in {del[d].st, "failed"} : del' = DelAfter(d, op, st)
    <3>1. \A d \in Deletes : del[d].st \in {"active", "ok", "failed", "idle"}
      BY <2>1 DEF DelDoc
    <3> QED
      BY <2>3, <3>1, DelAfterType
  <2>4. CASE ProcessEnds
    BY <2>1, <2>4 DEF ProcessEnds, DelDoc
  <2>5. CASE UNCHANGED del
    BY <2>1, <2>5
  <2>6. ASSUME NEW d \in Deletes, ConvDeleteError(d)
        PROVE  \E op \in {"messages", "conversation"} : del' = DelAfter(d, op, "failed")
    BY <2>1, <2>6 DEF ConvDeleteError, DelDoc
  <2> QED
    BY <2>2, <2>3, <2>4, <2>5, <2>6
       DEF Next, MsgBuild, MsgInsert, MsgDelivered, MsgDeliveredDone,
           MsgRead, MsgReadDone,
           BurnFire, BurnDelete, TtlMessage, ConvCreate, TtlConv,
           ConvDeleteMessages, ConvDeleteDoc, PurgeStart, PurgeMessages,
           PurgeConvs, PurgeError, Tick, Shutdown, Crash, Exit, Restart, vars
<1>9. readAt' \in [Msgs -> Nat]
  <2>1. CASE \E m \in Msgs : MsgRead(m)
    BY <2>1 DEF MsgRead, TypeOK
  <2>2. CASE UNCHANGED readAt
    BY <2>2 DEF TypeOK
  <2> QED
    BY <2>1, <2>2
       DEF Next, MsgBuild, MsgInsert, MsgDelivered, MsgDeliveredDone,
           MsgReadDone, BurnFire,
           BurnDelete, TtlMessage, ConvCreate, ConvDelete, TtlConv,
           ConvDeleteMessages, ConvDeleteDoc, ConvDeleteError, PurgeStart,
           PurgeMessages, PurgeConvs, PurgeError, Tick, Shutdown, Crash, Exit,
           Restart, ProcessEnds, vars, procVars, burnVars
<1> QED
  BY <1>1, <1>2, <1>3, <1>4, <1>5, <1>6, <1>7, <1>8, <1>9 DEF TypeOK, DelDoc

\* The type invariant holds of every behaviour.
THEOREM TypeCorrect == Spec => []TypeOK
  BY InitType, NextType, PTL DEF Spec

-----------------------------------------------------------------------------
(* Conversations go only when asked or expired *)

\* The purge works with an instant of the past; an activation of DELETE that
\* has not begun concerns no conversation.
JobInv == job.at <= now
DelInv == \A d \in Deletes : del[d].st = "idle" => del[d].todo = {} /\ del[d].conv = {}

\* expiresAt is set on self-destructing conversations only.
ConvInv ==
    /\ \A c \in Convs : conv[c].expiresAt # 0 => conv[c].selfDestruct
    /\ ConvKeptUntilAsked

LEMMA NowGrows == ASSUME TypeOK, [Next]_vars PROVE now <= now'
<1>1. now \in Nat
  BY DEF TypeOK
<1>2. now' \in {now, now + 1}
  BY DEF Next, MsgBuild, MsgInsert, MsgDelivered, MsgDeliveredDone,
         MsgRead, MsgReadDone, BurnFire,
         BurnDelete, TtlMessage, ConvCreate, ConvDelete, TtlConv,
         ConvDeleteMessages, ConvDeleteDoc, ConvDeleteError, PurgeStart,
         PurgeMessages, PurgeConvs, PurgeError, Tick, Shutdown, Crash, Exit,
         Restart, ProcessEnds, vars, procVars
<1> QED
  BY <1>1, <1>2

LEMMA NextJob == TypeOK /\ JobInv /\ [Next]_vars => JobInv'
<1> SUFFICES ASSUME TypeOK, JobInv, [Next]_vars PROVE JobInv'
  OBVIOUS
<1>1. now <= now' /\ now' \in Nat /\ now \in Nat /\ job.at \in Nat
  BY NowGrows, NextType DEF TypeOK
<1>2. job'.at = job.at \/ (PurgeStart /\ job'.at = now /\ now' = now)
  <2>1. CASE \E T : job' = [job EXCEPT !.todo = T]
    BY <2>1 DEF TypeOK
  <2>2. CASE PurgeStart
    BY <2>2 DEF PurgeStart, procVars
  <2>3. CASE UNCHANGED job
    BY <2>3
  <2>4. CASE PurgeMessages \/ PurgeConvs \/ PurgeError \/ ProcessEnds
    BY <2>1, <2>4 DEF PurgeMessages, PurgeConvs, PurgeError, ProcessEnds
  <2> QED
    BY <2>2, <2>3, <2>4
       DEF Next, MsgBuild, MsgInsert, MsgDelivered, MsgDeliveredDone,
           MsgRead, MsgReadDone,
           BurnFire, BurnDelete, TtlMessage, ConvCreate, ConvDelete, TtlConv,
           ConvDeleteMessages, ConvDeleteDoc, ConvDeleteError, Tick, Shutdown,
           Crash, Exit, Restart, vars
<1> QED
  BY <1>1, <1>2 DEF JobInv

\* Everything that can happen to one activation of DELETE in one step.
DelStep(d) ==
    \/ del'[d] = del[d]
    \/ del[d].st = "idle" /\ del'[d].st = "active"
    \/ /\ del[d].todo # {}
       /\ del'[d].conv = del[d].conv
       /\ del'[d].st \in {"ok", "failed", del[d].st}

LEMMA DelSteps ==
    ASSUME TypeOK, [Next]_vars, NEW d \in Deletes
    PROVE  DelStep(d)
<1>1. del \in [Deletes -> DelDoc]
  BY DEF TypeOK, DelDoc
<1>2. CASE \E e \in Deletes, c \in Convs : ConvDelete(e, c)
  BY <1>1, <1>2 DEF ConvDelete, DelStep, DelDoc
<1>3. ASSUME NEW e \in Deletes, NEW op \in del[e].todo,
             NEW st \in {del[e].st, "failed"}, del' = DelAfter(e, op, st)
      PROVE  DelStep(d)
  BY <1>1, <1>3 DEF DelAfter, DelStep, DelDoc
<1>4. CASE \E e \in Deletes :
              ConvDeleteMessages(e) \/ ConvDeleteDoc(e) \/ ConvDeleteError(e)
  BY <1>3, <1>4 DEF ConvDeleteMessages, ConvDeleteDoc, ConvDeleteError
<1>5. CASE ProcessEnds
  BY <1>1, <1>5 DEF ProcessEnds, DelStep, DelDoc
<1>6. CASE UNCHANGED del
  BY <1>6 DEF DelStep
<1> QED
  BY <1>2, <1>4, <1>5, <1>6
     DEF Next, MsgBuild, MsgInsert, MsgDelivered, MsgDeliveredDone,
         MsgRead, MsgReadDone,
         BurnFire, BurnDelete, TtlMessage, ConvCreate, TtlConv, PurgeStart,
         PurgeMessages, PurgeConvs, PurgeError, Tick, Shutdown, Crash, Exit,
         Restart, vars

LEMMA NextDel == TypeOK /\ DelInv /\ [Next]_vars => DelInv'
<1> SUFFICES ASSUME TypeOK, DelInv, [Next]_vars, NEW d \in Deletes
             PROVE  del'[d].st = "idle" => del'[d].todo = {} /\ del'[d].conv = {}
  BY DEF DelInv
<1>1. DelStep(d)
  BY DelSteps
<1> QED
  BY <1>1 DEF DelStep, DelInv

LEMMA NextConv ==
    TypeOK /\ JobInv /\ DelInv /\ ConvInv /\ [Next]_vars => ConvInv'
<1> SUFFICES ASSUME TypeOK, JobInv, DelInv, ConvInv, [Next]_vars, NEW c \in Convs
             PROVE  /\ conv'[c].expiresAt # 0 => conv'[c].selfDestruct
                    /\ conv'[c].st = "gone" =>
                          \/ conv'[c].selfDestruct /\ ExpiredBy(conv'[c].expiresAt, now')
                          \/ \E d \in Deletes : c \in del'[d].conv
  BY DEF ConvInv, ConvKeptUntilAsked, ExpiredBy
<1>1. ConvStep(c)
  BY ConvSteps
<1>2. /\ conv[c] \in ConvDoc
      /\ now \in Nat /\ now' \in Nat /\ job.at \in Nat
      /\ now <= now' /\ job.at <= now
  BY NowGrows, NextType DEF TypeOK, JobInv
<1>3. \A d \in Deletes : c \in del[d].conv => c \in del'[d].conv
  BY DelSteps DEF DelStep, DelInv
<1>4. CASE conv'[c] = conv[c]
  BY <1>2, <1>3, <1>4 DEF ConvInv, ConvKeptUntilAsked, ExpiredBy, ConvDoc
<1>5. CASE conv'[c] = [conv[c] EXCEPT !.st = "gone"]
  <2>1. conv'[c].selfDestruct = conv[c].selfDestruct /\ conv'[c].expiresAt = conv[c].expiresAt
    BY <1>2, <1>5 DEF ConvDoc
  <2>2. \/ ExpiredBy(conv[c].expiresAt, now)
        \/ ExpiredBy(conv[c].expiresAt, job.at)
        \/ \E d \in Deletes : c \in del[d].conv
        \/ conv'[c] = conv[c]
    BY <1>1, <1>5 DEF ConvStep, ConvDoc
  <2>3. ExpiredBy(conv[c].expiresAt, now) \/ ExpiredBy(conv[c].expiresAt, job.at)
           => conv[c].selfDestruct /\ ExpiredBy(conv[c].expiresAt, now')
    BY <1>2 DEF ExpiredBy, ConvInv, ConvDoc
  <2> QED
    BY <1>3, <1>4, <2>1, <2>2, <2>3 DEF ConvInv
<1>6. CASE /\ conv'[c].st = "live"
           /\ conv'[c].expiresAt # 0 => conv'[c].selfDestruct
  BY <1>6
<1> QED
  BY <1>1, <1>4, <1>5, <1>6 DEF ConvStep

\* A conversation that is not self-destructing is only removed on request.
THEOREM ConversationsKept == Spec => []ConvKeptUntilAsked
<1>1. Init => JobInv /\ DelInv /\ ConvInv
  BY DEF Init, JobInv, DelInv, ConvInv, ConvKeptUntilAsked
<1>2. ConvInv => ConvKeptUntilAsked
  BY DEF ConvInv
<1> QED
  BY <1>1, <1>2, NextJob, NextDel, NextConv, TypeCorrect, PTL DEF Spec

-----------------------------------------------------------------------------
(* Receipts *)

\* Receipts exist only for documents that were stored; a receipt in progress
\* belongs to a document that says it was delivered, or read.
ReceiptInv ==
    /\ \A m \in Msgs : told[m] # {} \/ m \in delivering \/ m \in reading
                          => msg[m].st \in {"stored", "gone"}
    /\ \A m \in delivering : msg[m].delivered
    /\ \A m \in reading : msg[m].read
    /\ StatusTruthful

\* Once stored, a document's flags are only ever set, and it keeps burn.
LEMMA FlagsKept ==
    ASSUME TypeOK, [Next]_vars, NEW m \in Msgs, msg[m].st \in {"stored", "gone"}
    PROVE  /\ msg'[m].st \in {"stored", "gone"}
           /\ msg'[m].burn = msg[m].burn
           /\ msg[m].delivered => msg'[m].delivered
           /\ msg[m].read => msg'[m].read
<1>1. MsgStep(m)
  BY MsgSteps
<1>2. msg[m] \in MsgDoc
  BY DEF TypeOK
<1>3. /\ [msg[m] EXCEPT !.st = "gone"].st = "gone"
      /\ [msg[m] EXCEPT !.st = "gone"].burn = msg[m].burn
      /\ [msg[m] EXCEPT !.st = "gone"].delivered = msg[m].delivered
      /\ [msg[m] EXCEPT !.st = "gone"].read = msg[m].read
  BY <1>2, MsgDocUpdate
<1>4. /\ [msg[m] EXCEPT !.delivered = TRUE].st = msg[m].st
      /\ [msg[m] EXCEPT !.delivered = TRUE].burn = msg[m].burn
      /\ [msg[m] EXCEPT !.delivered = TRUE].delivered
      /\ [msg[m] EXCEPT !.delivered = TRUE].read = msg[m].read
  BY <1>2, MsgDocUpdate
<1>5. /\ MarkRead(msg[m]).st = msg[m].st
      /\ MarkRead(msg[m]).burn = msg[m].burn
      /\ MarkRead(msg[m]).delivered
      /\ MarkRead(msg[m]).read
  BY <1>2, MsgDocUpdate
<1> QED
  BY <1>1, <1>3, <1>4, <1>5 DEF MsgStep

\* In every step a document that says "read" also says "delivered".
LEMMA ReadIsDelivered ==
    ASSUME TypeOK, [Next]_vars, NEW m \in Msgs, msg[m].read => msg[m].delivered
    PROVE  msg'[m].read => msg'[m].delivered
<1>1. MsgStep(m)
  BY MsgSteps
<1>2. msg[m] \in MsgDoc
  BY DEF TypeOK
<1>3. \A s \in {"stored", "gone"} :
         /\ [msg[m] EXCEPT !.st = s].delivered = msg[m].delivered
         /\ [msg[m] EXCEPT !.st = s].read = msg[m].read
  BY <1>2, MsgDocUpdate
<1>4. [msg[m] EXCEPT !.delivered = TRUE].delivered /\ MarkRead(msg[m]).delivered
  BY <1>2, MsgDocUpdate
<1> QED
  BY <1>1, <1>3, <1>4 DEF MsgStep

\* What a step adds to the receipts of m.
ReceiptStep(m) ==
    /\ m \in delivering' => m \in delivering \/ (Stored(m) /\ msg'[m].delivered)
    /\ m \in reading' => m \in reading \/ (Stored(m) /\ msg'[m].read)
    /\ \/ told'[m] = told[m]
       \/ told'[m] = told[m] \cup {"delivered"} /\ m \in delivering /\ msg' = msg
       \/ told'[m] = told[m] \cup {"read"} /\ m \in reading /\ msg' = msg

LEMMA ReceiptSteps ==
    ASSUME TypeOK, [Next]_vars, NEW m \in Msgs
    PROVE  ReceiptStep(m)
<1>0. msg[m] \in MsgDoc
  BY DEF TypeOK
<1>1. CASE \E k \in Msgs : MsgRead(k)
  <2>1. PICK k \in Msgs : MsgRead(k)
    BY <1>1
  <2>2. m = k => msg'[m] = MarkRead(msg[m])
    BY <2>1 DEF MsgRead, TypeOK
  <2>3. MarkRead(msg[m]).read
    BY <1>0, MsgDocUpdate
  <2> QED
    BY <2>1, <2>2, <2>3 DEF MsgRead, ReceiptStep
<1>2. CASE \E k \in Msgs : MsgDelivered(k)
  <2>1. PICK k \in Msgs : MsgDelivered(k)
    BY <1>2
  <2>2. m = k => msg'[m] = [msg[m] EXCEPT !.delivered = TRUE]
    BY <2>1 DEF MsgDelivered, TypeOK
  <2>3. [msg[m] EXCEPT !.delivered = TRUE].delivered
    BY <1>0, MsgDocUpdate
  <2>4. /\ reading' = reading
        /\ Stored(k)
        /\ delivering' = delivering \cup {k}
        /\ told' = told
    BY <2>1 DEF MsgDelivered
  <2> QED
    BY <2>2, <2>3, <2>4 DEF ReceiptStep
<1>3. CASE \E k \in Msgs : MsgReadDone(k)
  <2>1. told \in [Msgs -> SUBSET {"delivered", "read"}]
    BY DEF TypeOK
  <2> QED
    BY <1>3, <2>1 DEF MsgReadDone, ReceiptStep
<1>4. CASE \E k \in Msgs : MsgDeliveredDone(k)
  <2>1. told \in [Msgs -> SUBSET {"delivered", "read"}]
    BY DEF TypeOK
  <2> QED
    BY <1>4, <2>1 DEF MsgDeliveredDone, ReceiptStep
<1>5. CASE /\ UNCHANGED told
           /\ delivering' \in {delivering, {}}
           /\ reading' \in {reading, {}}
  BY <1>5 DEF ReceiptStep
<1> QED
  BY <1>1, <1>2, <1>3, <1>4, <1>5
     DEF Next, MsgBuild, MsgInsert, BurnFire, BurnDelete, TtlMessage,
         ConvCreate, ConvDelete, TtlConv, ConvDeleteMessages, ConvDeleteDoc,
         ConvDeleteError, PurgeStart, PurgeMessages, PurgeConvs, PurgeError,
         Tick, Shutdown, Crash, Exit, Restart, ProcessEnds, vars, burnVars

LEMMA NextReceipt == TypeOK /\ ReceiptInv /\ [Next]_vars => ReceiptInv'
<1> SUFFICES ASSUME TypeOK, ReceiptInv, [Next]_vars PROVE ReceiptInv'
  OBVIOUS
<1>0. delivering' \subseteq Msgs /\ reading' \subseteq Msgs
  BY NextType DEF TypeOK
<1> SUFFICES ASSUME NEW m \in Msgs
             PROVE  /\ told'[m] # {} \/ m \in delivering' \/ m \in reading'
                          => msg'[m].st \in {"stored", "gone"}
                    /\ m \in delivering' => msg'[m].delivered
                    /\ m \in reading' => msg'[m].read
                    /\ "delivered" \in told'[m] => msg'[m].delivered
                    /\ "read" \in told'[m] => msg'[m].read
                    /\ msg'[m].read => msg'[m].delivered
  BY <1>0 DEF ReceiptInv, StatusTruthful
<1>1. ReceiptStep(m)
  BY ReceiptSteps
<1>2. msg'[m].read => msg'[m].delivered
  BY ReadIsDelivered DEF ReceiptInv, StatusTruthful
<1>3. CASE msg[m].st \in {"stored", "gone"}
  <2>1. /\ msg'[m].st \in {"stored", "gone"}
        /\ msg[m].delivered => msg'[m].delivered
        /\ msg[m].read => msg'[m].read
    BY <1>3, FlagsKept
  <2> QED
    BY <1>1, <1>2, <2>1 DEF ReceiptStep, ReceiptInv, StatusTruthful
<1>4. CASE msg[m].st \notin {"stored", "gone"}
  <2>1. told[m] = {} /\ m \notin delivering /\ m \notin reading
    BY <1>4 DEF ReceiptInv
  <2>2. told'[m] = {} /\ m \notin delivering' /\ m \notin reading'
    BY <1>1, <1>4, <2>1 DEF ReceiptStep, Stored
  <2> QED
    BY <1>2, <2>2
<1> QED
  BY <1>3, <1>4

\* A broadcast receipt never says more than the document.
THEOREM ReceiptsTruthful == Spec => []StatusTruthful
<1>1. Init => ReceiptInv
  BY DEF Init, ReceiptInv, StatusTruthful
<1>2. ReceiptInv => StatusTruthful
  BY DEF ReceiptInv
<1> QED
  BY <1>1, <1>2, NextReceipt, TypeCorrect, PTL DEF Spec

-----------------------------------------------------------------------------
(* No message disappears without a reason *)

\* A message's burn deadline is Grace after its first read or later.
ReadBefore(m, t) == msg[m].burn /\ readAt[m] # 0 /\ readAt[m] + Grace <= t

BurnInv ==
    /\ \A m \in Msgs : readAt[m] <= now
    /\ \A m \in Msgs : readAt[m] # 0 => msg[m].st \in {"stored", "gone"}
    /\ \A m \in reading : readAt[m] # 0
    /\ \A t \in burnTimers : ReadBefore(t[1], t[2])
    /\ \A m \in burning : ReadBefore(m, now)

\* A first read, once recorded, is not moved; it is recorded for stored
\* documents only.
LEMMA ReadAtKept ==
    ASSUME TypeOK, [Next]_vars, NEW m \in Msgs
    PROVE  \/ readAt'[m] = readAt[m]
           \/ readAt[m] = 0 /\ readAt'[m] = now /\ now' = now /\ Stored(m)
<1>1. CASE \E k \in Msgs : MsgRead(k)
  BY <1>1 DEF MsgRead, procVars, TypeOK
<1>2. CASE UNCHANGED readAt
  BY <1>2
<1> QED
  BY <1>1, <1>2
     DEF Next, MsgBuild, MsgInsert, MsgDelivered, MsgDeliveredDone,
         MsgReadDone, BurnFire,
         BurnDelete, TtlMessage, ConvCreate, ConvDelete, TtlConv,
         ConvDeleteMessages, ConvDeleteDoc, ConvDeleteError, PurgeStart,
         PurgeMessages, PurgeConvs, PurgeError, Tick, Shutdown, Crash, Exit,
         Restart, ProcessEnds, vars, burnVars

\* What a step adds to the handlers and timers of m.
BurnStep(m) ==
    /\ m \in reading' => m \in reading \/ readAt'[m] # 0
    /\ \A t \in Nat : <<m, t>> \in burnTimers' =>
          \/ <<m, t>> \in burnTimers
          \/ m \in reading /\ msg[m].burn /\ t = now + Grace
    /\ m \in burning' => \/ m \in burning
                         \/ \E t \in Nat : <<m, t>> \in burnTimers /\ t <= now

LEMMA BurnSteps ==
    ASSUME TypeOK, [Next]_vars, NEW m \in Msgs
    PROVE  BurnStep(m)
<1>0. now \in Nat \ {0} /\ readAt \in [Msgs -> Nat]
  BY DEF TypeOK
<1>1. CASE \E k \in Msgs : MsgRead(k)
  BY <1>0, <1>1 DEF MsgRead, BurnStep
<1>2. CASE \E k \in Msgs : MsgReadDone(k)
  BY <1>2 DEF MsgReadDone, BurnTimer, BurnStep
<1>3. CASE \E k \in Msgs : BurnFire(k)
  <2>1. PICK k \in Msgs : BurnFire(k)
    BY <1>3
  <2>2. PICK due \in 0 .. now : /\ <<k, due>> \in burnTimers
                                /\ burnTimers' = burnTimers \ {<<k, due>>}
    BY <2>1 DEF BurnFire
  <2>3. due \in Nat /\ due <= now
    BY <1>0, <2>2
  <2> QED
    BY <2>1, <2>2, <2>3 DEF BurnFire, BurnStep
<1>4. CASE \E k \in Msgs : BurnDelete(k)
  BY <1>4 DEF BurnDelete, BurnStep
<1>5. CASE /\ reading' \in {reading, {}}
           /\ burnTimers' \in {burnTimers, {}}
           /\ burning' \in {burning, {}}
  BY <1>5 DEF BurnStep
<1> QED
  BY <1>1, <1>2, <1>3, <1>4, <1>5
     DEF Next, MsgBuild, MsgInsert, MsgDelivered, MsgDeliveredDone,
         TtlMessage, ConvCreate,
         ConvDelete, TtlConv, ConvDeleteMessages, ConvDeleteDoc,
         ConvDeleteError, PurgeStart, PurgeMessages, PurgeConvs, PurgeError,
         Tick, Shutdown, Crash, Exit, Restart, ProcessEnds, vars, burnVars

LEMMA NextBurn == TypeOK /\ BurnInv /\ [Next]_vars => BurnInv'
<1> SUFFICES ASSUME TypeOK, BurnInv, [Next]_vars PROVE BurnInv'
  OBVIOUS
<1>1. /\ now \in Nat /\ now' \in Nat /\ now <= now'
      /\ readAt \in [Msgs -> Nat] /\ Grace \in Nat
      /\ burnTimers \subseteq Msgs \X Nat
  BY NowGrows, NextType, RetentionAssumption DEF TypeOK
<1>2. /\ reading' \subseteq Msgs /\ burning' \subseteq Msgs
      /\ burnTimers' \subseteq Msgs \X Nat
  BY NextType DEF TypeOK
<1>3. \A m \in Msgs : readAt[m] # 0 => /\ readAt'[m] = readAt[m]
                                       /\ msg'[m].burn = msg[m].burn
                                       /\ msg'[m].st \in {"stored", "gone"}
  BY ReadAtKept, FlagsKept DEF BurnInv
<1>4. \A m \in Msgs, t \in Nat : ReadBefore(m, t) => ReadBefore(m, t)'
  BY <1>3 DEF ReadBefore
<1>5. \A m \in Msgs : BurnStep(m)
  BY BurnSteps
<1>6. \A m \in Msgs : readAt'[m] <= now'
  <2>1. \A m \in Msgs : readAt'[m] = readAt[m] \/ readAt'[m] = now
    BY ReadAtKept
  <2> QED
    BY <1>1, <2>1 DEF BurnInv
<1>7. ASSUME NEW m \in Msgs, readAt'[m] # 0
      PROVE  msg'[m].st \in {"stored", "gone"}
  <2>1. CASE readAt[m] # 0
    BY <1>3, <2>1
  <2>2. CASE readAt[m] = 0
    <3>1. Stored(m)
      BY <1>7, <2>2, ReadAtKept
    <3>2. msg[m].st \in {"stored", "gone"}
      BY <3>1 DEF Stored
    <3> QED
      BY <3>2, FlagsKept
  <2> QED
    BY <2>1, <2>2
<1>8. \A m \in reading' : readAt'[m] # 0
  BY <1>2, <1>3, <1>5 DEF BurnStep, BurnInv
<1>9. ASSUME NEW m \in Msgs, NEW t \in Nat, <<m, t>> \in burnTimers'
      PROVE  ReadBefore(m, t)'
  <2>1. CASE <<m, t>> \in burnTimers
    BY <1>4, <2>1 DEF BurnInv
  <2>2. CASE m \in reading /\ msg[m].burn /\ t = now + Grace
    BY <1>1, <1>4, <2>2 DEF BurnInv, ReadBefore
  <2> QED
    BY <1>5, <1>9, <2>1, <2>2 DEF BurnStep
<1>10. \A t \in burnTimers' : ReadBefore(t[1], t[2])'
  BY <1>2, <1>9
<1>11. ASSUME NEW m \in burning' PROVE ReadBefore(m, now)'
  <2>0. m \in Msgs
    BY <1>2
  <2>1. CASE m \in burning
    <3>1. ReadBefore(m, now)
      BY <2>1 DEF BurnInv
    <3> QED
      BY <1>1, <1>3, <2>0, <3>1 DEF ReadBefore
  <2>2. CASE \E t \in Nat : <<m, t>> \in burnTimers /\ t <= now
    <3>1. PICK t \in Nat : <<m, t>> \in burnTimers /\ t <= now
      BY <2>2
    <3>2. ReadBefore(m, t)
      BY <3>1 DEF BurnInv
    <3> QED
      BY <1>1, <1>3, <2>0, <3>1, <3>2 DEF ReadBefore
  <2> QED
    BY <1>5, <2>0, <2>1, <2>2 DEF BurnStep
<1> QED
  BY <1>6, <1>7, <1>8, <1>10, <1>11 DEF BurnInv

\* The reasons for which a stored document may go in this step.
Justified(m) ==
    \/ ExpiredBy(msg[m].expiresAt, now)
    \/ \E d \in Deletes : msg[m].conv = del[d].conv
    \/ msg[m].burn /\ readAt[m] # 0 /\ readAt[m] + Grace <= now

LEMMA StepJustified ==
    ASSUME TypeOK, JobInv, BurnInv, [Next]_vars, NEW m \in Msgs,
           Stored(m), ~Stored(m)'
    PROVE  Justified(m)
<1>1. CASE \E k \in Msgs : BurnDelete(k)
  BY <1>1 DEF BurnDelete, Without, Stored, BurnInv, ReadBefore, Justified
<1>2. CASE \E k \in Msgs : TtlMessage(k)
  BY <1>2 DEF TtlMessage, Without, Stored, Justified
<1>3. CASE \E d \in Deletes : ConvDeleteMessages(d)
  BY <1>3 DEF ConvDeleteMessages, Without, Stored, Justified
<1>4. CASE PurgeMessages
  <2>1. ExpiredBy(msg[m].expiresAt, job.at)
    BY <1>4 DEF PurgeMessages, Without, Stored, Purgeable
  <2>2. msg[m].expiresAt \in Nat /\ job.at \in Nat /\ now \in Nat
    BY DEF TypeOK, MsgDoc
  <2> QED
    BY <2>1, <2>2 DEF ExpiredBy, JobInv, Justified
<1>5. CASE \/ \E k \in Msgs : MsgInsert(k) \/ MsgDelivered(k) \/ MsgRead(k)
           \/ \E k \in Msgs, c \in Convs, t \in MsgTtls, b \in Burns :
                 MsgBuild(k, c, t, b)
  <2>1. msg[m] \in MsgDoc
    BY DEF TypeOK
  <2>2. \/ msg'[m] = msg[m]
        \/ msg'[m] = [msg[m] EXCEPT !.delivered = TRUE]
        \/ msg'[m] = MarkRead(msg[m])
    <3>0. msg \in [Msgs -> MsgDoc] /\ msg[m].st = "stored"
      BY DEF TypeOK, Stored
    <3>1. ASSUME NEW k \in Msgs, MsgInsert(k) PROVE msg'[m] = msg[m]
      BY <3>0, <3>1 DEF MsgInsert
    <3>2. ASSUME NEW k \in Msgs, NEW c \in Convs, NEW t \in MsgTtls,
                 NEW b \in Burns, MsgBuild(k, c, t, b)
          PROVE  msg'[m] = msg[m]
      BY <3>0, <3>2 DEF MsgBuild
    <3>3. ASSUME NEW k \in Msgs, MsgDelivered(k)
          PROVE  msg'[m] = msg[m] \/ msg'[m] = [msg[m] EXCEPT !.delivered = TRUE]
      BY <3>0, <3>3 DEF MsgDelivered
    <3>4. ASSUME NEW k \in Msgs, MsgRead(k)
          PROVE  msg'[m] = msg[m] \/ msg'[m] = MarkRead(msg[m])
      BY <3>0, <3>4 DEF MsgRead
    <3> QED
      BY <1>5, <3>1, <3>2, <3>3, <3>4
  <2>3. /\ [msg[m] EXCEPT !.delivered = TRUE].st = msg[m].st
        /\ MarkRead(msg[m]).st = msg[m].st
    BY <2>1, MsgDocUpdate
  <2> QED
    BY <2>2, <2>3 DEF Stored
<1>6. CASE ProcessEnds
  BY <1>6 DEF ProcessEnds, Stored
<1>7. CASE UNCHANGED msg
  BY <1>7 DEF Stored
<1> QED
  BY <1>1, <1>2, <1>3, <1>4, <1>5, <1>6, <1>7
     DEF Next, MsgDeliveredDone, MsgReadDone, BurnFire, ConvCreate, ConvDelete,
         TtlConv, ConvDeleteDoc, ConvDeleteError, PurgeStart, PurgeConvs, PurgeError,
         Tick, Shutdown, Crash, Exit, Restart, vars

\* No message document is removed before its expiry, the deletion of its
\* conversation or the end of the grace period after its first read, for
\* every lifetime and grace period and any number of faults.
THEOREM DeletionsJustified == Spec => DeletionJustified
<1>1. Init => JobInv /\ BurnInv
  BY DEF Init, JobInv, BurnInv
<1>2. TypeOK /\ JobInv /\ BurnInv /\ [Next]_vars
        => [\A m \in Msgs : Stored(m) /\ ~Stored(m)' => Justified(m)]_vars
  BY StepJustified
<1>3. (\A m \in Msgs : Stored(m) /\ ~Stored(m)' => Justified(m))
        <=> (\A m \in Msgs :
               Stored(m) /\ ~Stored(m)' =>
                  \/ ExpiredBy(msg[m].expiresAt, now)
                  \/ \E d \in Deletes : msg[m].conv = del[d].conv
                  \/ /\ msg[m].burn
                     /\ readAt[m] # 0
                     /\ readAt[m] + Grace <= now)
  BY DEF Justified
<1> QED
  BY <1>1, <1>2, <1>3, NextJob, NextBurn, TypeCorrect, PTL
     DEF Spec, DeletionJustified

-----------------------------------------------------------------------------
(* A burn message that was read is not forgotten *)

\* Its removal is under way: message:read has not returned, its timer is
\* armed, or the timer has fired.
BurnPending(m) ==
    \/ m \in reading
    \/ \E t \in Nat : <<m, t>> \in burnTimers
    \/ m \in burning

\* The safety half of BurnHappens: a removal that is under way stays so until
\* the document is gone or the process is stopped.
BurnKept ==
    [][\A m \in Msgs :
         msg[m].burn /\ BurnPending(m) =>
            BurnPending(m)' \/ ~Stored(m)' \/ server' # "up"]_vars

\* And one is under way for every burn message that was read and is still
\* stored, in a process in which nothing has failed.
BurnNotForgotten ==
    \A m \in Msgs :
        faults = 0 /\ Stored(m) /\ msg[m].burn /\ msg[m].read => BurnPending(m)

PendingInv ==
    /\ server # "up" => faults # 0
    /\ \A m \in Msgs : msg[m].st \in {"none", "built"} => ~msg[m].read
    /\ BurnNotForgotten

\* Each handler and each callback passes the removal on to the next.
LEMMA PendingKept ==
    ASSUME TypeOK, [Next]_vars, NEW m \in Msgs, msg[m].burn, BurnPending(m)
    PROVE  BurnPending(m)' \/ ~Stored(m)' \/ server' # "up"
<1>0. now \in Nat /\ Grace \in Nat /\ burnTimers \subseteq Msgs \X Nat
  BY RetentionAssumption DEF TypeOK
<1>1. CASE \E k \in Msgs : MsgRead(k)
  BY <1>1 DEF MsgRead, BurnPending
<1>2. CASE \E k \in Msgs : MsgReadDone(k)
  <2>1. PICK k \in Msgs : MsgReadDone(k)
    BY <1>2
  <2>2. CASE k = m
    <3>1. <<m, now + Grace>> \in burnTimers' /\ now + Grace \in Nat
      BY <1>0, <2>1, <2>2 DEF MsgReadDone, BurnTimer
    <3> QED
      BY <3>1 DEF BurnPending
  <2>3. CASE k # m
    BY <2>1, <2>3 DEF MsgReadDone, BurnPending
  <2> QED
    BY <2>2, <2>3
<1>3. CASE \E k \in Msgs : BurnFire(k)
  <2>1. PICK k \in Msgs : BurnFire(k)
    BY <1>3
  <2>2. PICK due \in 0 .. now : burnTimers' = burnTimers \ {<<k, due>>}
    BY <2>1 DEF BurnFire
  <2>3. burning' = burning \cup {k} /\ reading' = reading
    BY <2>1 DEF BurnFire
  <2>4. k # m => \A t \in Nat : <<m, t>> \in burnTimers => <<m, t>> \in burnTimers'
    BY <2>2
  <2> QED
    BY <2>3, <2>4 DEF BurnPending
<1>4. CASE \E k \in Msgs : BurnDelete(k)
  <2>1. PICK k \in Msgs : BurnDelete(k)
    BY <1>4
  <2>2. CASE k = m
    <3>1. ~Stored(m)'
      <4>1. msg[m] \in MsgDoc
        BY DEF TypeOK
      <4>2. [msg[m] EXCEPT !.st = "gone"].st = "gone"
        BY <4>1, MsgDocUpdate
      <4>3. msg'[m] = IF Stored(m) THEN [msg[m] EXCEPT !.st = "gone"] ELSE msg[m]
        BY <2>1, <2>2 DEF BurnDelete, Without
      <4> QED
        BY <4>2, <4>3 DEF Stored
    <3> QED
      BY <3>1
  <2>3. CASE k # m
    BY <2>1, <2>3 DEF BurnDelete, BurnPending
  <2> QED
    BY <2>2, <2>3
<1>5. CASE Shutdown \/ ProcessEnds
  BY <1>5 DEF Shutdown, ProcessEnds
<1>6. CASE UNCHANGED <<reading, burnTimers, burning>>
  BY <1>6 DEF BurnPending
<1> QED
  BY <1>1, <1>2, <1>3, <1>4, <1>5, <1>6
     DEF Next, MsgBuild, MsgInsert, MsgDelivered, MsgDeliveredDone,
         TtlMessage, ConvCreate,
         ConvDelete, TtlConv, ConvDeleteMessages, ConvDeleteDoc,
         ConvDeleteError, PurgeStart, PurgeMessages, PurgeConvs, PurgeError,
         Tick, Crash, Exit, Restart, vars, burnVars

\* A process that is not up has met a fault, and faults are not forgotten.
LEMMA FaultsCounted ==
    ASSUME TypeOK, [Next]_vars, server # "up" => faults # 0
    PROVE  (server' # "up" => faults' # 0) /\ (faults' = 0 => faults = 0)
<1>0. faults \in Nat
  BY DEF TypeOK
<1>1. \/ faults' = faults + 1
      \/ faults' = faults /\ (server' = server \/ server' = "up" \/ server = "draining")
  BY DEF Next, MsgBuild, MsgInsert, MsgDelivered, MsgDeliveredDone,
         MsgRead, MsgReadDone, BurnFire,
         BurnDelete, TtlMessage, ConvCreate, ConvDelete, TtlConv,
         ConvDeleteMessages, ConvDeleteDoc, ConvDeleteError, PurgeStart,
         PurgeMessages, PurgeConvs, PurgeError, Tick, Shutdown, Crash, Exit,
         Restart, vars, procVars
<1> QED
  BY <1>0, <1>1

\* Every step leaves the removal of each read burn message under way.
LEMMA NextPending == TypeOK /\ PendingInv /\ [Next]_vars => PendingInv'
<1> SUFFICES ASSUME TypeOK, PendingInv, [Next]_vars PROVE PendingInv'
  OBVIOUS
<1>1. (server' # "up" => faults' # 0) /\ (faults' = 0 => faults = 0)
  BY FaultsCounted DEF PendingInv
<1>2. ASSUME NEW m \in Msgs
      PROVE  /\ msg'[m].st \in {"none", "built"} => ~msg'[m].read
             /\ faults' = 0 /\ Stored(m)' /\ msg'[m].burn /\ msg'[m].read => BurnPending(m)'
  <2>1. MsgStep(m)
    BY MsgSteps
  <2>2. msg[m] \in MsgDoc /\ (msg[m].st \in {"none", "built"} => ~msg[m].read)
    BY DEF TypeOK, PendingInv
  <2>3. faults' = 0 /\ Stored(m) /\ msg[m].burn /\ msg[m].read
           => BurnPending(m)' \/ ~Stored(m)'
    BY <1>1, PendingKept DEF PendingInv, BurnNotForgotten
  <2>4. CASE msg'[m] = msg[m]
    BY <2>2, <2>3, <2>4 DEF Stored
  <2>5. CASE msg'[m].st = "built" /\ ~msg'[m].read
    BY <2>5 DEF Stored
  <2>6. CASE msg[m].st = "built" /\ \E s \in {"stored", "gone"} : msg'[m] = [msg[m] EXCEPT !.st = s]
    <3>1. PICK s \in {"stored", "gone"} : msg'[m] = [msg[m] EXCEPT !.st = s]
      BY <2>6
    <3>2. msg'[m].read = msg[m].read
      BY <2>2, <3>1, MsgDocUpdate
    <3> QED
      BY <2>2, <2>6, <3>2
  <2>7. CASE msg'[m] = [msg[m] EXCEPT !.st = "gone"]
    <3>1. msg'[m].st = "gone"
      BY <2>2, <2>7, MsgDocUpdate
    <3> QED
      BY <3>1 DEF Stored
  <2>8. CASE msg[m].st = "stored" /\ msg'[m] = [msg[m] EXCEPT !.delivered = TRUE]
    <3>1. msg'[m].st = msg[m].st /\ msg'[m].burn = msg[m].burn /\ msg'[m].read = msg[m].read
      BY <2>2, <2>8, MsgDocUpdate
    <3> QED
      BY <2>3, <2>8, <3>1 DEF Stored
  <2>9. CASE msg[m].st = "stored" /\ msg'[m] = MarkRead(msg[m]) /\ m \in reading'
    <3>1. MarkRead(msg[m]).st = msg[m].st
      BY <2>2, MsgDocUpdate
    <3>2. msg'[m].st = "stored"
      BY <2>9, <3>1
    <3>3. BurnPending(m)'
      BY <2>9, Zenon DEF BurnPending
    <3> QED
      BY <3>2, <3>3
  <2> QED
    BY <2>1, <2>4, <2>5, <2>6, <2>7, <2>8, <2>9 DEF MsgStep
<1> QED
  BY <1>1, <1>2 DEF PendingInv, BurnNotForgotten

\* message:read and the burn timer: in a process in which nothing has failed,
\* every burn message that was read and is still stored is about to be
\* removed, for any number of messages and receipts in any order.
THEOREM BurnsArePending == Spec => []BurnNotForgotten
<1>1. Init => PendingInv
  BY DEF Init, PendingInv, BurnNotForgotten, Stored
<1>2. PendingInv => BurnNotForgotten
  BY DEF PendingInv
<1> QED
  BY <1>1, <1>2, NextPending, TypeCorrect, PTL DEF Spec

\* The removal of a read burn message is dropped only when the process is
\* stopped, which clears the timers, or when the document is gone.
THEOREM BurnsAreKept == Spec => BurnKept
<1>1. TypeOK /\ [Next]_vars
        => [\A m \in Msgs : msg[m].burn /\ BurnPending(m) =>
               BurnPending(m)' \/ ~Stored(m)' \/ server' # "up"]_vars
  BY PendingKept
<1> QED
  BY <1>1, TypeCorrect, PTL DEF Spec, BurnKept
=============================================================================
