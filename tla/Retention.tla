------------------------------ MODULE Retention ------------------------------
(***************************************************************************)
(* How long documents live: read receipts and burn-after-reading timers    *)
(* (socket/handlers/message.ts:135-227), creation and deletion of          *)
(* conversations (routes/conversations.ts:66-152), the expiry job and the  *)
(* shutdown of index.ts, the serverless cron of api/cron.ts, and MongoDB's *)
(* TTL indexes, with a process that may stop at any point.                 *)
(*                                                                         *)
(* message:send (module MessageSend) appears here as its two steps that    *)
(* matter to the documents: the participant check, which builds the        *)
(* document, and the insert.                                               *)
(***************************************************************************)
EXTENDS Naturals

CONSTANTS
    Convs, Msgs,  \* document ids
    Deletes,      \* activations of DELETE /api/conversations/:id
    MsgTtls,      \* values of expiresInMs for a message, 0 = absent
    ConvTtls,     \* values of expiresInMs for a conversation, 0 = absent
    Burns,        \* values of burnAfterReading
    Grace,        \* delay of the burn timer (3000 ms)
    Serverless,   \* TRUE: api/cron.ts runs the purge; FALSE: the job of index.ts
    MaxTime,      \* bound on the clock
    MaxFaults     \* bound on process exits and failed database calls

ASSUME RetentionAssumption ==
    /\ MsgTtls \subseteq Nat
    /\ ConvTtls \subseteq Nat
    /\ Burns \subseteq BOOLEAN
    /\ Grace \in Nat
    /\ Serverless \in BOOLEAN
    /\ MaxTime \in Nat
    /\ MaxFaults \in Nat

VARIABLES
    now,         \* wall clock; starts at 1 so that 0 can mean "never"
    server,      \* "up", "draining" (SIGTERM received), "down"
    faults,      \* faults so far
    conv,        \* conversation documents
    msg,         \* message documents
    told,        \* message:status events broadcast for each message
    delivering,  \* message:delivered activations between update and emit
    reading,     \* message:read activations between update and timer
    burnTimers,  \* armed burn timers <<message, due instant>>
    burning,     \* burn timers that fired, deleteOne not yet executed
    job,         \* the purge: instant it read, deleteMany calls still to run
    del,         \* DELETE activations
    readAt       \* history: instant of the first read of a message

vars == <<now, server, faults, conv, msg, told, delivering, reading, burnTimers,
          burning, job, del, readAt>>
burnVars == <<told, delivering, reading, burnTimers, burning, readAt>>
procVars == <<now, server, faults>>

-----------------------------------------------------------------------------
ConvDoc == [st : {"none", "live", "gone"}, selfDestruct : BOOLEAN,
            expiresAt : Nat]

\* "built": the document exists in the memory of message:send only.
MsgDoc == [st : {"none", "built", "stored", "gone"}, conv : SUBSET Convs,
           burn : BOOLEAN, expiresAt : Nat, delivered : BOOLEAN,
           read : BOOLEAN]

TypeOK ==
    /\ now \in Nat \ {0}
    /\ server \in {"up", "draining", "down"}
    /\ faults \in Nat
    /\ conv \in [Convs -> ConvDoc]
    /\ msg \in [Msgs -> MsgDoc]
    /\ told \in [Msgs -> SUBSET {"delivered", "read"}]
    /\ delivering \subseteq Msgs
    /\ reading \subseteq Msgs
    /\ burnTimers \subseteq Msgs \X Nat
    /\ burning \subseteq Msgs
    /\ job \in [at : Nat, todo : SUBSET {"messages", "conversations"}]
    /\ del \in [Deletes -> [st : {"idle", "active", "ok", "failed"},
                            todo : SUBSET {"messages", "conversation"},
                            conv : SUBSET Convs]]
    /\ readAt \in [Msgs -> Nat]

Init ==
    /\ now = 1
    /\ server = "up"
    /\ faults = 0
    /\ conv = [c \in Convs |-> [st |-> "none", selfDestruct |-> FALSE,
                                expiresAt |-> 0]]
    /\ msg = [m \in Msgs |-> [st |-> "none", conv |-> {}, burn |-> FALSE,
                              expiresAt |-> 0, delivered |-> FALSE,
                              read |-> FALSE]]
    /\ told = [m \in Msgs |-> {}]
    /\ delivering = {}
    /\ reading = {}
    /\ burnTimers = {}
    /\ burning = {}
    /\ job = [at |-> 0, todo |-> {}]
    /\ del = [d \in Deletes |-> [st |-> "idle", todo |-> {}, conv |-> {}]]
    /\ readAt = [m \in Msgs |-> 0]

-----------------------------------------------------------------------------
Running == server # "down"
Stored(m) == msg[m].st = "stored"

\* The query {expiresAt: {$lte: t}}: an absent field matches nothing.
ExpiredBy(e, t) == e # 0 /\ e <= t

\* Mutant: the lifetime is subtracted.
ExpiryBackwards(ttl) == IF ttl = 0 THEN 0 ELSE now - ttl

\* expiresInMs ? new Date(Date.now() + expiresInMs) : undefined
ExpiryOf(ttl) == IF ttl = 0 THEN 0 ELSE now + ttl

\* The message documents with those of the set M removed.
Without(M) ==
    [m \in Msgs |-> IF m \in M /\ Stored(m) THEN [msg[m] EXCEPT !.st = "gone"]
                                            ELSE msg[m]]

\* Mutant: a read message is not marked delivered.
MarkReadOnly(d) == [d EXCEPT !.read = TRUE]

\* The $set of message:read.
MarkRead(d) == [d EXCEPT !.read = TRUE, !.delivered = TRUE]

\* Mutant: the timer has no grace period.
BurnsAtOnce(m) == IF msg[m].burn THEN {<<m, now>>} ELSE {}
\* Mutant: the timer is never armed.
NoBurns(m) == {}

\* The timer message:read arms once m is read.
BurnTimer(m) == IF msg[m].burn THEN {<<m, now + Grace>>} ELSE {}

\* Mutant: a lifetime makes any conversation expire.
AnyExpiry(selfDestruct, ttl) == ExpiryOf(ttl)

\* A conversation expires only if it is self-destructing.
ConvExpiry(selfDestruct, ttl) == IF selfDestruct THEN ExpiryOf(ttl) ELSE 0

\* Mutant: $gte for $lte.
NotYetExpired(t) == {m \in Msgs : msg[m].expiresAt >= t}

\* What Message.deleteMany({expiresAt: {$lte: t}}) matches.
Purgeable(t) == {m \in Msgs : ExpiredBy(msg[m].expiresAt, t)}

-----------------------------------------------------------------------------
(* Messages *)

\* message:send passes its participant check and builds the document.
MsgBuild(m, c, ttl, burn) ==
    /\ Running
    /\ msg[m].st = "none"
    /\ conv[c].st = "live"
    /\ msg' = [msg EXCEPT ![m] = [st |-> "built", conv |-> {c}, burn |-> burn,
                                  expiresAt |-> ExpiryOf(ttl),
                                  delivered |-> FALSE, read |-> FALSE]]
    /\ UNCHANGED <<procVars, conv, burnVars, job, del>>

\* Message.create: nothing re-checks that the conversation still exists.
MsgInsert(m) ==
    /\ msg[m].st = "built"
    /\ msg' = [msg EXCEPT ![m].st = "stored"]
    /\ UNCHANGED <<procVars, conv, burnVars, job, del>>

\* message:delivered, up to its findOneAndUpdate.  The handler does not look
\* at who calls it.
MsgDelivered(m) ==
    /\ Running
    /\ Stored(m)
    /\ msg' = [msg EXCEPT ![m].delivered = TRUE]
    /\ delivering' = delivering \cup {m}
    /\ UNCHANGED <<procVars, conv, told, reading, burnTimers, burning, readAt, job, del>>

\* Its continuation: tell the room, whatever happened to the document since.
MsgDeliveredDone(m) ==
    /\ m \in delivering
    /\ delivering' = delivering \ {m}
    /\ told' = [told EXCEPT ![m] = @ \cup {"delivered"}]
    /\ UNCHANGED <<procVars, conv, msg, reading, burnTimers, burning, readAt, job, del>>

\* message:read, up to its findOneAndUpdate.
MsgRead(m) ==
    /\ Running
    /\ Stored(m)
    /\ now < MaxTime     \* bound: the clock can still move
    /\ msg' = [msg EXCEPT ![m] = MarkRead(@)]
    /\ reading' = reading \cup {m}
    /\ readAt' = [readAt EXCEPT ![m] = IF @ = 0 THEN now ELSE @]
    /\ UNCHANGED <<procVars, conv, told, delivering, burnTimers, burning, job, del>>

\* Its continuation: tell the room and arm the burn timer.
MsgReadDone(m) ==
    /\ m \in reading
    /\ reading' = reading \ {m}
    /\ told' = [told EXCEPT ![m] = @ \cup {"read"}]
    /\ burnTimers' = burnTimers \cup BurnTimer(m)
    /\ UNCHANGED <<procVars, conv, msg, delivering, burning, readAt, job, del>>

\* The timer fires: it leaves burnTimers, then issues deleteOne.
BurnFire(m) ==
    /\ \E due \in 0 .. now :
          /\ <<m, due>> \in burnTimers
          /\ burnTimers' = burnTimers \ {<<m, due>>}
    /\ burning' = burning \cup {m}
    /\ UNCHANGED <<procVars, conv, msg, told, delivering, reading, readAt, job, del>>

\* Message.deleteOne.  (Its rejection is an unhandled promise rejection,
\* which ends the process: a Crash.)
BurnDelete(m) ==
    /\ m \in burning
    /\ burning' = burning \ {m}
    /\ msg' = Without({m})
    /\ UNCHANGED <<procVars, conv, told, delivering, reading, burnTimers, readAt, job, del>>

-----------------------------------------------------------------------------
(* Conversations *)

\* POST /api/conversations: expiresAt is set only together with selfDestruct.
ConvCreate(c, selfDestruct, ttl) ==
    /\ Running
    /\ conv[c].st = "none"
    /\ conv' = [conv EXCEPT ![c] =
                  [st |-> "live", selfDestruct |-> selfDestruct,
                   expiresAt |-> ConvExpiry(selfDestruct, ttl)]]
    /\ UNCHANGED <<procVars, msg, burnVars, job, del>>

\* DELETE /api/conversations/:id finds the caller's conversation and starts
\* both deletions (Promise.all).
ConvDelete(d, c) ==
    /\ Running
    /\ del[d].st = "idle"
    /\ conv[c].st = "live"
    /\ del' = [del EXCEPT ![d] = [st |-> "active", conv |-> {c},
                                  todo |-> {"messages", "conversation"}]]
    /\ UNCHANGED <<procVars, conv, msg, burnVars, job>>

\* Operation op of activation d has ended, leaving it in state st.
DelAfter(d, op, st) ==
    [del EXCEPT ![d].todo = @ \ {op},
                ![d].st = IF st = "active" /\ del[d].todo = {op} THEN "ok"
                                                                 ELSE st]

\* Message.deleteMany({conversationId})
ConvDeleteMessages(d) ==
    /\ "messages" \in del[d].todo
    /\ msg' = Without({m \in Msgs : msg[m].conv = del[d].conv})
    /\ del' = DelAfter(d, "messages", del[d].st)
    /\ UNCHANGED <<procVars, conv, burnVars, job>>

\* conversation.deleteOne()
ConvDeleteDoc(d) ==
    /\ "conversation" \in del[d].todo
    /\ conv' = [c \in Convs |-> IF c \in del[d].conv
                                THEN [conv[c] EXCEPT !.st = "gone"] ELSE conv[c]]
    /\ del' = DelAfter(d, "conversation", del[d].st)
    /\ UNCHANGED <<procVars, msg, burnVars, job>>

\* One of the two fails: Promise.all rejects, the route answers 500, the
\* other one still runs.
ConvDeleteError(d) ==
    /\ faults < MaxFaults
    /\ faults' = faults + 1
    /\ \E op \in del[d].todo : del' = DelAfter(d, op, "failed")
    /\ UNCHANGED <<now, server, conv, msg, burnVars, job>>

-----------------------------------------------------------------------------
(* The purge: one run at a time (bound) *)

\* The interval fires, or the cron endpoint is called: read the clock.
PurgeStart ==
    /\ server = "up"
    /\ job.todo = {}
    /\ job' = [at |-> now, todo |-> {"messages", "conversations"}]
    /\ UNCHANGED <<procVars, conv, msg, burnVars, del>>

\* Message.deleteMany({expiresAt: {$lte: now}})
PurgeMessages ==
    /\ "messages" \in job.todo
    /\ msg' = Without(Purgeable(job.at))
    /\ job' = [job EXCEPT !.todo = @ \ {"messages"}]
    /\ UNCHANGED <<procVars, conv, burnVars, del>>

\* Conversation.deleteMany: after the messages in index.ts, in parallel with
\* them in api/cron.ts.
PurgeConvs ==
    /\ "conversations" \in job.todo
    /\ Serverless \/ "messages" \notin job.todo
    /\ conv' = [c \in Convs |->
                  IF /\ conv[c].st = "live"
                     /\ conv[c].selfDestruct
                     /\ ExpiredBy(conv[c].expiresAt, job.at)
                  THEN [conv[c] EXCEPT !.st = "gone"] ELSE conv[c]]
    /\ job' = [job EXCEPT !.todo = @ \ {"conversations"}]
    /\ UNCHANGED <<procVars, msg, burnVars, del>>

\* A deleteMany rejects: the job abandons its run; under Promise.all the
\* other call still runs.
PurgeError ==
    /\ faults < MaxFaults
    /\ faults' = faults + 1
    /\ \E op \in job.todo :
          job' = [job EXCEPT !.todo = IF Serverless THEN @ \ {op} ELSE {}]
    /\ UNCHANGED <<now, server, conv, msg, burnVars, del>>

\* MongoDB's TTL monitor removes expired documents at any later time.
TtlMessage(m) ==
    /\ Stored(m)
    /\ ExpiredBy(msg[m].expiresAt, now)
    /\ msg' = Without({m})
    /\ UNCHANGED <<procVars, conv, burnVars, job, del>>

TtlConv(c) ==
    /\ conv[c].st = "live"
    /\ ExpiredBy(conv[c].expiresAt, now)
    /\ conv' = [conv EXCEPT ![c].st = "gone"]
    /\ UNCHANGED <<procVars, msg, burnVars, job, del>>

-----------------------------------------------------------------------------
(* Clock and process *)

\* Bound: past MaxTime the clock moves only for timers already armed.
Tick ==
    /\ now < MaxTime \/ \E t \in burnTimers : t[2] > now
    /\ now' = now + 1
    /\ UNCHANGED <<server, faults, conv, msg, burnVars, job, del>>

\* SIGTERM: the job stops and the burn timers are cleared; handlers that are
\* running go on until the process exits.
Shutdown ==
    /\ server = "up"
    /\ faults < MaxFaults
    /\ server' = "draining"
    /\ faults' = faults + 1
    /\ burnTimers' = {}
    /\ UNCHANGED <<now, conv, msg, told, delivering, reading, burning, readAt,
                   job, del>>

\* The process is gone: memory is lost, the documents stay.
ProcessEnds ==
    /\ server' = "down"
    /\ msg' = [m \in Msgs |-> IF msg[m].st = "built"
                              THEN [msg[m] EXCEPT !.st = "gone"] ELSE msg[m]]
    /\ delivering' = {}
    /\ reading' = {}
    /\ burnTimers' = {}
    /\ burning' = {}
    /\ job' = [job EXCEPT !.todo = {}]
    /\ del' = [d \in Deletes |-> IF del[d].todo = {} THEN del[d]
                 ELSE [del[d] EXCEPT !.st = "failed", !.todo = {}]]
    /\ UNCHANGED <<now, conv, told, readAt>>

\* A crash, or an unhandled promise rejection.
Crash ==
    /\ Running
    /\ faults < MaxFaults
    /\ faults' = faults + 1
    /\ ProcessEnds

\* The shutdown ends: the HTTP server has closed, or the timeout forces it.
Exit ==
    /\ server = "draining"
    /\ UNCHANGED faults
    /\ ProcessEnds

\* The supervisor starts the process again.
Restart ==
    /\ server = "down"
    /\ server' = "up"
    /\ UNCHANGED <<now, faults, conv, msg, burnVars, job, del>>

-----------------------------------------------------------------------------
Next ==
    \/ \E m \in Msgs, c \in Convs, t \in MsgTtls, b \in Burns :
          MsgBuild(m, c, t, b)
    \/ \E m \in Msgs : \/ MsgInsert(m) \/ MsgDelivered(m) \/ MsgDeliveredDone(m)
                       \/ MsgRead(m) \/ MsgReadDone(m) \/ BurnFire(m) \/ BurnDelete(m)
                       \/ TtlMessage(m)
    \/ \E c \in Convs : \/ \E sd \in BOOLEAN, t \in ConvTtls : ConvCreate(c, sd, t)
                        \/ \E d \in Deletes : ConvDelete(d, c)
                        \/ TtlConv(c)
    \/ \E d \in Deletes :
          ConvDeleteMessages(d) \/ ConvDeleteDoc(d) \/ ConvDeleteError(d)
    \/ PurgeStart \/ PurgeMessages \/ PurgeConvs \/ PurgeError
    \/ Tick \/ Shutdown \/ Crash \/ Exit \/ Restart

Spec == Init /\ [][Next]_vars

\* Continuations run once their call has returned, due timers fire, the
\* purge comes round, the supervisor restarts the process, a deletion that
\* was started ends, time passes.  Nothing is assumed of users and faults.
ServerFairness ==
    /\ \A m \in Msgs : /\ WF_vars(MsgInsert(m))
                       /\ WF_vars(MsgDeliveredDone(m)) /\ WF_vars(MsgReadDone(m))
                       /\ WF_vars(BurnFire(m)) /\ WF_vars(BurnDelete(m))
    /\ WF_vars(PurgeStart) /\ WF_vars(PurgeMessages) /\ WF_vars(PurgeConvs)
    /\ \A d \in Deletes : WF_vars(ConvDeleteMessages(d)) /\ WF_vars(ConvDeleteDoc(d))
    /\ WF_vars(Tick) /\ WF_vars(Exit) /\ WF_vars(Restart)

FairSpec == Spec /\ ServerFairness

\* The same with a TTL monitor that does come round.
TtlFairSpec ==
    /\ FairSpec
    /\ \A m \in Msgs : WF_vars(TtlMessage(m))
    /\ \A c \in Convs : WF_vars(TtlConv(c))

-----------------------------------------------------------------------------
(* Safety *)

\* No message document disappears without a reason: it has expired, someone
\* asked for the deletion of its conversation, or it is a burn message first
\* read at least the grace period ago, however often it was read, whatever
\* was restarted meanwhile (message.ts:212-217, index.ts:29,
\* routes/conversations.ts:144-147).
DeletionJustified ==
    [][\A m \in Msgs :
         Stored(m) /\ ~Stored(m)' =>
            \/ ExpiredBy(msg[m].expiresAt, now)
            \/ \E d \in Deletes : msg[m].conv = del[d].conv
            \/ /\ msg[m].burn
               /\ readAt[m] # 0
               /\ readAt[m] + Grace <= now]_vars

\* A message:status event broadcast to the room never says more than the
\* document does, and a read message is a delivered one, whatever the order
\* in which receipts arrive (message.ts:148-167, 189-207).
StatusTruthful ==
    \A m \in Msgs :
        /\ "delivered" \in told[m] => msg[m].delivered
        /\ "read" \in told[m] => msg[m].read
        /\ msg[m].read => msg[m].delivered

\* A conversation that is not self-destructing never expires: it goes only
\* when its deletion was requested (routes/conversations.ts:93-94,
\* index.ts:30-33).
ConvKeptUntilAsked ==
    \A c \in Convs :
        conv[c].st = "gone" =>
            \/ conv[c].selfDestruct /\ ExpiredBy(conv[c].expiresAt, now)
            \/ \E d \in Deletes : c \in del[d].conv

-----------------------------------------------------------------------------
(* Liveness *)

\* An expired message is removed by the purge alone, even if the process
\* dies or a deleteMany fails between two runs (index.ts:25-45,
\* api/cron.ts:20-25).
ExpiredIsRemoved ==
    \A m \in Msgs :
        (Stored(m) /\ ExpiredBy(msg[m].expiresAt, now)) ~> ~Stored(m)

\* A burn message whose reading is being handled is removed, unless the
\* process is stopped first (message.ts:212-220).
BurnHappens ==
    \A m \in Msgs :
        (m \in reading /\ msg[m].burn) ~> (~Stored(m) \/ server # "up")

-----------------------------------------------------------------------------
(* What the repository says and the code does not do *)

\* message.ts:210-211: "the MongoDB TTL index acts as a fallback for messages
\* missed during a crash".
BurnSurvivesCrash ==
    \A m \in Msgs : (Stored(m) /\ msg[m].read /\ msg[m].burn) ~> ~Stored(m)
=============================================================================
