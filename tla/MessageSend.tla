----------------------------- MODULE MessageSend -----------------------------
(***************************************************************************)
(* message:send and the Socket.IO rooms it broadcasts to: the handlers of  *)
(* socket/handlers/message.ts:56-133 and socket/handlers/conversation.ts,  *)
(* with the nonces kept in Redis and the documents kept in MongoDB.        *)
(*                                                                         *)
(* Node runs one callback at a time, so everything between two awaits is   *)
(* one step; every await is a point where any other handler, a deletion or *)
(* a crash may come in between.  A database call and the local code that   *)
(* follows it, up to the next call, are one step.                          *)
(*                                                                         *)
(* A message is identified with the activation of message:send that        *)
(* creates it (each creates at most one), so Sends plays both roles.  How  *)
(* long documents live is the subject of module Retention.                 *)
(***************************************************************************)
EXTENDS Naturals, FiniteSets

CONSTANTS
    Users,       \* registered accounts
    Sockets,     \* socket ids; one id is connected at most once
    UserOf,      \* the user a socket authenticated as (socket.userId)
    Convs,       \* conversation ids
    Sends,       \* activations of message:send = message ids
    Nonces,      \* replay-protection nonces
    Requests,    \* the valid payloads of message:send
    NoRequest,   \* request of an activation that has not arrived
    Groups,      \* participant sets with which conversations are created
    NonceTTL,    \* REDIS_TTL.nonce: 300 s in redis.ts:48
    MaxTime,     \* bound on the clock
    MaxCrashes   \* bound on process exits

ASSUME SendAssumption ==
    /\ UserOf \in [Sockets -> Users]
    /\ Requests \subseteq [socket : Sockets, conv : Convs, nonce : Nonces]
    /\ NoRequest \notin Requests
    /\ Groups \subseteq SUBSET Users
    /\ NonceTTL \in Nat
    /\ MaxTime \in Nat
    /\ MaxCrashes \in Nat

VARIABLES
    now,         \* wall clock; starts at 1 so that 0 can mean "never"
    crashes,     \* number of process exits so far
    conv,        \* MongoDB: conversation documents
    msg,         \* MongoDB: is the message document there?
    nonceExp,    \* Redis: instant at which a nonce key expires, 0 = not set
    pc,          \* control state of each message:send activation
    req,         \* its payload
    stamp,       \* Date.now() taken when its document is built
    ack,         \* what it acknowledged to its client
    sock,        \* "new", "on", "off"
    rooms,       \* Socket.IO rooms conv:<id>
    joining,     \* conversation:join activations past their findOne
    inbox,       \* message:new events each socket received
    acceptedAt   \* history: instant at which a send claimed its nonce

sendVars == <<pc, req, stamp, ack>>
nonceVars == <<nonceExp, acceptedAt>>
roomVars == <<sock, rooms, joining, inbox>>
vars == <<now, crashes, conv, msg, sendVars, nonceVars, roomVars>>

-----------------------------------------------------------------------------
ConvDoc == [st : {"none", "live", "gone"}, participants : SUBSET Users,
            createdAt : Nat, lastMessageAt : Nat]

\* Mutant: an activation that has not begun may fail.
InFlightOrIdle == {"idle", "nonce", "check", "create", "update", "emit"}

\* The control states in which a call of message:send is pending.
InFlight == {"nonce", "check", "create", "update", "emit"}

TypeOK ==
    /\ now \in Nat \ {0}
    /\ crashes \in Nat
    /\ conv \in [Convs -> ConvDoc]
    /\ msg \in [Sends -> {"none", "stored", "gone"}]
    /\ nonceExp \in [Nonces -> Nat]
    /\ pc \in [Sends -> {"idle", "done", "lost"} \cup InFlight]
    /\ req \in [Sends -> Requests \cup {NoRequest}]
    /\ \A r \in Sends : pc[r] # "idle" => req[r] \in Requests
    /\ stamp \in [Sends -> Nat]
    /\ ack \in [Sends -> {"none", "ok", "replay", "denied", "error"}]
    /\ sock \in [Sockets -> {"new", "on", "off"}]
    /\ rooms \in [Convs -> SUBSET Sockets]
    /\ joining \subseteq Sockets \X Convs
    /\ inbox \in [Sockets -> SUBSET Sends]
    /\ acceptedAt \in [Sends -> Nat]

Init ==
    /\ now = 1
    /\ crashes = 0
    /\ conv = [c \in Convs |-> [st |-> "none", participants |-> {},
                                createdAt |-> 0, lastMessageAt |-> 0]]
    /\ msg = [r \in Sends |-> "none"]
    /\ nonceExp = [n \in Nonces |-> 0]
    /\ pc = [r \in Sends |-> "idle"]
    /\ req = [r \in Sends |-> NoRequest]
    /\ stamp = [r \in Sends |-> 0]
    /\ ack = [r \in Sends |-> "none"]
    /\ sock = [s \in Sockets |-> "new"]
    /\ rooms = [c \in Convs |-> {}]
    /\ joining = {}
    /\ inbox = [s \in Sockets |-> {}]
    /\ acceptedAt = [r \in Sends |-> 0]

-----------------------------------------------------------------------------
\* Mutant: any user may act on a live conversation.
ConversationExists(u, c) == conv[c].st = "live"

\* Conversation.findOne({_id, participants: userId})
Participates(u, c) == conv[c].st = "live" /\ u \in conv[c].participants

\* Mutant: the nonce key is set without NX.
NeverClaimed(n) == FALSE

\* Redis still has the nonce's key: it was set, and has not expired.
Claimed(n) == nonceExp[n] > now

\* Mutant: lastMessageAt takes the time of the update.
UpdateTime(r) == now

\* message.createdAt, with which the conversation is updated.
MessageTime(r) == stamp[r]

-----------------------------------------------------------------------------
(* message:send *)

\* The payload arrives and passes the schema.
SendArrive(r, q) ==
    /\ pc[r] = "idle"
    /\ sock[q.socket] = "on"
    /\ pc' = [pc EXCEPT ![r] = "nonce"]
    /\ req' = [req EXCEPT ![r] = q]
    /\ UNCHANGED <<now, crashes, conv, msg, stamp, ack, nonceVars, roomVars>>

\* redis.set(key, "1", "EX", ttl, "NX") finds no live key and sets it.
SendClaimNonce(r) ==
    /\ pc[r] = "nonce"
    /\ ~Claimed(req[r].nonce)
    /\ nonceExp' = [nonceExp EXCEPT ![req[r].nonce] = now + NonceTTL]
    /\ acceptedAt' = [acceptedAt EXCEPT ![r] = now]
    /\ pc' = [pc EXCEPT ![r] = "check"]
    /\ UNCHANGED <<now, crashes, conv, msg, req, stamp, ack, roomVars>>

\* The key is live: NX returns null, the message is refused as a replay.
\* (recordReplayAttempt counts in the security monitor, a component of its
\* own; its total is the number of "replay" acknowledgements.)
SendReplay(r) ==
    /\ pc[r] = "nonce"
    /\ Claimed(req[r].nonce)
    /\ pc' = [pc EXCEPT ![r] = "done"]
    /\ ack' = [ack EXCEPT ![r] = "replay"]
    /\ UNCHANGED <<now, crashes, conv, msg, req, stamp, nonceVars, roomVars>>

\* The sender takes part; the document, with its timestamp, is built.
SendAllowed(r) ==
    /\ pc[r] = "check"
    /\ Participates(UserOf[req[r].socket], req[r].conv)
    /\ stamp' = [stamp EXCEPT ![r] = now]
    /\ pc' = [pc EXCEPT ![r] = "create"]
    /\ UNCHANGED <<now, crashes, conv, msg, req, ack, nonceVars, roomVars>>

\* No such conversation, or not a participant.  The nonce stays claimed.
SendDenied(r) ==
    /\ pc[r] = "check"
    /\ ~Participates(UserOf[req[r].socket], req[r].conv)
    /\ pc' = [pc EXCEPT ![r] = "done"]
    /\ ack' = [ack EXCEPT ![r] = "denied"]
    /\ UNCHANGED <<now, crashes, conv, msg, req, stamp, nonceVars, roomVars>>

\* Message.create: nothing re-checks that the conversation still exists.
SendCreate(r) ==
    /\ pc[r] = "create"
    /\ msg' = [msg EXCEPT ![r] = "stored"]
    /\ pc' = [pc EXCEPT ![r] = "update"]
    /\ UNCHANGED <<now, crashes, conv, req, stamp, ack, nonceVars, roomVars>>

\* Conversation.updateOne: matches nothing when the conversation is gone.
SendUpdate(r) ==
    /\ pc[r] = "update"
    /\ conv' = IF conv[req[r].conv].st = "live"
               THEN [conv EXCEPT ![req[r].conv].lastMessageAt = MessageTime(r)]
               ELSE conv
    /\ pc' = [pc EXCEPT ![r] = "emit"]
    /\ UNCHANGED <<now, crashes, msg, req, stamp, ack, nonceVars, roomVars>>

\* message:new goes to the connected sockets of the room; acknowledge.
SendEmit(r) ==
    /\ pc[r] = "emit"
    /\ inbox' = [s \in Sockets |->
                   IF s \in rooms[req[r].conv] /\ sock[s] = "on"
                   THEN inbox[s] \cup {r} ELSE inbox[s]]
    /\ pc' = [pc EXCEPT ![r] = "done"]
    /\ ack' = [ack EXCEPT ![r] = "ok"]
    /\ UNCHANGED <<now, crashes, conv, msg, req, stamp, nonceVars, sock,
                   rooms, joining>>

\* Mutant: the catch answers as for a refusal.
SendErrorAnswersDenied(r) ==
    /\ pc[r] \in InFlight
    /\ pc' = [pc EXCEPT ![r] = "done"]
    /\ ack' = [ack EXCEPT ![r] = "denied"]
    /\ UNCHANGED <<now, crashes, conv, msg, req, stamp, nonceVars, roomVars>>

\* A Redis or MongoDB call rejects: the catch block answers "Server error".
\* The failing call is the pending one; a call that took effect but whose
\* reply was lost is that call's step followed by this one.
SendError(r) ==
    /\ pc[r] \in InFlight
    /\ pc' = [pc EXCEPT ![r] = "done"]
    /\ ack' = [ack EXCEPT ![r] = "error"]
    /\ UNCHANGED <<now, crashes, conv, msg, req, stamp, nonceVars, roomVars>>

-----------------------------------------------------------------------------
(* Rooms *)

Connect(s) ==
    /\ sock[s] = "new"
    /\ sock' = [sock EXCEPT ![s] = "on"]
    /\ UNCHANGED <<now, crashes, conv, msg, sendVars, nonceVars, rooms,
                   joining, inbox>>

\* Socket.IO takes a disconnecting socket out of all its rooms.
Disconnect(s) ==
    /\ sock[s] = "on"
    /\ sock' = [sock EXCEPT ![s] = "off"]
    /\ rooms' = [c \in Convs |-> rooms[c] \ {s}]
    /\ UNCHANGED <<now, crashes, conv, msg, sendVars, nonceVars, joining, inbox>>

\* conversation:join, up to its findOne.
Join(s, c) ==
    /\ sock[s] = "on"
    /\ Participates(UserOf[s], c)
    /\ joining' = joining \cup {<<s, c>>}
    /\ UNCHANGED <<now, crashes, conv, msg, sendVars, nonceVars, sock, rooms,
                   inbox>>

\* socket.join: nothing is checked again, not even that s is connected.
JoinDone(s, c) ==
    /\ <<s, c>> \in joining
    /\ joining' = joining \ {<<s, c>>}
    /\ rooms' = [rooms EXCEPT ![c] = @ \cup {s}]
    /\ UNCHANGED <<now, crashes, conv, msg, sendVars, nonceVars, sock, inbox>>

Leave(s, c) ==
    /\ sock[s] = "on"
    /\ s \in rooms[c]
    /\ rooms' = [rooms EXCEPT ![c] = @ \ {s}]
    /\ UNCHANGED <<now, crashes, conv, msg, sendVars, nonceVars, sock,
                   joining, inbox>>

-----------------------------------------------------------------------------
(* The rest of the server, as far as sending can see it *)

\* POST /api/conversations; the schema refuses fewer than two participants.
ConvCreate(c, g) ==
    /\ conv[c].st = "none"
    /\ Cardinality(g) >= 2
    /\ conv' = [conv EXCEPT ![c] = [st |-> "live", participants |-> g,
                                    createdAt |-> now, lastMessageAt |-> now]]
    /\ UNCHANGED <<now, crashes, msg, sendVars, nonceVars, roomVars>>

\* Deletion or expiry of a conversation document, at any time.
ConvRemove(c) ==
    /\ conv[c].st = "live"
    /\ conv' = [conv EXCEPT ![c].st = "gone"]
    /\ UNCHANGED <<now, crashes, msg, sendVars, nonceVars, roomVars>>

\* Deletion, burning or expiry of a message document, at any time.
MsgRemove(r) ==
    /\ msg[r] = "stored"
    /\ msg' = [msg EXCEPT ![r] = "gone"]
    /\ UNCHANGED <<now, crashes, conv, sendVars, nonceVars, roomVars>>

Tick ==
    /\ now < MaxTime
    /\ now' = now + 1
    /\ UNCHANGED <<crashes, conv, msg, sendVars, nonceVars, roomVars>>

\* The process ends and is started again: activations and sockets are lost,
\* MongoDB and Redis keep what they have.
Crash ==
    /\ crashes < MaxCrashes
    /\ crashes' = crashes + 1
    /\ pc' = [r \in Sends |-> IF pc[r] \in InFlight THEN "lost" ELSE pc[r]]
    /\ sock' = [s \in Sockets |-> IF sock[s] = "on" THEN "off" ELSE sock[s]]
    /\ rooms' = [c \in Convs |-> {}]
    /\ joining' = {}
    /\ UNCHANGED <<now, conv, msg, req, stamp, ack, nonceVars, inbox>>

-----------------------------------------------------------------------------
SendStep(r) ==
    \/ SendClaimNonce(r) \/ SendReplay(r) \/ SendAllowed(r) \/ SendDenied(r)
    \/ SendCreate(r) \/ SendUpdate(r) \/ SendEmit(r)

Next ==
    \/ \E r \in Sends, q \in Requests : SendArrive(r, q)
    \/ \E r \in Sends : SendStep(r) \/ SendError(r) \/ MsgRemove(r)
    \/ \E s \in Sockets : Connect(s) \/ Disconnect(s)
    \/ \E s \in Sockets, c \in Convs : Join(s, c) \/ JoinDone(s, c) \/ Leave(s, c)
    \/ \E c \in Convs, g \in Groups : ConvCreate(c, g)
    \/ \E c \in Convs : ConvRemove(c)
    \/ Tick \/ Crash

Spec == Init /\ [][Next]_vars

-----------------------------------------------------------------------------
(* Properties *)

\* Replay protection: two different sends that both got past the SET NX on
\* one nonce did so at least NonceTTL apart, whatever the interleaving of
\* their handlers, failures and restarts in between (message.ts:66-73).
\* NonceTTL is the 300 s of redis.ts:48, not the 24 h of
\* docs/security-model.md:133: a replay later than 300 s is accepted.
NonceWindow ==
    \A r1, r2 \in Sends :
        /\ r1 # r2
        /\ acceptedAt[r1] # 0 /\ acceptedAt[r2] # 0
        /\ req[r1].nonce = req[r2].nonce
        => \/ acceptedAt[r1] + NonceTTL <= acceptedAt[r2]
           \/ acceptedAt[r2] + NonceTTL <= acceptedAt[r1]

\* A socket receives only messages of conversations its user takes part in,
\* although membership of the room is granted after an await, is not checked
\* again when a message is sent, and survives the conversation
\* (conversation.ts:27-37, message.ts:110).
OnlyParticipantsReceive ==
    \A s \in Sockets : \A r \in inbox[s] :
        UserOf[s] \in conv[req[r].conv].participants

\* What clients are told is true of the database: "ok" and message:new only
\* for a message that was stored, from a user who takes part in the
\* conversation, and a refusal only for a message that was never stored
\* (message.ts:69-73, 81-84, 110-128).
ClientsToldTheTruth ==
    \A r \in Sends :
        /\ ack[r] = "ok" \/ (\E s \in Sockets : r \in inbox[s]) =>
              /\ msg[r] # "none"
              /\ UserOf[req[r].socket] \in conv[req[r].conv].participants
        /\ ack[r] \in {"replay", "denied"} => msg[r] = "none"

\* lastMessageAt, by which conversations are listed and paged, is always the
\* creation instant or the timestamp of a message that was stored in that
\* very conversation, although it is written from a stale copy after two
\* awaits (message.ts:104-107).
LastMessageAtIsReal ==
    \A c \in Convs :
        conv[c].st # "none" =>
            \/ conv[c].lastMessageAt = conv[c].createdAt
            \/ \E r \in Sends : /\ msg[r] # "none"
                                /\ req[r].conv = c
                                /\ conv[c].lastMessageAt = stamp[r]
=============================================================================
