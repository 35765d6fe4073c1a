------------------------------ MODULE Presence ------------------------------
(***************************************************************************)
(* socket/handlers/presence.ts with the connection handler of              *)
(* socket/index.ts.  A process has one Redis connection: commands run and  *)
(* are answered in the order they were issued, and the code after an await *)
(* runs when the answer comes.  No rejection is caught, so a failing       *)
(* command ends the process.                                               *)
(***************************************************************************)
EXTENDS Clock, Sequences

CONSTANTS
    Sockets,      \* connections; a connection is used once
    SocketUser,   \* socket.userId
    PresenceTTL, TypingTTL,
    MaxBeats,     \* bound on heartbeats and typing events
    MaxCrashes

VARIABLES
    conn,         \* "new", "up", "down"
    cmds,         \* commands under way, oldest first
    presence,     \* user -> instant at which presence:<user> ends, 0 = absent
    typing,       \* the same for typing:<conversation>:<user>
    word,         \* user -> last user:presence that was broadcast
    shown,        \* users the room was last told to be typing
    beats, crashes

presenceVars == <<conn, cmds, presence, typing, word, shown, beats, crashes>>

PresenceUsers == {SocketUser[s] : s \in Sockets}

PresenceInit ==
    /\ conn = [s \in Sockets |-> "new"]
    /\ cmds = <<>>
    /\ presence = [u \in PresenceUsers |-> 0]
    /\ typing = [u \in PresenceUsers |-> 0]
    /\ word = [u \in PresenceUsers |-> "nothing"]
    /\ shown = {}
    /\ beats = 0 /\ crashes = 0

Issue(c, u) == cmds' = Append(cmds, <<c, u>>)

\* A connection is accepted: markOnline runs up to its await.
PresenceConnect(s) ==
    /\ conn[s] = "new"
    /\ conn' = [conn EXCEPT ![s] = "up"]
    /\ Issue("online", SocketUser[s])
    /\ UNCHANGED <<now, presence, typing, word, shown, beats, crashes>>

Received(s) == conn[s] = "up" /\ beats < MaxBeats /\ beats' = beats + 1

\* user:online.
Heartbeat(s) ==
    /\ Received(s)
    /\ Issue("beat", SocketUser[s])
    /\ UNCHANGED <<now, conn, presence, typing, word, shown, crashes>>

\* typing:start and typing:stop tell the room at once.
TypingStart(s) ==
    /\ Received(s)
    /\ Issue("type", SocketUser[s])
    /\ shown' = shown \cup {SocketUser[s]}
    /\ UNCHANGED <<now, conn, presence, typing, word, crashes>>

TypingStop(s) ==
    /\ Received(s)
    /\ Issue("untype", SocketUser[s])
    /\ shown' = shown \ {SocketUser[s]}
    /\ UNCHANGED <<now, conn, presence, typing, word, crashes>>

\* Mutant: a user whose key is not there is taken to be offline already.
DisconnectIfKnown(s) ==
    /\ conn[s] = "up"
    /\ conn' = [conn EXCEPT ![s] = "down"]
    /\ IF presence[SocketUser[s]] = 0 THEN UNCHANGED cmds ELSE Issue("offline", SocketUser[s])
    /\ UNCHANGED <<now, presence, typing, word, shown, beats, crashes>>

\* disconnect, up to the await; the user may have other sockets.
PresenceDisconnect(s) ==
    /\ conn[s] = "up"
    /\ conn' = [conn EXCEPT ![s] = "down"]
    /\ Issue("offline", SocketUser[s])
    /\ UNCHANGED <<now, presence, typing, word, shown, beats, crashes>>

\* Redis runs the oldest command and answers it.
Answer ==
    LET c == Head(cmds)[1]
        u == Head(cmds)[2]
    IN  /\ cmds # <<>>
        /\ cmds' = Tail(cmds)
        /\ presence' = [presence EXCEPT ![u] =
                          CASE c \in {"online", "beat"} -> now + PresenceTTL
                            [] c = "offline" -> 0
                            [] OTHER -> @]
        /\ typing' = [typing EXCEPT ![u] =
                        CASE c = "type" -> now + TypingTTL
                          [] c = "untype" -> 0
                          [] OTHER -> @]
        /\ word' = [word EXCEPT ![u] = IF c \in {"online", "offline"} THEN c ELSE @]
        /\ UNCHANGED <<now, conn, shown, beats, crashes>>

\* A command is rejected: an unhandled rejection ends the process, which
\* starts again without its connections.
RedisFails ==
    /\ cmds # <<>> /\ crashes < MaxCrashes
    /\ crashes' = crashes + 1
    /\ cmds' = <<>>
    /\ conn' = [s \in Sockets |-> IF conn[s] = "up" THEN "down" ELSE conn[s]]
    /\ UNCHANGED <<now, presence, typing, word, shown, beats>>

Unexpired(f) == [u \in PresenceUsers |-> IF f[u] <= now THEN 0 ELSE f[u]]

ExpireKeys ==
    /\ presence' = Unexpired(presence)
    /\ typing' = Unexpired(typing)
    /\ UNCHANGED <<now, conn, cmds, word, shown, beats, crashes>>

PresenceNext ==
    \/ \E s \in Sockets :
          \/ PresenceConnect(s) \/ PresenceDisconnect(s)
          \/ Heartbeat(s) \/ TypingStart(s) \/ TypingStop(s)
    \/ Answer \/ RedisFails \/ ExpireKeys
    \/ Tick /\ UNCHANGED presenceVars

-----------------------------------------------------------------------------
(* Properties *)

\* When the last connection of a user is gone and Redis has answered, the
\* user is offline: the key is gone and the last broadcast says so, whatever
\* connections and heartbeats crossed; only a process that died owes the
\* broadcast (presence.ts:20-32, 68-75).
OfflineInTheEnd ==
    \A u \in PresenceUsers :
        /\ cmds = <<>> /\ crashes = 0
        /\ \A s \in Sockets : SocketUser[s] = u => conn[s] # "up"
        => presence[u] = 0 /\ word[u] # "online"
=============================================================================
