----------------------------- MODULE ClientChat -----------------------------
(***************************************************************************)
(* One tab of the web client: the socket of lib/socket.ts, shared by the   *)
(* two components that call useSocket (app/chat/layout.tsx and             *)
(* ChatWindow), the messages of chatStore.ts, and what the server's rooms  *)
(* do with the events it sends.                                            *)
(*                                                                         *)
(* React runs the effects of a commit without interruption: all cleanups,  *)
(* then the effects, a child's before its parent's.  A commit is therefore *)
(* one step, whichever components it mounts.  Socket.IO keeps what is      *)
(* emitted before the connection is up and loses what is under way when it *)
(* drops; it stops trying after reconnectionAttempts, and at once when the *)
(* server refuses the handshake.                                           *)
(* A message is known by its id; its text, order and page are left out.    *)
(***************************************************************************)
EXTENDS Naturals, Sequences, FiniteSets

CONSTANTS
    Convs,
    Mine, Theirs,   \* messages this user, and the peer, may send
    ConvOf,         \* the conversation of a message
    None,
    MaxSockets,     \* bound on the Socket objects the tab creates
    MaxSent,        \* bound on the messages that exist at once
    MaxDrops        \* bound on lost connections

ASSUME ChatAssumption ==
    /\ MaxSockets \in Nat /\ MaxSent \in Nat /\ MaxDrops \in Nat
    /\ None \notin Convs /\ None \notin Nat

Sockets == 1 .. MaxSockets

Msgs == Mine \cup Theirs
Components == {"layout", "window"}

VARIABLES
    signedIn,    \* authStore.isAuthenticated, accessToken
    ready,       \* status of AnonymousLogin: init is over, for good
    leaving,     \* handleLogout waits for the logout route
    known,       \* conversations whose details react-query has cached
    layout,      \* the chat layout is mounted
    window,      \* conversation of the mounted ChatWindow
    armed,       \* components whose initializedRef is true
    made,        \* Socket objects created; they are numbered
    cur,         \* the module variable of lib/socket.ts
    sock,        \* state of the Socket objects
    listeners,   \* mounts that have registered listeners, per socket
    mount,       \* number of the latest mount of a component
    buf, up, dn, \* kept until connected; on its way up; on its way down
    rooms,       \* server: conversations a socket has joined
    stored, delivered,  \* server: Message documents
    sending,     \* sends between the optimistic message and the emit
    opt, copies, ticked, badge,  \* store: optimistic, real, delivered, unread
    resp, cache, \* react-query: answer under way, cached history
    gotByPeer,   \* history: messages the peer's client has received
    drops,
    calm         \* history: since its mount, the window has kept its session
                 \* and its socket

session == <<signedIn, ready, leaving, known>>
uiVars == <<session, layout, window, armed, mount>>
sockVars == <<made, cur, sock, listeners>>
netVars == <<buf, up, dn, rooms>>
serverVars == <<stored, delivered, gotByPeer>>
storeVars == <<sending, opt, copies, ticked, badge, resp, cache>>
histVars == <<drops, calm>>
vars == <<uiVars, sockVars, netVars, serverVars, storeVars, histVars>>

Init ==
    /\ signedIn = FALSE /\ ready = FALSE /\ leaving = FALSE /\ known = {}
    /\ layout = FALSE /\ window = None
    /\ armed = {} /\ mount = [k \in Components |-> 0]
    /\ made = 0 /\ cur = None
    /\ sock = [s \in Sockets |-> "unused"]
    /\ listeners = [s \in Sockets |-> {}]
    /\ buf = [s \in Sockets |-> <<>>]
    /\ up = [s \in Sockets |-> <<>>]
    /\ dn = [s \in Sockets |-> <<>>]
    /\ rooms = [s \in Sockets |-> {}]
    /\ stored = {} /\ delivered = {} /\ gotByPeer = {}
    /\ sending = {} /\ opt = {} /\ ticked = {} /\ badge = {}
    /\ copies = [m \in Msgs |-> 0]
    /\ resp = [c \in Convs |-> None]
    /\ cache = [c \in Convs |-> None]
    /\ drops = 0 /\ calm = TRUE

-----------------------------------------------------------------------------
(* lib/socket.ts and the effect of useSocket *)

\* initSocket: an open socket is shared, any other is replaced and left to
\* itself.
initSocket(s) == IF cur # None /\ sock[cur] = "open" THEN s = cur ELSE s = made + 1

\* The effect of one component: socket s with one more set of listeners.
Arm(k, s) ==
    /\ initSocket(s)
    /\ cur' = s
    /\ made' = IF s = cur THEN made ELSE s
    /\ sock' = [sock EXCEPT ![s] = IF @ = "unused" THEN "connecting" ELSE @]
    /\ listeners' = [listeners EXCEPT ![s] = @ \cup {<<k, mount[k] + 1>>}]
    /\ armed' = armed \cup {k}
    /\ mount' = [mount EXCEPT ![k] = @ + 1]

\* A commit that runs the effects of the components ks, with no socket or
\* after the cleanups of all.  No new socket is open yet, so the layout's, the
\* last, replaces the window's.
SocketOf(k, ks) == IF k = "layout" /\ "window" \in ks THEN made + 2 ELSE made + 1

Effects(ks) ==
    /\ \A k \in ks : SocketOf(k, ks) \in Sockets
    /\ cur' = IF "layout" \in ks THEN SocketOf("layout", ks)
              ELSE IF "window" \in ks THEN SocketOf("window", ks) ELSE None
    /\ made' = IF ks = {} THEN made ELSE cur'
    /\ sock' = [s \in Sockets |-> IF \E k \in ks : s = SocketOf(k, ks) THEN "connecting"
                                  ELSE IF s = cur THEN "closed" ELSE sock[s]]
    /\ listeners' = [s \in Sockets |->
           listeners[s] \cup {<<k, mount[k] + 1>> : k \in {j \in ks : s = SocketOf(j, ks)}}]
    /\ armed' = ks
    /\ mount' = [k \in Components |-> IF k \in ks THEN mount[k] + 1 ELSE mount[k]]

\* What is kept and under way on the current socket is lost, and the server
\* empties its rooms when it notices.
Emptied ==
    /\ buf' = [s \in Sockets |-> IF s = cur THEN <<>> ELSE buf[s]]
    /\ dn' = [s \in Sockets |-> IF s = cur THEN <<>> ELSE dn[s]]
    /\ rooms' = [s \in Sockets |-> IF s = cur THEN {} ELSE rooms[s]]

\* Mutant: the module variable keeps the closed socket.
DisconnectKeepsCur ==
    /\ sock' = [s \in Sockets |-> IF s = cur THEN "closed" ELSE sock[s]]
    /\ Emptied
    /\ UNCHANGED <<made, cur>>

disconnectSocket ==
    /\ cur' = None
    /\ UNCHANGED made
    /\ sock' = [s \in Sockets |-> IF s = cur THEN "closed" ELSE sock[s]]
    /\ Emptied

\* Mutant: the cleanup leaves the socket open.
DisarmOnly(ks) == armed' = armed \ ks /\ UNCHANGED <<made, cur, sock, buf, dn, rooms>>

\* The cleanup: the socket goes, even if the other component still uses it.
Disarm(ks) ==
    /\ armed' = armed \ ks
    /\ IF armed \cap ks = {} THEN UNCHANGED <<made, cur, sock, buf, dn, rooms>>
                             ELSE disconnectSocket

-----------------------------------------------------------------------------
(* The session *)

Mounted == {k \in Components : IF k = "layout" THEN layout ELSE window # None}

\* useAuthStore.setAuth with new tokens: what is mounted is cleaned up and
\* runs its effect again, which asks for no room.  init calls it again after an
\* error that came later, with components mounted (AnonymousLogin.tsx:62, 103).
SignIn ==
    /\ ~ready
    /\ signedIn' = TRUE
    /\ Effects(Mounted) /\ Emptied
    /\ calm' = FALSE
    /\ UNCHANGED <<ready, leaving, known, layout, window, up, serverVars, storeVars, drops>>

\* The rest of init succeeds.
Settle ==
    /\ signedIn /\ ~ready
    /\ ready' = TRUE
    /\ UNCHANGED <<signedIn, leaving, known, layout, window, armed, mount, sockVars, netVars,
                   serverVars, storeVars, histVars>>

\* handleLogout of the settings page, which is outside the chat section, ...
StartLogout ==
    /\ signedIn /\ ~layout
    /\ leaving' = TRUE
    /\ UNCHANGED <<signedIn, ready, known, layout, window, armed, mount, sockVars, netVars,
                   serverVars, storeVars, histVars>>

\* ... and its finally block: the user may be back in the section.  Components
\* that are armed clean up as well.
FinishLogout ==
    /\ leaving
    /\ leaving' = FALSE /\ signedIn' = FALSE
    /\ disconnectSocket
    /\ armed' = {}
    /\ calm' = FALSE
    /\ UNCHANGED <<ready, known, layout, window, mount, listeners, up, serverVars, storeVars, drops>>

-----------------------------------------------------------------------------
(* Navigation *)

\* The store.  setMessages: it shows exactly the history h.
setMessages(c, h) ==
    /\ copies' = [m \in Msgs |-> IF ConvOf[m] # c THEN copies[m]
                                 ELSE IF m \in h.msgs THEN 1 ELSE 0]
    /\ opt' = {m \in opt : ConvOf[m] # c}
    /\ ticked' = {m \in ticked : ConvOf[m] # c} \cup h.delivered

\* n sets of listeners each add a copy, count it and mark it.
addMessage(m, n) == copies' = [copies EXCEPT ![m] = @ + n]
incrementUnread(c, n) == badge' = IF n > 0 THEN badge \cup {c} ELSE badge
markRead(c) == badge' = badge \ {c}
updateMessageStatus(m, n) == ticked' = IF n > 0 /\ copies[m] > 0 THEN ticked \cup {m} ELSE ticked

\* emit: at once on an open socket, kept by any other.
Emit(s, e) ==
    IF sock[s] = "open" THEN up' = [up EXCEPT ![s] = Append(@, e)] /\ UNCHANGED buf
                        ELSE buf' = [buf EXCEPT ![s] = Append(@, e)] /\ UNCHANGED up

\* Mutant: a room is only asked for on an open socket.
JoinIfOpen(c, s) ==
    /\ up' = IF sock[s] = "open" THEN [up EXCEPT ![s] = Append(@, <<"join", c>>)] ELSE up
    /\ UNCHANGED buf

joinConversation(c, s) == Emit(s, <<"join", c>>)

\* The window shows what is cached and is read.
ShowWindow(c) ==
    /\ window' = c
    /\ IF cache[c] # None THEN setMessages(c, cache[c]) ELSE UNCHANGED <<copies, opt, ticked>>
    /\ markRead(c)
    /\ calm' = signedIn

\* GET /api/conversations/:id has answered ConversationPage.
FetchDetails(c) ==
    /\ layout /\ signedIn
    /\ known' = known \cup {c}
    /\ UNCHANGED <<signedIn, ready, leaving, layout, window, armed, mount, sockVars, netVars,
                   serverVars, storeVars, histVars>>

\* /chat without a conversation, or one whose details are not known.
OpenSection ==
    /\ ~layout
    /\ layout' = TRUE
    /\ Effects(IF signedIn THEN {"layout"} ELSE {})
    /\ UNCHANGED <<session, window, netVars, serverVars, storeVars, histVars>>

\* Back to a conversation whose details are cached: layout and window mount in
\* one commit.  The window asks for the room on its own socket, which the
\* layout's then replaces.
OpenBoth(c) ==
    /\ ~layout /\ c \in known
    /\ layout' = TRUE
    /\ Effects(IF signedIn THEN Components ELSE {})
    /\ IF signedIn THEN joinConversation(c, SocketOf("window", Components))
                   ELSE UNCHANGED <<buf, up>>
    /\ ShowWindow(c)
    /\ UNCHANGED <<session, dn, rooms, serverVars, sending, resp, cache, drops>>

\* ChatWindow mounts below a mounted layout.  Without a session there is no
\* socket: getSocket throws and nothing is asked for.
OpenWindow(c, s) ==
    /\ layout /\ window = None /\ c \in known
    /\ \/ signedIn /\ Arm("window", s) /\ joinConversation(c, s)
       \/ ~signedIn /\ UNCHANGED <<sockVars, armed, mount, buf, up>>
    /\ ShowWindow(c)
    /\ UNCHANGED <<session, layout, dn, rooms, serverVars, sending, resp, cache, drops>>

CloseWindow ==
    /\ window # None
    /\ window' = None
    /\ Disarm({"window"})
    /\ UNCHANGED <<session, layout, mount, listeners, up, serverVars, storeVars, histVars>>

LeaveSection ==
    /\ layout
    /\ layout' = FALSE /\ window' = None
    /\ Disarm(Components)
    /\ UNCHANGED <<session, mount, listeners, up, serverVars, storeVars, histVars>>

-----------------------------------------------------------------------------
(* Messages *)

\* Messages the tab has emitted and the server has not handled.
Emitted == {m \in Mine : \E s \in Sockets : \E q \in {buf[s], up[s]} :
                            \E i \in 1 .. Len(q) : q[i] = <<"send", m>>}

Within(m) == Cardinality(stored \cup sending \cup Emitted \cup {m}) <= MaxSent

\* handleSend: the optimistic message, then the await of the encryption.
StartSend(m) ==
    /\ signedIn /\ window = ConvOf[m]
    /\ m \in Mine \ (stored \cup sending \cup opt \cup Emitted)
    /\ Within(m)
    /\ sending' = sending \cup {m}
    /\ opt' = opt \cup {m}
    /\ UNCHANGED <<uiVars, sockVars, netVars, serverVars, copies, ticked, badge, resp, cache, histVars>>

\* sendEncryptedMessage: if a key cannot be had, the encryption fails or
\* getSocket throws, the send ends without a trace.
FinishSend(m) ==
    /\ m \in sending
    /\ sending' = sending \ {m}
    /\ \/ cur # None /\ Emit(cur, <<"send", m>>)
       \/ UNCHANGED <<buf, up>>
    /\ UNCHANGED <<uiVars, sockVars, dn, rooms, serverVars, opt, copies, ticked, badge, resp, cache, histVars>>

\* The history route answers, and the answer arrives; a window that was left
\* meanwhile finds it in the cache.  What is cached is taken to be fresh
\* (staleTime): it is not asked for again.
ReadHistory(c) ==
    /\ signedIn /\ window = c /\ resp[c] = None /\ cache[c] = None
    /\ resp' = [resp EXCEPT ![c] = [msgs |-> {m \in stored : ConvOf[m] = c},
                                    delivered |-> {m \in delivered : ConvOf[m] = c}]]
    /\ UNCHANGED <<uiVars, sockVars, netVars, serverVars, sending, opt, copies, ticked, badge, cache, histVars>>

ShowHistory(c) ==
    /\ resp[c] # None
    /\ cache' = [cache EXCEPT ![c] = resp[c]]
    /\ resp' = [resp EXCEPT ![c] = None]
    /\ IF window = c THEN setMessages(c, resp[c]) ELSE UNCHANGED <<copies, opt, ticked>>
    /\ UNCHANGED <<uiVars, sockVars, netVars, serverVars, sending, badge, histVars>>

\* The listeners: each registered set adds the message, counts it as unread
\* and acknowledges it, whoever sent it.
Receive(s) ==
    LET e == Head(dn[s])
        m == e[2]
        n == Cardinality(listeners[s])
    IN  /\ sock[s] = "open" /\ dn[s] # <<>>
        /\ dn' = [dn EXCEPT ![s] = Tail(@)]
        /\ \/ /\ e[1] = "new"
              /\ addMessage(m, n)
              /\ incrementUnread(ConvOf[m], n)
              /\ up' = [up EXCEPT ![s] = @ \o [i \in 1..n |-> <<"delivered", m>>]]
              /\ UNCHANGED ticked
           \/ /\ e[1] = "status"
              /\ updateMessageStatus(m, n)
              /\ UNCHANGED <<copies, badge, up>>
        /\ UNCHANGED <<uiVars, sockVars, buf, rooms, serverVars, sending, opt, resp, cache, histVars>>

-----------------------------------------------------------------------------
(* Connection and server *)

\* Connected, for the first time or again: what was kept is sent.
Connect(s) ==
    /\ sock[s] \in {"connecting", "down"}
    /\ sock' = [sock EXCEPT ![s] = "open"]
    /\ up' = [up EXCEPT ![s] = buf[s]]
    /\ buf' = [buf EXCEPT ![s] = <<>>]
    /\ UNCHANGED <<uiVars, made, cur, listeners, dn, rooms, serverVars, storeVars, histVars>>

\* The listeners of the mounted window are on s.
ServesWindow(s) == <<"window", mount["window"]>> \in listeners[s]

\* No further attempt: there were five, or the server refused the handshake
\* because the token is expired or blacklisted.
GiveUp(s) ==
    /\ sock[s] \in {"connecting", "down"}
    /\ sock' = [sock EXCEPT ![s] = "failed"]
    /\ calm' = (calm /\ ~ServesWindow(s))
    /\ UNCHANGED <<uiVars, made, cur, listeners, netVars, serverVars, storeVars, drops>>

\* The connection is lost: the server forgets the rooms of the socket.
Drop(s) ==
    /\ sock[s] = "open" /\ drops < MaxDrops
    /\ drops' = drops + 1
    /\ calm' = (calm /\ ~ServesWindow(s))
    /\ sock' = [sock EXCEPT ![s] = "down"]
    /\ up' = [up EXCEPT ![s] = <<>>]
    /\ dn' = [dn EXCEPT ![s] = <<>>]
    /\ rooms' = [rooms EXCEPT ![s] = {}]
    /\ UNCHANGED <<uiVars, made, cur, listeners, buf, serverVars, storeVars>>

\* io.to(room).emit: to every open socket in the room, the sender's too.
Broadcast(kind, m) ==
    [s \in Sockets |-> IF sock[s] = "open" /\ ConvOf[m] \in rooms[s]
                       THEN Append(dn[s], <<kind, m>>) ELSE dn[s]]

\* The server handles the next event of a socket.
Handle(s) ==
    LET e == Head(up[s])
    IN  /\ up[s] # <<>>
        /\ up' = [up EXCEPT ![s] = Tail(@)]
        /\ \/ /\ e[1] = "join"
              /\ rooms' = [rooms EXCEPT ![s] = IF sock[s] = "open" THEN @ \cup {e[2]} ELSE @]
              /\ UNCHANGED <<dn, stored, delivered>>
           \/ /\ e[1] = "send"
              /\ stored' = stored \cup {e[2]}
              /\ dn' = Broadcast("new", e[2])
              /\ UNCHANGED <<rooms, delivered>>
           \/ /\ e[1] = "delivered"
              /\ delivered' = delivered \cup {e[2]}
              /\ dn' = Broadcast("status", e[2])
              /\ UNCHANGED <<rooms, stored>>
        /\ UNCHANGED <<uiVars, sockVars, buf, gotByPeer, storeVars, histVars>>

\* The peer's client, in the room of the conversation.
PeerSends(m) ==
    /\ m \in Theirs \ stored
    /\ Within(m)
    /\ stored' = stored \cup {m}
    /\ dn' = Broadcast("new", m)
    /\ UNCHANGED <<uiVars, sockVars, buf, up, rooms, delivered, gotByPeer, storeVars, histVars>>

PeerReceives(m) ==
    /\ m \in (Mine \cap stored) \ gotByPeer
    /\ gotByPeer' = gotByPeer \cup {m}
    /\ delivered' = delivered \cup {m}
    /\ dn' = Broadcast("status", m)
    /\ UNCHANGED <<uiVars, sockVars, buf, up, rooms, stored, storeVars, histVars>>

Next ==
    \/ SignIn \/ OpenSection \/ \E c \in Convs : OpenBoth(c)
    \/ Settle \/ StartLogout \/ FinishLogout \/ CloseWindow \/ LeaveSection
    \/ \E s \in Sockets :
          \/ Connect(s) \/ GiveUp(s) \/ Drop(s) \/ Handle(s) \/ Receive(s)
          \/ \E c \in Convs : OpenWindow(c, s)
    \/ \E c \in Convs : FetchDetails(c) \/ ReadHistory(c) \/ ShowHistory(c)
    \/ \E m \in Msgs : StartSend(m) \/ FinishSend(m) \/ PeerSends(m) \/ PeerReceives(m)

Spec == Init /\ [][Next]_vars

\* A socket that connects gets an answer or gives up; the server handles what
\* it receives.
FairSpec ==
    Spec /\ \A s \in Sockets : WF_vars(Connect(s) \/ GiveUp(s)) /\ WF_vars(Handle(s))

-----------------------------------------------------------------------------
(* Properties *)

\* No socket carries the listeners of two mounts of one component, although
\* useSocket never removes a listener and its cleanup closes only the current
\* socket (useSocket.ts:26-70).
ListenersOncePerMount ==
    \A s \in Sockets : \A a, b \in listeners[s] : a[1] = b[1] => a = b

\* Outside the chat section the tab has no current socket, whichever
\* component armed it and however the connection went (useSocket.ts:67-70,
\* lib/socket.ts:34-39).  A socket that was replaced while it was connecting is
\* not current any more and may still open.
NoSocketOutside == ~layout => cur = None /\ armed = {}

\* A conversation that stays open gets its room, on a socket with the
\* listeners of its window, although that socket may be connecting, shared, or
\* already replaced by the layout's (ChatWindow.tsx:84-87, useSocket.ts:81-87,
\* lib/socket.ts:18).  The room is asked for once: a connection that drops or
\* never comes up, new tokens and a logout end the claim.
WindowReceives ==
    \A c \in Convs :
        window = c ~> \/ window # c
                      \/ ~calm
                      \/ \E s \in Sockets : /\ sock[s] = "open" /\ c \in rooms[s]
                                             /\ ServesWindow(s)

\* docs/message-lifecycle.md:100: a message is marked as delivered when the
\* peer has received it.
DeliveredMeansReceived == \A m \in Mine : m \in delivered => m \in gotByPeer
=============================================================================
