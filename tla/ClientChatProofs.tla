-------------------------- MODULE ClientChatProofs --------------------------
(***************************************************************************)
(* The shared socket of a tab, for every number of conversations, messages *)
(* and sockets.  Both results rest on one invariant: whose listeners the   *)
(* current socket carries, which components are armed, and what is mounted *)
(* agree.                                                                  *)
(***************************************************************************)
EXTENDS ClientChat, TLAPS

\* An armed component is mounted, and there is a session.
MountInv ==
    /\ signedIn \in BOOLEAN /\ layout \in BOOLEAN
    /\ armed \subseteq Components
    /\ armed # {} => signedIn
    /\ "layout" \in armed => layout
    /\ "window" \in armed => window # None
    /\ window # None => layout

\* Sockets that do not exist yet carry no listeners, the current one only
\* listeners of armed components; there is none without an armed component.
SocketInv ==
    /\ made \in Nat
    /\ listeners = [s \in Sockets |-> listeners[s]]
    /\ \A s \in Sockets : s > made => listeners[s] = {}
    /\ cur # None => cur \in Sockets /\ cur <= made
    /\ cur # None => \A a \in listeners[cur] : a[1] \in armed
    /\ armed = {} => cur = None
    /\ ListenersOncePerMount

ChatInv == MountInv /\ SocketInv

LEMMA ChatInit == Init => ChatInv
<1> SUFFICES ASSUME Init PROVE MountInv /\ SocketInv
  BY DEF ChatInv
<1>1. MountInv
  BY DEF Init, MountInv
<1>2. made = 0 /\ cur = None /\ armed = {} /\ listeners = [s \in Sockets |-> {}]
  BY DEF Init
<1>3. SocketInv
  BY <1>2 DEF SocketInv, ListenersOncePerMount
<1> QED
  BY <1>1, <1>3

-----------------------------------------------------------------------------
(* The effect of useSocket and its cleanup *)

\* A component that is not armed adds its listeners to a socket without any
\* of its own: the open one carries those of armed components, any other is
\* new.
LEMMA ArmKeeps ==
    ASSUME SocketInv, NEW k, k \notin armed, NEW s \in Sockets, Arm(k, s)
    PROVE  SocketInv' /\ armed' = armed \cup {k}
<1> DEFINE l == <<k, mount[k] + 1>>
<1>1. /\ (cur # None /\ s = cur) \/ s = made + 1
      /\ cur' = s
      /\ made' = IF s = cur THEN made ELSE s
      /\ listeners' = [listeners EXCEPT ![s] = @ \cup {l}]
      /\ armed' = armed \cup {k}
  BY DEF Arm, initSocket
<1>2. l[1] = k
  OBVIOUS
<1> HIDE DEF l
<1>3. s \in Nat /\ made \in Nat
  BY ChatAssumption DEF Sockets, SocketInv
<1>4. \A a \in listeners[s] : a[1] \in armed
  <2>1. CASE cur # None /\ s = cur
    BY <2>1 DEF SocketInv
  <2>2. CASE s = made + 1
    <3>1. s > made
      BY <1>3, <2>2
    <3>2. listeners[s] = {}
      BY <3>1 DEF SocketInv
    <3> QED
      BY <3>2
  <2> QED
    BY <1>1, <2>1, <2>2
<1>5. /\ listeners' = [r \in Sockets |-> listeners'[r]]
      /\ listeners'[s] = listeners[s] \cup {l}
      /\ \A r \in Sockets : r # s => listeners'[r] = listeners[r]
  BY <1>1 DEF SocketInv
<1>6. made' \in Nat /\ s <= made' /\ made <= made'
  <2>1. cur # None => cur \in Nat /\ cur <= made
    BY ChatAssumption DEF SocketInv, Sockets
  <2> QED
    BY <1>1, <1>3, <2>1, ChatAssumption
<1>7. \A r \in Sockets : r > made' => listeners'[r] = {}
  <2> SUFFICES ASSUME NEW r \in Sockets, r > made' PROVE listeners'[r] = {}
    OBVIOUS
  <2>1. r \in Nat /\ r > made /\ r # s
    BY <1>3, <1>6 DEF Sockets
  <2> QED
    BY <1>5, <2>1 DEF SocketInv
<1>8. \A a \in listeners'[s] : a[1] \in armed'
  BY <1>1, <1>2, <1>4, <1>5
<1>9. ListenersOncePerMount'
  <2> SUFFICES ASSUME NEW r \in Sockets, NEW a \in listeners'[r], NEW b \in listeners'[r], a[1] = b[1]
               PROVE  a = b
    BY DEF ListenersOncePerMount
  <2>1. CASE r # s
    BY <1>5, <2>1 DEF SocketInv, ListenersOncePerMount
  <2>2. CASE r = s
    <3>1. \A c \in listeners[s] : c[1] # k
      BY <1>4
    <3>2. a \in listeners[s] \cup {l} /\ b \in listeners[s] \cup {l}
      BY <1>5, <2>2
    <3>3. CASE a \in listeners[s] /\ b \in listeners[s]
      BY <3>3 DEF SocketInv, ListenersOncePerMount
    <3>4. CASE a = l \/ b = l
      BY <1>2, <3>1, <3>2, <3>4
    <3> QED
      BY <3>2, <3>3, <3>4
  <2> QED
    BY <2>1, <2>2
<1> QED
  BY <1>1, <1>5, <1>6, <1>7, <1>8, <1>9 DEF SocketInv

\* Components whose effects run in one commit register on new sockets only,
\* and the last of these becomes the current one.
LEMMA EffectsKeep ==
    ASSUME SocketInv, NEW ks \in SUBSET Components, Effects(ks)
    PROVE  SocketInv' /\ armed' = ks
<1> DEFINE new(s) == {<<k, mount[k] + 1>> : k \in {j \in ks : s = SocketOf(j, ks)}}
<1>1. /\ \A k \in ks : SocketOf(k, ks) \in Sockets
      /\ cur' = IF "layout" \in ks THEN SocketOf("layout", ks)
                ELSE IF "window" \in ks THEN SocketOf("window", ks) ELSE None
      /\ made' = IF ks = {} THEN made ELSE cur'
      /\ listeners' = [s \in Sockets |-> listeners[s] \cup new(s)]
      /\ armed' = ks
  BY DEF Effects
<1>2. \A s : \A a \in new(s) : a[1] \in ks /\ s = SocketOf(a[1], ks) /\ a = <<a[1], mount[a[1]] + 1>>
  OBVIOUS
<1> HIDE DEF new
<1>3. made \in Nat /\ None \notin Nat
  BY ChatAssumption DEF SocketInv
<1>4. CASE ks = {}
  <2>1. \A s : new(s) = {}
    BY <1>2, <1>4
  <2>2. listeners' = listeners /\ cur' = None /\ made' = made
    BY <1>1, <1>4, <2>1 DEF SocketInv
  <2> QED
    BY <1>1, <2>2 DEF SocketInv, ListenersOncePerMount
<1>5. CASE ks # {}
  <2>1. /\ cur' \in Sockets /\ made' = cur' /\ made' \in Nat /\ made < made'
        /\ \A k \in ks : made < SocketOf(k, ks) /\ SocketOf(k, ks) <= made'
    <3>1. made' = cur' /\ (ks = {"layout"} \/ ks = {"window"} \/ ks = {"layout", "window"})
      BY <1>1, <1>5 DEF Components
    <3>2. CASE ks = {"layout"}
      BY <1>1, <1>3, <3>1, <3>2 DEF SocketOf
    <3>3. CASE ks = {"window"}
      BY <1>1, <1>3, <3>1, <3>3 DEF SocketOf
    <3>4. CASE ks = {"layout", "window"}
      BY <1>1, <1>3, <3>1, <3>4 DEF SocketOf
    <3> QED
      BY <3>1, <3>2, <3>3, <3>4
  <2>2. \A s \in Sockets : s \in Nat
    BY ChatAssumption DEF Sockets
  <2>3. \A s \in Sockets : s <= made => listeners'[s] = listeners[s]
    <3> SUFFICES ASSUME NEW s \in Sockets, s <= made PROVE listeners'[s] = listeners[s]
      OBVIOUS
    <3>1. new(s) = {}
      BY <1>2, <1>3, <2>1, <2>2
    <3> QED
      BY <1>1, <3>1
  <2>4. \A s \in Sockets : s > made => listeners'[s] = new(s)
    BY <1>1 DEF SocketInv
  <2>5. \A s \in Sockets : s > made' => listeners'[s] = {}
    <3> SUFFICES ASSUME NEW s \in Sockets, s > made' PROVE listeners'[s] = {}
      OBVIOUS
    <3>1. new(s) = {}
      BY <1>2, <1>3, <2>1, <2>2
    <3>2. s > made
      BY <1>3, <2>1, <2>2
    <3> QED
      BY <2>4, <3>1, <3>2
  <2>6. \A a \in listeners'[cur'] : a[1] \in armed'
    <3>1. listeners'[cur'] = new(cur')
      BY <2>1, <2>2, <2>4, <1>3
    <3> QED
      BY <1>1, <1>2, <3>1
  <2>7. ListenersOncePerMount'
    <3> SUFFICES ASSUME NEW r \in Sockets, NEW a \in listeners'[r], NEW b \in listeners'[r], a[1] = b[1]
                 PROVE  a = b
      BY DEF ListenersOncePerMount
    <3>1. CASE r <= made
      BY <2>3, <3>1 DEF SocketInv, ListenersOncePerMount
    <3>2. CASE r > made
      <4>1. a = <<a[1], mount[a[1]] + 1>> /\ b = <<b[1], mount[b[1]] + 1>>
        BY <1>2, <2>4, <3>2
      <4> QED
        BY <4>1
    <3> QED
      BY <3>1, <3>2, <1>3, <2>2
  <2>8. listeners' = [s \in Sockets |-> listeners'[s]]
    BY <1>1
  <2> QED
    BY <1>1, <1>5, <2>1, <2>5, <2>6, <2>7, <2>8, <1>3 DEF SocketInv
<1> QED
  BY <1>1, <1>4, <1>5

LEMMA DisconnectKeeps ==
    ASSUME SocketInv, disconnectSocket, UNCHANGED listeners
    PROVE  SocketInv'
  BY DEF SocketInv, disconnectSocket, ListenersOncePerMount

LEMMA DisarmKeeps ==
    ASSUME SocketInv, NEW ks, Disarm(ks), UNCHANGED listeners
    PROVE  SocketInv' /\ armed' = armed \ ks
<1>1. armed' = armed \ ks
  BY DEF Disarm
<1>2. CASE armed \cap ks = {}
  <2>1. armed' = armed /\ UNCHANGED <<made, cur>>
    BY <1>2, <1>1 DEF Disarm
  <2> QED
    BY <1>1, <2>1 DEF SocketInv, ListenersOncePerMount
<1>3. CASE armed \cap ks # {}
  BY <1>1, <1>3, DisconnectKeeps DEF Disarm
<1> QED
  BY <1>2, <1>3

-----------------------------------------------------------------------------
LEMMA ChatStep == ChatInv /\ [Next]_vars => ChatInv'
<1> SUFFICES ASSUME ChatInv, [Next]_vars PROVE ChatInv'
  OBVIOUS
<1> USE ChatAssumption
<1>1. CASE SignIn
  <2>1. /\ signedIn' = TRUE /\ Effects(Mounted) /\ UNCHANGED <<layout, window>>
    BY <1>1 DEF SignIn
  <2>2. Mounted \in SUBSET Components
    BY DEF Mounted
  <2>3. SocketInv' /\ armed' = Mounted
    BY <2>1, <2>2, EffectsKeep DEF ChatInv
  <2> QED
    BY <2>1, <2>2, <2>3 DEF ChatInv, MountInv, Mounted, Components
<1>2. CASE OpenSection \/ \E c \in Convs : OpenBoth(c)
  <2>1. PICK ks \in SUBSET Components :
           /\ ~layout /\ layout' = TRUE /\ UNCHANGED signedIn
           /\ Effects(ks) /\ (ks # {} => signedIn)
           /\ "window" \in ks => window' # None
    <3>1. CASE OpenSection
      BY <3>1 DEF OpenSection, session, Components
    <3>2. CASE \E c \in Convs : OpenBoth(c)
      <4>1. PICK c \in Convs : OpenBoth(c)
        BY <3>2
      <4>2. c # None
        OBVIOUS
      <4>3. /\ ~layout /\ layout' = TRUE /\ UNCHANGED signedIn
            /\ Effects(IF signedIn THEN Components ELSE {})
            /\ window' # None
        BY <4>1, <4>2 DEF OpenBoth, ShowWindow, session
      <4> QED
        BY <4>3
    <3> QED
      BY <1>2, <3>1, <3>2
  <2>2. SocketInv' /\ armed' = ks
    BY <2>1, EffectsKeep DEF ChatInv
  <2> QED
    BY <2>1, <2>2 DEF ChatInv, MountInv
<1>3. ASSUME NEW s \in Sockets, NEW c \in Convs, OpenWindow(c, s) PROVE ChatInv'
  <2>1. /\ layout /\ window = None /\ window' = c /\ UNCHANGED <<signedIn, layout>>
        /\ \/ signedIn /\ Arm("window", s)
           \/ UNCHANGED <<sockVars, armed>>
    BY <1>3 DEF OpenWindow, ShowWindow, session
  <2>2. CASE signedIn /\ Arm("window", s)
    <3>1. "window" \notin armed
      BY <2>1 DEF ChatInv, MountInv
    <3>2. SocketInv' /\ armed' = armed \cup {"window"}
      BY <2>2, <3>1, ArmKeeps DEF ChatInv
    <3> QED
      BY <2>1, <2>2, <3>2 DEF ChatInv, MountInv, Components
  <2>3. CASE UNCHANGED <<sockVars, armed>>
    BY <2>1, <2>3 DEF ChatInv, MountInv, SocketInv, ListenersOncePerMount, sockVars
  <2> QED
    BY <2>1, <2>2, <2>3
<1>4. CASE CloseWindow
  <2>1. window' = None /\ Disarm({"window"}) /\ UNCHANGED <<signedIn, layout, listeners>>
    BY <1>4 DEF CloseWindow, session
  <2>2. SocketInv' /\ armed' = armed \ {"window"}
    BY <2>1, DisarmKeeps DEF ChatInv
  <2> QED
    BY <2>1, <2>2 DEF ChatInv, MountInv
<1>5. CASE LeaveSection
  <2>1. layout' = FALSE /\ window' = None /\ Disarm(Components) /\ UNCHANGED <<signedIn, listeners>>
    BY <1>5 DEF LeaveSection, session
  <2>2. SocketInv' /\ armed' = armed \ Components
    BY <2>1, DisarmKeeps DEF ChatInv
  <2>3. armed' = {}
    BY <2>2 DEF ChatInv, MountInv
  <2> QED
    BY <2>1, <2>2, <2>3 DEF ChatInv, MountInv
<1>6. CASE FinishLogout
  <2>1. /\ signedIn' = FALSE /\ disconnectSocket /\ armed' = {}
        /\ UNCHANGED <<layout, window, listeners>>
    BY <1>6 DEF FinishLogout
  <2>2. made' = made /\ cur' = None
    BY <2>1 DEF disconnectSocket
  <2>3. SocketInv'
    BY <2>1, <2>2 DEF ChatInv, SocketInv, ListenersOncePerMount
  <2> QED
    BY <2>1, <2>3 DEF ChatInv, MountInv
\* The session and the connection come and go.
<1>7. ASSUME UNCHANGED <<signedIn, layout, window, armed, made, cur, listeners>>
      PROVE  ChatInv'
  BY <1>7 DEF ChatInv, MountInv, SocketInv, ListenersOncePerMount
<1>8. ASSUME Settle \/ StartLogout \/ \E c \in Convs : FetchDetails(c) PROVE ChatInv'
  BY <1>7, <1>8 DEF Settle, StartLogout, FetchDetails, sockVars
<1>9. ASSUME NEW s \in Sockets, Connect(s) \/ GiveUp(s) \/ Drop(s) PROVE ChatInv'
  BY <1>7, <1>9 DEF Connect, GiveUp, Drop, uiVars, session
\* The rest is about messages.
<1>10. ASSUME UNCHANGED <<uiVars, sockVars>> PROVE ChatInv'
  BY <1>7, <1>10 DEF uiVars, sockVars, session
<1>11. ASSUME NEW s \in Sockets, Handle(s) \/ Receive(s) PROVE ChatInv'
  BY <1>10, <1>11, Zenon DEF Handle, Receive
<1>12. ASSUME NEW c \in Convs, ReadHistory(c) \/ ShowHistory(c) PROVE ChatInv'
  BY <1>10, <1>12, Zenon DEF ReadHistory, ShowHistory
<1>13. ASSUME NEW m \in Msgs, StartSend(m) \/ FinishSend(m) \/ PeerSends(m) \/ PeerReceives(m)
       PROVE  ChatInv'
  BY <1>10, <1>13, Zenon DEF StartSend, FinishSend, PeerSends, PeerReceives
<1>14. CASE UNCHANGED vars
  BY <1>10, <1>14 DEF vars
<1> QED
  BY <1>1, <1>2, <1>3, <1>4, <1>5, <1>6, <1>8, <1>9, <1>11, <1>12, <1>13, <1>14 DEF Next

\* useSocket registers its listeners on a socket that has none of the same
\* component, however often the chat section and its windows are left and
\* entered and the connection is lost (useSocket.ts:26-70).
THEOREM ListenersOnce == Spec => []ListenersOncePerMount
<1>1. ChatInv => ListenersOncePerMount
  BY DEF ChatInv, SocketInv
<1> QED
  BY <1>1, ChatInit, ChatStep, PTL DEF Spec

\* Leaving the chat section leaves no current socket behind: one exists only
\* while a component is armed, and only mounted components are
\* (useSocket.ts:67-70, lib/socket.ts:34-39).
THEOREM SocketOnlyInside == Spec => []NoSocketOutside
<1>1. ChatInv => NoSocketOutside
  BY DEF ChatInv, MountInv, SocketInv, NoSocketOutside, Components
<1> QED
  BY <1>1, ChatInit, ChatStep, PTL DEF Spec
=============================================================================
