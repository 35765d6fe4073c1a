------------------------------- MODULE Device -------------------------------
(***************************************************************************)
(* One radio device: main.cpp's loop, the state machine, the screens, the  *)
(* message store and the identity kept in EEPROM.  An iteration of loop()  *)
(* handles at most one key press, then runs fsm::tick, then may draw; the  *)
(* power may fail at any point, also between two EEPROM writes.            *)
(*                                                                         *)
(* Which packets reach the state machine is the subject of module Mesh:    *)
(* here an iteration finds any packet in the radio, or none.  Digits of a  *)
(* PIN, characters of a draft and the highlighted line of a menu are left  *)
(* out: a press that only changes those has no effect.  STATE_PIN_ENTRY,   *)
(* STATE_SENDING, STATE_RECEIVING and STATE_TEST are never entered.        *)
(* The retries of a message are set to 0 and never changed, so it never    *)
(* becomes MSTATE_FAILED.  A draft and the peer of a conversation are      *)
(* forgotten with their screen: compose_begin and handle_inbox set them    *)
(* anew before anything reads them.                                        *)
(* The clock does not wrap: a run of the device is shorter than the 2^32   *)
(* milliseconds (49 days) after which the plain comparisons of             *)
(* message_store.cpp:28 and :165 would take a new message for the oldest,  *)
(* and one that is due shortly after the wrap for expired.                 *)
(***************************************************************************)
EXTENDS Integers, Sequences, FiniteSets

CONSTANTS
    Peers,      \* ids of other devices
    All,        \* BROADCAST_ID
    None,       \* nothing: no packet, an empty slot
    Texts,      \* texts the peers send
    PeerOf,     \* PeerOf[t]: who sends text t
    Burns,      \* values of FLAG_BURN
    MaxMsgs,    \* MAX_MESSAGES
    MaxPeers,   \* MAX_PEERS
    MsgTTL,     \* MSG_EXPIRE_MS
    MaxGen,     \* bound on provisionings
    MaxOut,     \* bound on the texts composed after a start
    MaxTime,    \* bound on the clock, which does not wrap: see above
    MaxLosses   \* bound on power failures

ASSUME DeviceAssumption ==
    /\ PeerOf \in [Texts -> Peers] /\ All \notin Peers
    /\ Burns \subseteq BOOLEAN
    /\ MaxMsgs \in Nat \ {0} /\ MaxPeers \in Nat /\ MsgTTL \in Nat
    /\ MaxGen \in Nat /\ MaxOut \in Nat /\ MaxTime \in Nat /\ MaxLosses \in Nat

VARIABLES
    now,        \* millis()
    losses,     \* power failures so far
    gen,        \* provisionings so far: each has its id, key and PIN
    ee,         \* EEPROM
    todo,       \* EEPROM writes of the call that is running: <<field, value>>
    phase,      \* "input", "write" or "tick": what loop() does next
    radioOk,    \* radio::init succeeded
    state,      \* s_state
    fsmKey,     \* s_net_key of state_machine.cpp, 0 = zeroed
    idKey,      \* s_net_key of device_identity.cpp, 0 = not loaded
    screen,     \* s_screen
    peerList,   \* s_peer_list: drawn last, then entries drawn before
    anyPeer,    \* s_peer_count > 0
    convPeer,   \* s_conv_peer
    draft,      \* s_compose_dest, and whether s_compose_buf has text
    msgs,       \* s_msgs
    counter,    \* s_msg_counter
    sent        \* history: number of texts transmitted

procVars == <<now, losses>>
idVars == <<gen, ee, todo, idKey>>
uiVars == <<peerList, anyPeer, convPeer, draft>>
storeVars == <<msgs, counter, sent>>
vars == <<procVars, idVars, phase, radioOk, state, fsmKey, screen, uiVars,
          storeVars>>

-----------------------------------------------------------------------------
Slots == 1 .. MaxMsgs
Gens == 1 .. gen

\* 0: erased; -1: the power failed while it was written.
Field == {-1, 0} \cup Nat
Fields == {"magic", "id", "key", "pin"}
EEPROM == [Fields -> Field]

\* An id is drawn at random for each packet, or taken from s_msg_counter for
\* a stored outgoing message; the two are taken to be distinct.
RandomId(n) == <<"random", n>>
CounterId(n) == <<"counter", n>>

\* sentAs: under which random id it was transmitted, 0 = not yet (history).
Message == [in : BOOLEAN, id : Texts \cup ({"counter"} \X Nat),
            peer : Peers \cup {All}, at : Nat, exp : Nat, read : BOOLEAN,
            burn : BOOLEAN, sentAs : Nat,
            st : {"queued", "sending", "sent", "delivered", "expired"}]

ASSUME NoneAssumption == None \notin Message

Screens == {"splash", "setup_welcome", "setup_pin", "device_info", "inbox",
            "conversation", "compose", "sending", "settings", "network",
            "wipe_confirm", "test", "error"}

TypeOK ==
    /\ now \in Nat /\ losses \in Nat /\ gen \in Nat
    /\ ee \in EEPROM
    /\ todo \in Seq(Fields \X Nat)
    /\ phase \in {"input", "write", "tick"}
    /\ phase # "write" => todo = <<>>
    /\ radioOk \in BOOLEAN
    /\ state \in {"boot", "setup", "idle", "error"}
    /\ fsmKey \in Nat \cup {-1} /\ idKey \in Nat \cup {-1}
    /\ screen \in Screens
    /\ peerList \in Seq(Peers) /\ anyPeer \in BOOLEAN
    /\ convPeer \in Peers \cup {None}
    /\ draft \in [to : Peers \cup {All, None}, text : BOOLEAN]
    /\ msgs \in [Slots -> Message \cup {None}]
    /\ counter \in Nat /\ sent \in Nat

NoDraft == [to |-> None, text |-> FALSE]

\* setup(): the state of RAM after a start.
Boot(ok) ==
    /\ radioOk' = ok
    /\ state' = IF ok THEN "boot" ELSE "error"
    /\ screen' = IF ok THEN "splash" ELSE "error"
    /\ phase' = "input" /\ todo' = <<>>
    /\ fsmKey' = 0 /\ idKey' = 0
    /\ peerList' = <<>> /\ anyPeer' = FALSE /\ convPeer' = None /\ draft' = NoDraft
    /\ msgs' = [i \in Slots |-> None] /\ counter' = 0

\* A new device is switched on.
Init ==
    /\ now = 0 /\ losses = 0 /\ gen = 0
    /\ ee = [f \in Fields |-> 0]
    /\ radioOk \in BOOLEAN
    /\ state = IF radioOk THEN "boot" ELSE "error"
    /\ screen = IF radioOk THEN "splash" ELSE "error"
    /\ phase = "input" /\ todo = <<>>
    /\ fsmKey = 0 /\ idKey = 0
    /\ peerList = <<>> /\ anyPeer = FALSE /\ convPeer = None /\ draft = NoDraft
    /\ msgs = [i \in Slots |-> None] /\ counter = 0
    /\ sent = 0

-----------------------------------------------------------------------------
(* The message store, as functions of its contents ms *)

Expired(m) == m.st = "expired"
First(S) == CHOOSE i \in S : \A j \in S : i <= j

\* s_count is the number of slots in use; they are used in order.
Free(ms) == {i \in Slots : ms[i] = None}
Dead(ms) == {i \in Slots : Expired(ms[i])}
Oldest(ms) == {i \in Slots : \A j \in Slots : ms[i].at <= ms[j].at}

\* Mutant: the slots of expired messages are not looked for.
FindSlotAlive(ms) == IF Free(ms) # {} THEN First(Free(ms)) ELSE First(Oldest(ms))

\* find_slot: a free one, an expired one, or the oldest.
FindSlot(ms) ==
    IF Free(ms) # {} THEN First(Free(ms))
    ELSE IF Dead(ms) # {} THEN First(Dead(ms))
    ELSE First(Oldest(ms))

Used(ms) == Slots \ Free(ms)

\* msg_store::add_incoming
AddIncoming(ms, p) ==
    IF \E i \in Used(ms) : ms[i].in /\ ms[i].id = p.id
    THEN ms
    ELSE [ms EXCEPT ![FindSlot(ms)] =
            [in |-> TRUE, id |-> p.id, peer |-> PeerOf[p.id], at |-> now,
             exp |-> now + MsgTTL, read |-> FALSE, burn |-> p.burn,
             sentAs |-> 0, st |-> "delivered"]]

\* msg_store::queue_outgoing
QueueOutgoing(ms, to) ==
    [ms EXCEPT ![FindSlot(ms)] =
        [in |-> FALSE, id |-> CounterId(counter + 1), peer |-> to, at |-> now,
         exp |-> now + MsgTTL, read |-> TRUE, burn |-> FALSE,
         sentAs |-> 0, st |-> "queued"]]

\* Mutant: a message in the queue does not expire.
AgedUnlessQueued(m) ==
    IF m = None \/ Expired(m) THEN m
    ELSE IF ~m.in /\ m.st = "queued" THEN [m EXCEPT !.st = "sending"]
    ELSE IF now > m.exp \/ (m.burn /\ m.read /\ m.in) THEN [m EXCEPT !.st = "expired"]
    ELSE m

\* msg_store::tick, for one message.
Aged(m) ==
    IF m = None \/ Expired(m) THEN m
    ELSE IF now > m.exp \/ (m.burn /\ m.read /\ m.in) THEN [m EXCEPT !.st = "expired"]
    ELSE IF ~m.in /\ m.st = "queued" THEN [m EXCEPT !.st = "sending"]
    ELSE m

\* msg_store::next_pending
Sending(ms) == {i \in Used(ms) : ~ms[i].in /\ ms[i].st = "sending"}

\* send_text_message for slot i, the n-th transmission if it succeeds.
Transmit(ms, i, ok, n) ==
    [ms EXCEPT ![i].st = IF ok THEN "sent" ELSE "queued",
               ![i].sentAs = IF ok THEN n ELSE @]

\* get_conversation
InConversation(m, p) == m # None /\ ~Expired(m) /\ m.peer = p

\* Mutant: BROADCAST_ID is listed as a peer.
LeadsAny(ms, i) ==
    /\ ms[i] # None
    /\ InConversation(ms[i], ms[i].peer)
    /\ \A j \in 1 .. (i - 1) : ~InConversation(ms[j], ms[i].peer)

\* get_peers: of each peer the first slot, in order.
Leads(ms, i) ==
    /\ ms[i] # None /\ ms[i].peer # All
    /\ InConversation(ms[i], ms[i].peer)
    /\ \A j \in 1 .. (i - 1) : ~InConversation(ms[j], ms[i].peer)

\* The k-th of the slots S.
Nth(S, k) == CHOOSE i \in S : Cardinality({j \in S : j <= i}) = k

PeerSeq(ms) ==
    LET slots == {i \in Slots : Leads(ms, i)}
        n == Cardinality(slots)
    IN  [k \in 1 .. (IF n < MaxPeers THEN n ELSE MaxPeers) |-> ms[Nth(slots, k)].peer]

\* draw_inbox: the new entries overwrite the first ones of the list.
Redrawn(ms) ==
    PeerSeq(ms) \o SubSeq(peerList, Len(PeerSeq(ms)) + 1, Len(peerList))

-----------------------------------------------------------------------------
(* loop(), first part: one event of the buttons *)

Forget == convPeer' = None /\ draft' = NoDraft
Pressed == phase = "input" /\ phase' = "tick"

\* No event, or one that changes only what the model leaves out.
Skip ==
    /\ Pressed
    /\ UNCHANGED <<procVars, idVars, radioOk, state, fsmKey, screen, uiVars,
                   storeVars>>

\* Where a press leads when it does nothing else.
Exits ==
    [s \in Screens |->
        CASE s = "setup_welcome" -> {"setup_pin"}
          [] s = "device_info" -> {"inbox"}
          [] s = "inbox" -> {"settings", "network"}
          [] s = "conversation" -> {"inbox"}
          [] s = "compose" -> {"inbox"}
          [] s = "settings" -> {"network", "test", "wipe_confirm", "inbox"}
          [] s = "network" -> {"inbox"}
          [] s = "wipe_confirm" -> {"settings"}
          [] s = "test" -> {"settings"}
          [] s = "error" -> {"inbox"}
          [] OTHER -> {}]

Move ==
    /\ Pressed
    /\ screen' \in Exits[screen]
    /\ Forget
    /\ UNCHANGED <<procVars, idVars, radioOk, state, fsmKey, peerList, anyPeer,
                   storeVars>>

\* handle_inbox, OK: the selected entry may be one no longer shown.
OpenConversation ==
    /\ Pressed
    /\ screen = "inbox" /\ anyPeer
    /\ \E k \in 1 .. Len(peerList) :
        /\ convPeer' = peerList[k]
        /\ msgs' = [i \in Slots |->
                      IF InConversation(msgs[i], peerList[k])
                      THEN [msgs[i] EXCEPT !.read = TRUE] ELSE msgs[i]]
    /\ screen' = "conversation"
    /\ UNCHANGED <<procVars, idVars, radioOk, state, fsmKey, peerList, anyPeer,
                   draft, counter, sent>>

\* compose_begin, from handle_inbox or handle_conversation.
Compose ==
    /\ Pressed
    /\ \/ screen = "inbox" /\ draft' = [NoDraft EXCEPT !.to = All]
       \/ screen = "conversation" /\ draft' = [NoDraft EXCEPT !.to = convPeer]
    /\ screen' = "compose" /\ convPeer' = None
    /\ UNCHANGED <<procVars, idVars, radioOk, state, fsmKey, peerList, anyPeer,
                   storeVars>>

\* handle_compose: a character is added, or the last one deleted.
Edit ==
    /\ Pressed
    /\ screen = "compose"
    /\ \/ draft' = [draft EXCEPT !.text = TRUE]
       \/ draft.text /\ draft' = [draft EXCEPT !.text = FALSE]
    /\ UNCHANGED <<procVars, idVars, radioOk, state, fsmKey, screen, peerList,
                   anyPeer, convPeer, storeVars>>

\* Only while the clock can still see the message expire.
SendDraft ==
    /\ Pressed
    /\ screen = "compose" /\ draft.text
    /\ counter < MaxOut /\ now + MsgTTL < MaxTime
    /\ screen' = "sending"
    /\ UNCHANGED <<procVars, idVars, radioOk, state, fsmKey, uiVars, storeVars>>

\* Mutant: the magic number is written first.
MagicFirst(g) == <<<<"magic", 1>>, <<"id", g>>, <<"key", g>>, <<"pin", g>>>>
\* identity::provision: the magic number is written last.
ProvisionWrites(g) == <<<<"id", g>>, <<"key", g>>, <<"pin", g>>, <<"magic", 1>>>>

Provision ==
    /\ phase = "input" /\ phase' = "write"
    /\ screen = "setup_pin" /\ gen < MaxGen
    /\ gen' = gen + 1 /\ idKey' = gen'
    /\ todo' = ProvisionWrites(gen')
    /\ screen' = "device_info"
    /\ UNCHANGED <<procVars, ee, radioOk, state, fsmKey, uiVars, storeVars>>

\* storage::erase_all goes through the addresses in order.
Erasures == <<<<"magic", 0>>, <<"id", 0>>, <<"key", 0>>, <<"pin", 0>>>>
\* Mutants: the messages survive the wipe; the wipe ends in the inbox.
KeepStore == UNCHANGED msgs
WipeToInbox == state' = "setup" /\ screen' = "inbox"
ClearStore == msgs' = [i \in Slots |-> None]
WipeEnds == state' = "setup" /\ screen' = "setup_welcome"

\* fsm::panic_wipe
Panic ==
    /\ phase = "input" /\ phase' = "write"
    /\ ClearStore
    /\ fsmKey' = 0 /\ idKey' = 0
    /\ todo' = Erasures
    /\ WipeEnds /\ Forget
    /\ UNCHANGED <<procVars, gen, ee, radioOk, peerList, anyPeer, counter, sent>>

\* The next field reaches the EEPROM.
WriteStep ==
    /\ phase = "write"
    /\ ee' = [ee EXCEPT ![Head(todo)[1]] = Head(todo)[2]]
    /\ todo' = Tail(todo)
    /\ phase' = IF todo' = <<>> THEN "tick" ELSE "write"
    /\ UNCHANGED <<procVars, gen, idKey, radioOk, state, fsmKey, screen, uiVars,
                   storeVars>>

-----------------------------------------------------------------------------
(* loop(), second part: fsm::tick *)

Provisioned == ee["magic"] = 1

\* Mutant: the copy is made before the key is read.
CopyThenLoad ==
    /\ idKey' = IF idKey # 0 THEN idKey ELSE ee["key"]
    /\ fsmKey' = idKey
\* identity::get_net_key
LoadKey ==
    /\ idKey' = IF idKey # 0 THEN idKey ELSE ee["key"]
    /\ fsmKey' = idKey'

\* STATE_BOOT: the splash screen is shown for a while.
TickBoot ==
    /\ state = "boot"
    /\ \/ /\ screen' = "splash"
          /\ UNCHANGED <<state, fsmKey, idKey>>
       \/ /\ Provisioned
          /\ LoadKey
          /\ state' = "idle" /\ screen' = "inbox"
       \/ /\ ~Provisioned
          /\ state' = "setup" /\ screen' = "setup_welcome"
          /\ UNCHANGED <<fsmKey, idKey>>
    /\ UNCHANGED <<convPeer, draft, storeVars>>

TickSetup ==
    /\ state = "setup"
    /\ IF Provisioned /\ screen = "inbox"
       THEN LoadKey /\ state' = "idle"
       ELSE UNCHANGED <<fsmKey, idKey, state>>
    /\ UNCHANGED <<screen, convPeer, draft, storeVars>>

\* The key is not loaded here.
TickError ==
    /\ state = "error"
    /\ state' = IF screen # "error" THEN "idle" ELSE state
    /\ UNCHANGED <<fsmKey, idKey, screen, convPeer, draft, storeVars>>

\* What radio::receive and mesh::process_incoming may return: nothing, a text
\* encrypted with some key or (key 0) not at all, the ACK of a transmission.
Incoming ==
    {None} \cup
    (IF radioOk
     THEN [kind : {"text"}, id : Texts, burn : Burns, key : {0} \cup Gens]
             \cup [kind : {"ack"}, n : 1 .. sent]
     ELSE {})

\* process_radio: a text that cannot be decrypted is dropped, an ACK goes to
\* the first outgoing message with its id.
Readable(p) == p.key \in {0, fsmKey}
Acked(ms, p) == {i \in Used(ms) : ~ms[i].in /\ ms[i].id = RandomId(p.n)}

Received(ms, p) ==
    IF p = None THEN ms
    ELSE IF p.kind = "text"
    THEN IF Readable(p) THEN AddIncoming(ms, p) ELSE ms
    ELSE IF Acked(ms, p) = {} THEN ms
    ELSE [ms EXCEPT ![First(Acked(ms, p))].st = "delivered"]

\* STATE_IDLE: receive, send the first pending message (ok1), age all, and
\* then send the draft (ok2).
TickIdle(p, ok1, ok2) ==
    LET one == Received(msgs, p)
        due == Sending(one)
        n1  == IF due # {} /\ ok1 THEN sent + 1 ELSE sent
        two == IF due = {} THEN one ELSE Transmit(one, First(due), ok1, n1)
        old == [i \in Slots |-> Aged(two[i])]
        n2  == IF ok2 THEN n1 + 1 ELSE n1
    IN  /\ state = "idle"
        /\ sent' = IF screen = "sending" THEN n2 ELSE n1
        /\ IF screen = "sending"
           THEN /\ msgs' = Transmit(QueueOutgoing(old, draft.to), FindSlot(old), ok2, n2)
                /\ counter' = counter + 1
                /\ screen' = "inbox" /\ Forget
           ELSE /\ msgs' = old
                /\ UNCHANGED <<counter, screen, convPeer, draft>>
        /\ UNCHANGED <<state, fsmKey, idKey>>

Tick ==
    /\ phase = "tick" /\ phase' = "input"
    /\ \/ TickBoot
       \/ TickSetup
       \/ TickError
       \/ \E p \in Incoming, ok1, ok2 \in BOOLEAN : TickIdle(p, ok1, ok2)
    /\ UNCHANGED <<procVars, gen, ee, todo, radioOk, peerList, anyPeer>>

\* loop(), third part: the inbox is drawn if a frame is due.
Draw ==
    /\ phase = "input" /\ screen = "inbox"
    /\ peerList' = Redrawn(msgs)
    /\ anyPeer' = (PeerSeq(msgs) # <<>>)
    /\ UNCHANGED <<procVars, idVars, phase, radioOk, state, fsmKey, screen,
                   convPeer, draft, storeVars>>

-----------------------------------------------------------------------------
(* The surroundings *)

\* Within an iteration only fsm::tick reads the clock.
Clock ==
    /\ phase = "input" /\ now < MaxTime
    /\ now' = now + 1
    /\ UNCHANGED <<losses, idVars, phase, radioOk, state, fsmKey, screen, uiVars,
                   storeVars>>

\* The field being written may be torn.
PowerLoss ==
    /\ losses < MaxLosses /\ losses' = losses + 1
    /\ \E ok \in BOOLEAN : Boot(ok)
    /\ \/ ee' = ee
       \/ phase = "write" /\ ee' = [ee EXCEPT ![Head(todo)[1]] = -1]
    /\ UNCHANGED <<now, gen, sent>>

Press == Skip \/ Move \/ OpenConversation \/ Compose \/ Edit \/ SendDraft
            \/ Provision \/ Panic
Next == Press \/ WriteStep \/ Tick \/ Draw \/ Clock \/ PowerLoss

Spec == Init /\ [][Next]_vars

\* loop() comes round whether or not a button is pressed, and time passes.
FairSpec == Spec /\ WF_vars(Skip \/ WriteStep \/ Tick) /\ SF_vars(Clock)

-----------------------------------------------------------------------------
(* Properties *)

\* The magic number, written last by identity::provision and erased first by
\* identity::wipe, vouches for an id, a key and a PIN of one provisioning,
\* wherever the power fails.
IdentityWhole == Provisioned => ee["id"] = gen /\ ee["key"] = gen /\ ee["pin"] = gen

\* A device whose radio works processes messages (STATE_IDLE) only with the
\* network key of the identity it holds, however it got there: after a start,
\* a setup, a wipe followed by another setup, or a start in the middle of one.
KeyedWhenIdle ==
    radioOk /\ state = "idle" => Provisioned /\ fsmKey = ee["key"] /\ fsmKey > 0

\* fsm::panic_wipe: a device with a working radio and without an identity has
\* no message and no key in its state machine, and stays so while packets
\* arrive and keys are pressed, until it is set up again.
BlankUntilSetUp ==
    radioOk /\ ~Provisioned => fsmKey = 0 /\ \A i \in Slots : msgs[i] = None

\* After fsm::tick the screen is one of those documented for the state; the
\* screens "sending" and, in setup, "inbox" last for one iteration only.
ScreenFitsState ==
    phase = "input" =>
        CASE state = "boot" -> screen = "splash"
          [] state = "setup" -> screen \in {"setup_welcome", "setup_pin", "device_info"}
          [] state = "idle" -> screen \in {"inbox", "conversation", "compose",
                                           "settings", "network", "wipe_confirm", "test"}
          [] state = "error" -> screen = "error"

\* find_slot: when an iteration overwrites a message that is still alive, the
\* store is full, no slot that had expired before is spared, and no older
\* message is.
Alive(m) == m # None /\ ~Expired(m) /\ now <= m.exp
Overwritten(i) == Alive(msgs[i]) /\ msgs'[i] # None /\ msgs'[i].id # msgs[i].id
OldestGoesFirst ==
    [][\A i \in Slots : Overwritten(i) =>
          \A j \in Slots :
             /\ msgs'[j] # None
             /\ msgs'[j].at >= msgs[i].at
             /\ Expired(msgs'[j]) => ~Expired(msgs[j])]_vars

\* A message waiting to be sent is sent, expires or is dropped, even if every
\* transmission fails: process_outgoing and msg_store::tick hand it back and
\* forth between MSTATE_QUEUED and MSTATE_SENDING, and no retry is counted.
Waiting(n) ==
    \E i \in Used(msgs) : /\ ~msgs[i].in /\ msgs[i].id = CounterId(n)
                          /\ msgs[i].st \in {"queued", "sending"}
QueueSettles == \A n \in 1 .. MaxOut : Waiting(n) ~> ~Waiting(n)
=============================================================================
