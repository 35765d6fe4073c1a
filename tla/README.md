# PM-Chat: specification and proofs

TLA+ specifications of PM-Chat, model-checked with TLC on small instances and
proved with TLAPS for all instances where the prover reaches. `PROJECT.json`
holds the machine-readable index: components, runs, mutants, the map from
definitions to source lines, findings, hazards, theorems.

    tlc -workers 2 -config MessageSend_safety.cfg MCMessageSend
    tlapm MessageSendProofs.tla

## 1. The system

PM-Chat is two systems in one repository.

**The internet messenger.** A Node server (`apps/server`: Express routes,
Socket.IO handlers, MongoDB documents, Redis keys) relays end-to-end encrypted
messages between browsers (`apps/web`: Next.js, zustand stores, WebCrypto). The
server never sees plain text; what it owns is who may send where, what is
replayed, who receives what, and how long anything lives.

**The radio mesh.** Battery devices (`firmware/`: C++ on an STM32WL) exchange
short texts over LoRa, relaying each other's packets, in one cooperative loop
per device.

### Components, their state and their operations

| Component | State | Operations | Hard part |
|---|---|---|---|
| Message sending (`socket/handlers/message.ts`) | `Message`, `Conversation.lastMessageAt`, `nonce:*` keys in Redis | `message:send` | five awaits; two handlers with one nonce; failure after the nonce is claimed; restart |
| Conversation rooms (`conversation.ts`, `socket/index.ts`) | Socket.IO rooms | join, leave, connect, disconnect | membership granted after an await, never checked again |
| Receipts, burning, retention (`message.ts`, `index.ts`, `api/cron.ts`, the TTL indexes) | flags and `expiresAt` of documents, in-memory timers | delivered, read, burn timer, purge, TTL monitor, shutdown | timers lost in a crash; five mechanisms that delete |
| Conversations API (`routes/conversations.ts`) | `Conversation` | create, delete, list, get | two deletions in parallel with running sends |
| Token pairs (`routes/auth.ts`, `utils/jwt.ts`, both guards) | `refresh:*` and `blacklist:*` keys | register, login, refresh, logout, request, handshake | check-then-act over Redis; three clocks (token, key, blacklist entry) |
| Share links (`agents/linkGuard.ts`, `routes/share.ts`, `routes/premium.ts`, `premium/*`) | in-memory maps of links and of plans | create, access, revoke, clean up, activate, look up | counters at their limit, lazily expired entries, a plan that changes during an await |
| Presence and typing (`presence.ts`) | `presence:*`, `typing:*` keys | connect, heartbeat, typing, disconnect | one key for all sockets of a user, answers that come later, unhandled rejections |
| Rate limiting, security monitor (`socketRateLimiter.ts`, `securityGuards.ts`, `securityMonitor.ts`, web `middleware.ts`) | counting windows, strikes, block list | count, strike, block, clean up | hits around the edge of a window |
| Security agents (`agents/*`) | session tables, reputations, profiles per user | register, validate, report, record, decay, clean up | two maps in step; entries that must be forgotten. Only `linkGuard` is called by the server; the others are a library so far |
| Start-up (`startup.ts`, `api/index.ts`) | a cached promise | `ensureConnected`, the serverless handler | concurrent first requests; a rejected promise that stays cached |
| History API (`routes/messages.ts`) | none | paging by timestamp | ties at a page boundary |
| Web client state (`lib/socket.ts`, `useSocket`, `ChatWindow`, `chatStore`) | one socket for two components, message lists, history cache | mount, unmount, join, optimistic send, socket events, reconnect | cleanups of two components, events in any order, lost connections |
| Web client session (`AnonymousLogin`, `authStore`, `cryptoStore`, `keyStorage`) | tokens and key halves in memory, `sessionStorage`, `localStorage` | sign in, restore, reload, log out | a reload between two writes; storage shared by tabs |
| Mesh routing (`mesh.cpp`, `radio.cpp`) | deduplication ring, one-packet radio | send, receive, relay, ACK, tick, restart | echoes, losses, ring overflow, wrap of `millis()` |
| Firmware message store (`message_store.cpp`) | 32 slots, a counter | add, queue, read, tick, retry | eviction of live messages, retries |
| Firmware state machine, UI, buttons, identity, storage | screen, state, EEPROM | button events, tick, provision, wipe | a long sequence of key presses, power loss between two writes |
| Packet format (`packet.cpp`) | none | encode, decode | lengths at their limits |
| Key exchange relay, health, validation, logging, rendering, cryptography | none of their own | | left out (section 7) |

### How the components interact

Handlers and routes share only the databases; between two awaits of one, any
other may run. `message:send` reads `Conversation` (written by the routes),
writes `Message` (read and removed by receipts, timers, the purge, the TTL
monitor and `DELETE`), and broadcasts to rooms that `conversation:join` fills.
The two guards and the auth routes meet in Redis. Share links and plans live in the memory
of the process and meet in `POST /api/share`, which reads the database in between. In the
browser the chat layout and the chat window share one socket; what it emits is handled by
the server's rooms, and the answers go to every set of listeners. On a device,
`loop()` polls buttons, lets the UI react, and calls `fsm::tick`, which drains
the radio through `mesh::process_incoming`, answers and stores texts, sends the
queue, and ends with `mesh::tick`.

### What makes each part correct

Sending: a nonce is accepted once per window; only participants receive; what a
client is told is true of the database. Retention: nothing is removed without a
reason, everything expired is removed. Tokens: a logged-out access token stays
out, a spent refresh token stays spent. Mesh: what is read was sent, ACKs come
from readers, the ring keeps its window, the air falls silent. Share links: no
view beyond the limit, after expiry or after revocation, no link beyond the plan, none kept
for ever. Presence: who has left is offline in the end. Limits: a window never lets
through more than twice its limit. Agents: the tables agree, nobody is refused for ever, and
the profiles of idle users go. Start-up: no request before the databases. Client: one set of
listeners per component, no current socket outside the chat, every open conversation in its
room on a socket its window listens to, key halves of one pair. Store and device: a stored text is wiped when it must be, no key
press reaches an operation without a network key.

## 2. Modules

| Module | Models | Extends |
|---|---|---|
| `MessageSend` | `message:send` and the rooms | |
| `Retention` | receipts, burn timers, deletion, purge, TTL, shutdown | |
| `AuthTokens` | token pairs and guards | |
| `MeshService` | what the mesh promises (abstract) | |
| `Mesh` | devices, radio, ring, relaying, ACKs; refines `MeshService` | `Service == INSTANCE MeshService` |
| `Device` | one device: loop, states, screens, EEPROM, message store | |
| `LinkService` | what share links promise (abstract) | |
| `LinkGuard` | share links and plans; refines `LinkService` | `Service == INSTANCE LinkService` |
| `ClientChat` | one tab: socket, components, store, composed with the server's rooms | |
| `Clock` | `Date.now()` of the small components | |
| `SessionProtector`, `ThreatIntelligence`, `UserAgents` | the security agents | `Clock` |
| `RateLimits`, `Presence` | counting windows and block list; presence and typing | `Clock` |
| `Startup`, `ClientSession` | a serverless container; sign-in and keys of the tabs | |
| `Parts` | the seven small components together | all seven |
| `MC*` | constants for TLC | the component |
| `*Proofs` | theorems | the component, TLAPS |

### MessageSend

A message is identified with the activation that creates it, so `Sends` is both
the set of activations and of message documents. `pc[r]` says which call the
activation is waiting for; each action is the effect of one database call and
the local code up to the next.

| Code | Model |
|---|---|
| `redis.set(nonceKey, "1", "EX", ttl, "NX")` | `SendClaimNonce`, `SendReplay` on `nonceExp` |
| `Conversation.findOne({_id, participants})`, `new Date()` | `SendAllowed`, `SendDenied` |
| `Message.create` | `SendCreate` |
| `Conversation.updateOne({lastMessageAt})` | `SendUpdate` (no effect on a removed conversation) |
| `io.to(room).emit`, acknowledgement | `SendEmit` |
| the `catch` | `SendError`, possible at every await |
| `conversation:join`, `:leave`, connection, disconnection | `Join`, `JoinDone`, `Leave`, `Connect`, `Disconnect` |
| everything else that writes these documents | `ConvCreate`, `ConvRemove`, `MsgRemove` |
| end of the process | `Crash`: activations, sockets and rooms are lost, documents and keys stay |

A call that took effect although its reply failed is that call's step followed by
`SendError`. One server process is modelled; the Redis adapter would let several
share rooms.

### Retention

`msg[m].st` goes `none`, `built` (in the memory of `message:send`), `stored`,
`gone`. The purge is one variable `job` holding the instant it read and the
`deleteMany` calls still to run: one after the other in `index.ts`, in parallel
in `api/cron.ts` (`Serverless`). `del[d]` is an activation of `DELETE
/api/conversations/:id` with its two parallel deletions. Burn timers are pairs of a
message and a due instant; `BurnFire` and `BurnDelete` are the timer callback and
its `deleteOne`. `MsgDelivered` and `MsgRead` are the updates; what follows the await of each,
the broadcast and the timer, is `MsgDeliveredDone` and `MsgReadDone` (`delivering` and
`reading` hold what waits). In which order two receipts reach a client is left out: the
client's store takes them together, and a status never goes back there
(`chatStore.ts:102-116`). `Shutdown`, `Exit`, `Crash`, `Restart` are the life of the
process. `readAt` is a history variable.

### AuthTokens

Register, login and refresh always sign an access and a refresh token together, so
the unit is the pair. `call[c]` is an activation of a route or a guard; `pc` names
the Redis call it waits for. `keyExp` and `blackExp` are the two kinds of Redis keys
with their expiry. `late` and `at` record whether a token was already logged out
(or spent) when the activation began and when a guard let it through. A failed
Redis call has no effect here; a failure whose effect took place is the step itself
followed by the loss of the response, which the client cannot tell from a crash.

### Mesh and MeshService

A device is between two iterations of its loop (`Idle`), or about to transmit the
relay or the ACK of the packet it has just accepted; `relay` and `reply` hold these
packets, as both transmissions block for a while during which others act. A text to all is
relayed first, then read, then acknowledged, so `Relay` is also the reading, and a restart before
it loses the text although others may get the relay of it. `rx[n]` is
the one packet the radio holds. `Transmit` delivers to any subset of the
neighbours: loss and collisions, also a failing `radio::send`. `ring` and `head` are
`s_dedup` and `s_dedup_head`; `Elapsed` is subtraction modulo 2^32. Packets carry a
`hops` counter that only the properties read. `sent`, `got`, `acked` are the
variables of `MeshService`, so the refinement mapping is the identity on them; the
work is in showing that every step of the detailed specification is a step of the
abstract one or leaves it unchanged.

### Device

An iteration of `loop()` is a press (`Skip`, `Move`, `OpenConversation`, `Compose`,
`Edit`, `SendDraft`, `Provision`, `Panic`), the EEPROM writes it makes one field at a
time (`WriteStep`), `Tick` and possibly `Draw`; `phase` says which is next. `Tick` is
`fsm::tick` with one disjunct per state; in `STATE_IDLE` it composes, in the code's
order, `process_radio`, `process_outgoing`, `msg_store::tick` and the sending of a draft,
as functions on the array of slots. `PowerLoss` may happen anywhere and tears the
field being written. What the radio holds is `Mesh`'s subject; here an iteration finds any
packet, so holding one back adds nothing. `gen` counts provisionings; the id, the key and
the PIN of the g-th are the number g.

| Code | Model |
|---|---|
| `s_msgs`, `s_count` | `msgs`, `None` from `s_count` on |
| `find_slot`, `add_incoming`, `queue_outgoing`, `next_pending` | `FindSlot`, `AddIncoming`, `QueueOutgoing`, `Sending` |
| `get_peers` | `PeerSeq`: the k-th entry is the peer of the k-th slot that `Leads` |
| `s_net_key` of `state_machine.cpp` and of `device_identity.cpp` | `fsmKey`, `idKey` |
| `s_screen`, `s_state` | `screen`, `state` |
| `s_peer_list`, `s_peer_count`, `s_inbox_sel` | `peerList` with its stale tail, `anyPeer`, any index |
| `identity::provision`, `identity::wipe` | `ProvisionWrites`, `Erasures` |

A draft and the open conversation's peer are forgotten with their screen in the model. In
the code they stay in RAM, also after a wipe, until they are set anew before the next use.

### LinkGuard and LinkService

A request for a link is named by the token it would draw. `stage[t]` goes `unused`, `asked`
(waiting for `Conversation.findById`), `found`, then `live` and `gone`, or `refused`; after
the await the limit of the plan and the creation are one step of the event loop. A refusal that
changes nothing is no step; the one that switches the link off is `RefuseAccess`. `plan` is
`userTiers`, from which a look-up removes what has expired. `LinkService` knows of a
link only how often it may still be opened: `left` is mapped to the allowance
less the views while the link is usable, and to 0 otherwise, so that revocation, expiry, the
address guard, the cleanup and a restart are all `Close`.

### ClientChat

React runs the cleanups and effects of a commit without interruption, so a commit is one step:
`OpenSection` mounts the layout, `OpenWindow` the window below a mounted layout, `OpenBoth` both at
once, which happens on the way back from the settings to a conversation whose details are cached. A
child's effect runs before its parent's, so in `OpenBoth` the window asks for its room on a
socket that the layout's `initSocket`, finding it not open, then replaces. `Effects(ks)` is what the
effects of the components `ks` do together after their cleanups; `SignIn`, which new tokens
repeat while components are mounted, uses it too. `cur` is the module variable of
`lib/socket.ts`, `made` the number of Socket objects created so far; `sock`, `buf`, `up` and
`dn` are a Socket object with what it keeps until connected and what is under way;
`listeners[s]` names the mounts that registered on a socket, `copies` counts how often the
store shows a message. `Handle`, `PeerSends` and `PeerReceives` are the server's side, an
abstraction of `MessageSend` and `Retention` in which every call succeeds.

| Code | Model |
|---|---|
| `initSocket`, `disconnectSocket`, `getSocket().emit` | `initSocket`, `disconnectSocket`, `Emit` |
| the effect of `useSocket` and its cleanup | `Arm`, `Effects`, `Disarm` |
| `setAuth` with new tokens, the end of `init` | `SignIn`, `Settle` |
| the logout request, the `finally` after it | `StartLogout`, `FinishLogout` |
| mount and unmount of layout and window | `OpenSection`, `OpenBoth`, `OpenWindow`, `CloseWindow`, `LeaveSection` |
| the details of a conversation, cached by react-query | `FetchDetails`, `known` |
| `reconnectionAttempts`, a refused handshake | `GiveUp` |
| `handleSend` and `sendEncryptedMessage` | `StartSend`, `FinishSend` |
| the history query and its cache | `ReadHistory`, `ShowHistory` |
| listeners of `message:new`, `message:status` | `Receive` |

### The small components

`Parts` extends seven modules that share nothing but the clock. As no step of one can be
seen by another, a behaviour belongs to one `active` part, which keeps the state space a sum
instead of a product.

- `SessionProtector`: `sessions` and `userSessions`. A JavaScript `Set` keeps insertion
  order, which decides only between equally old sessions; the model leaves that choice open.
- `ThreatIntelligence`: scores are computed from the severities with weights in tenths;
  `DecayThreats` is the interval.
- `UserAgents`: the profiles of four agents and their intervals; `decrypted` is the one map
  that no interval cleans. Whether a statistical
  indicator with enough data fires is left open.
- `RateLimits`: three limiters are one algorithm with different keys. The guards stand in the
  order `createExpressApp` mounts them.
- `Presence`: commands on one Redis connection form a queue, `Answer` runs the oldest with
  the code after its await. A rejection nobody catches ends the process.
- `Startup`: `_connecting` is the promise (`mongo` and `redis` while pending there). The Redis
  client is lazy and nothing uses it while modules load, so the promise never finds it already
  connecting (`startup.ts:38-41`), and after a failure no promise tries again.
- `ClientSession`: `init` of `AnonymousLogin.tsx` with a step per await, over the three
  storages; the page may be reloaded, closed or logged out in any state.

## 3. Runs

| Run | Properties | Shows |
|---|---|---|
| `send_safety` | `TypeOK NonceWindow ClientsToldTheTruth LastMessageAtIsReal OnlyParticipantsReceive` | two sends with one nonce (refused for the 300 s of the code, not for the 24 h of the document: section 5), two users, one of them possibly an outsider, removals, one restart |
| `retention_safety` | `TypeOK StatusTruthful ConvKeptUntilAsked DeletionJustified` | all ways a document can go, with one fault |
| `retention_live` | `ExpiredIsRemoved BurnHappens` | the purge alone removes what has expired; read burn messages go unless the process stops |
| `auth_safety` | `TypeOK LoggedOutStaysOut SpentStaysSpent OldTokenDead` | four activations over three pairs, one fault, all expiries |
| `mesh_safety` | `TypeOK HopsAccounted DedupWindow ImplementsService FallsQuiet` | three devices in a line, one text, losses, echoes, one restart |
| `device_safety` | `TypeOK IdentityWhole KeyedWhenIdle BlankUntilSetUp ScreenFitsState OldestGoesFirst QueueSettles` | two provisionings, wipes, one power failure, every sequence of presses, three messages in two slots |
| `links_safety` | `ImplementsService LinksWithinPlan LinksForgotten` | two links with and without one-time use, PIN and addresses, plans that are bought and run out, restarts |
| `client_safety` | `ListenersOncePerMount NoSocketOutside WindowReceives` | three sockets, a conversation left and reopened in one commit or two, new tokens, logout, one lost connection, a message of either side |
| `parts_safety` | `SessionTablesAgree WindowBound OfflineInTheEnd NoneBeforeConnected KeyHalvesMatch ThreatsReleased ProfilesForgotten` | the seven small components |
| `retention_crash` (violation) | `BurnSurvivesCrash` | a crash loses the burn timer for ever |
| `auth_once` (violation) | `ExchangedOnce` | two refreshes spend one token twice |
| `client_delivered` (violation) | `DeliveredMeansReceived` | the sender's own client marks a message as delivered |

The last three state what a comment or a document of the repository says; TLC's
counterexample is what the code does. `PROJECT.json` quotes the lines.

Every property of a passing run has a mutant: an operator, marked `Mutant:` in the
module, that replaces a definition the way a plausible mistake would, and with which
TLC reports the property violated.

### Bounds, and why they are enough

- `send_safety`: two sends are what a race on one nonce takes; `NonceTTL = 2` and
  `MaxTime = 3` let the key expire between them; one user is in one of the two
  possible groups only; one crash. The proofs cover the rest.
- `retention_*`: one message and one conversation, since no operation relates two
  messages; lifetimes 0, 1 and 2 with `Grace = 2` so that expiry, purge and timer
  come in every order; one fault. Past `MaxTime` the clock moves only for armed
  timers.
- `auth_safety`: three pairs (two generations of refresh), four activations,
  lifetimes 2 and 3 within three instants, so that tokens, keys and entries expire in
  between. `BlackTTL = AccessTTL`, the tight case of `BlacklistCovers`.
- `mesh_safety`: a line of three is the smallest network with a relay. The ring has
  one slot, so it overflows at once and echoes happen; the lifetime is two instants and
  `millis()` wraps at the third. Larger rings are covered by the proof.

- `device_safety`: two provisionings and one power failure are what fields of two
  generations take; two slots, one text (a burn text, which unread is like any other) and
  two drafts, so that the store overflows with and without an expired slot; a message
  lives for one instant of two. A draft is sent only while its expiry lies within
  `MaxTime`, otherwise the stopped clock would refute `QueueSettles`. The clock does not wrap, here and in
  the proofs: what they say of eviction and expiry holds for 49 days after a start.

- `links_safety`: two tokens are what a race for the last link of a plan takes; three
  addresses against a limit of one; a link of three views for one instant and a
  one-time link for two, so that each way to close comes first once. Links are created only
  while their expiry lies before `MaxTime`, so that the stopped clock does not keep them.
- `client_*`: two sockets are what a commit of both components takes, and a third what
  comes after it; the components can be mounted until the sockets are used up. One lost
  connection, and one message at a time, of either side (`MaxSent`). The history is read once,
  as it stays fresh for `staleTime`, and details stay cached. Nothing in the client relates two
  conversations except the socket.
- `parts_safety`: three tokens for two sessions; severities 3, 6 and 9 and their
  mixtures reach every action from warning to quarantine; three calls of any agent; four hits on limits of one over
  windows of two instants; two sockets of one user and two heartbeats; three requests over two
  containers; two tabs, two accounts, three key pairs.

`CHECK_DEADLOCK FALSE` in the server and client runs: clients may stop calling, and the bounded
clock stops. The mesh and the device never deadlock.

### Fairness

`retention_live` assumes that a continuation runs once its call has returned, that a
due timer fires, that the interval (or the platform's cron) comes round, that the
supervisor restarts an exited process, and that time passes. The TTL monitor is not assumed, so the purge alone
must do. `retention_crash` adds weak fairness of the TTL monitor, which makes the
counterexample stronger: not even it helps.

`mesh_safety` assumes that a device with a packet in its radio or a transmission
pending gets on with it: the loop is unconditional and the watchdog restarts a device
that hangs for 8 seconds. Nothing is assumed about delivery. `FallsQuiet` concerns finitely
many texts, as the ids are bounded.

`device_safety` assumes that the loop comes round without a press and that time passes
(strong fairness of `Clock`, which the model lets tick between iterations only). Nothing
is assumed about transmissions: `QueueSettles` holds if all of them fail.

`links_safety` assumes that time passes and that the cleanup interval fires; users owe
nothing. `client_safety` assumes that a socket that tries to connect gets an answer or
gives up (after `reconnectionAttempts`, or at once when the guard refuses the handshake), and that
the server handles what it has received. It does not assume that a connection comes up:
`WindowReceives` ends its claim when the window's socket gives up or drops. `parts_safety` assumes that time passes and that the decay of the
reputations and the four cleanups of the profiles, each a `setInterval`, fire; nobody
has to ask about a target.

## 4. Proofs

All for arbitrary values of the constants, from the `ASSUME`s of the modules only.

**MessageSendProofs.** `TypeCorrect`; `ReplayProtection` from `NonceInv`: for every
accepted send the expiry of its nonce is at least `acceptedAt + NonceTTL`, so a second
acceptance, which needs an expired key, is that much later. `NonceTTL` is whatever the code has,
and the code has 300 s. `Confidentiality` and `Truthfulness` from
three parts: `RoomInv` (sockets in, or on their way into, a room belong to participants;
participants never change), `FlowInv` (what is known at each value of `pc`) and `InboxInv`.
`LastMessageReal` from the same flow, since documents are removed but a send's stamp never changes.

**RetentionProofs.** `TypeCorrect`, `ReceiptsTruthful`, `ConversationsKept`,
`DeletionsJustified`. The inductive invariant says that the instant the purge read is
not in the future, that an idle deletion has nothing to do, that every armed timer
belongs to a burn message read at least the grace period before it is due, and
that a fired timer's grace period is over. `BurnsAreKept` and `BurnsArePending` are the safety half of
`BurnHappens`: the removal of a read burn message is always under way in a handler, an armed
timer or a fired one (`BurnPending`), each passes it on to the next, and only the end of
the process drops it, which is what `retention_crash` shows. The invariant adds that a document
that is not stored yet is unread and that a process that is not up has met a fault. Both were
checked with TLC on the instance of `retention_live` with one deletion.

**AuthTokensProofs.** `TypeCorrect`, `LogoutEffective`, `NoLateRefresh`,
`RotationRevokes`. The steps of one activation are first classified (`CallSteps`); the
invariant then relates pairs (a logged-out pair's blacklist entry outlasts the token,
which needs `BlacklistCovers`; a spent pair has no key and never gets one again),
activations (what a late one cannot have) and storing (a pair about to be stored was
issued to nobody yet).

**MeshProofs.** `TypeCorrect`; `HopLimit` and `MeshRefines` from `AirInv` (each packet
anywhere in the network is genuine: a text was sent, an ACK is from a reader, hops and
time to live add up), `ReplyInv` (while an ACK waits for the relay, the relay is the text it
answers, otherwise that text has been read) and `SentInv` (ids are not reused), none of which is
inductive without the others; `DedupWindowHolds` from `RingInv`: the slot of a recently accepted
key is exactly as many slots behind the head, around the ring, as `dedup_add` was
called since. It rests on `DedupTTL < Wrap`, one minute against 49 days.

**DeviceProofs.** `IdentityNeverTorn`, `NeverIdleWithoutKey`, `WipedDeviceStaysBlank`,
`ScreensFollowState`, proved together from `DevInv`. None is inductive alone: that a
provisioning starts without an identity depends on the screen, that the screen is
reached only without one depends on the EEPROM, and that a wiped device accepts no text depends
on its state. `WriteInv` lists what the EEPROM contains after each write of the two calls.

`DeviceTypes` and `EvictionIsFair` (the action property `OldestGoesFirst`) need the store as
well: `FullInv` adds `StoreInv` and the remaining types. `OldestGoesFirst` speaks of a
whole iteration, in which `process_radio` may fill one slot, `msg_store::tick` lets
messages expire and the draft then takes another slot, so three facts carry it. `Carried` says of
each slot what the first half made of it: empty as before, the same message, or a new one
where `find_slot` put it. No message is of the future, so what is new is not older than
what went. And a message that burns has expired by the end of the iteration in which it was
opened; otherwise a read burn message would count as alive before the iteration, expire within
it and be overwritten at once, beside an older one. That last fact holds because a conversation
is opened only in `STATE_IDLE`, which is `DevInv`'s. That the list of the inbox holds peers only takes
`NthIn`, that among n slots there is a k-th for every k up to n: the least bound below
which there are k slots is one of them.

**LinkGuardProofs.** `TypeCorrect`; `LinksRefine` from `LinkInv`: a link that is not created yet
and an active one-time link have no views, without which an opening would not take
exactly one from `left`. Steps are first described by what they do to one token and to
the others. `PlansHold`: every step but `CreateLink` leaves each user a subset of the active
links (time only removes some), and `CreateLink` adds one link below the limit.

**ClientChatProofs.** `ListenersOnce` and `SocketOnlyInside` from `ChatInv`. The window is mounted
only inside the layout and only mounted components are armed (`MountInv`); the current socket
carries listeners of armed components only, a socket that does not exist yet carries none, and
without an armed component there is no current socket (`SocketInv`). So a component that arms
finds none of its own listeners on the socket it gets, although none is ever removed: its
cleanup gave up the socket as a whole. A commit of several components (`Effects`) gives each of
them a socket that did not exist.

**PartsProofs.** `PartSteps` separates the parts; each is then proved for itself.

- `RequestsWait`: `StartInv` says which databases stand behind each state of the promise, and
  that who goes on found it fulfilled.
- `SessionTables`: the equation of the two maps is inductive with the types that tell a
  session from none; that the limit holds takes the counting of finite sets, and that a full
  set has an oldest session to give up.
- `KeyHalves`: the private half in `sessionStorage` is missing or belongs to the public one,
  and each step of `init` that has read or made a half still holds one that fits.
- `OfflineAtLast`: a user without a connection is offline and nothing in the queue of
  commands changes it, or an "offline" is queued that nothing queued follows
  (`Quiet`, `OfflineQueued`).
- `WindowsHold`: `Windowed` relates the hits that passed to the entry: those since its start are at most
  its count and at most the limit, and so are those of one window's length before it. The
  lemmas on `Between` count hits in intervals; a split at the start of the window and a
  bound of one limit on each side give the factor two.

The constants are assumed to be what the code's are: windows natural numbers, limits positive ones
(`LimitAssumption`, `ClockAssumption`), finitely many tokens and a limit of at least one
session (`SessionAssumption`), and "nothing" different from everything it stands beside
(`ClientAssumption`, `ChatAssumption`, `NoneAssumption`).

**Induction.** The induction theorems of the library take a predicate as a parameter and cannot
be used here. Where an argument needs one, as in `LeastExists` and `NthIn`, it is made
with the least element of a set of naturals, which well-foundedness gives without a parameter.

**Only model-checked**: the liveness properties `ExpiredIsRemoved`, `BurnHappens`, `FallsQuiet`,
`QueueSettles`, `LinksForgotten`, `WindowReceives`, `ThreatsReleased`, `ProfilesForgotten`, which
are out of the prover's reach, and the violations. Every invariant and every action
property that a run checks is stated by a theorem.

## 5. Findings

1. `retention_crash`: a burn-after-reading message whose timer is lost with the process stays
   for ever (`message.ts:213`, comment at `:210`).
2. `auth_once`: a refresh token can be exchanged twice concurrently (`auth.ts:161`,
   `security-model.md:165`).
3. `client_delivered`: a message counts as delivered as soon as the sender's own client has
   received it back (`useSocket.ts:48`, `message-lifecycle.md:100`).
4. `send_safety` passes with the window the code has. Nonces are kept 300 s (`redis.ts:48`),
   while the security document says 24 hours (`security-model.md:133` and `:139`): a second send
   with a nonce is accepted, and its message stored, once five minutes are over. `NonceWindow`
   and `ReplayProtection` claim nothing about the rest of the day.

Met while modelling, and part of the models, but stated by no property:

- Sending: the nonce is claimed before anything is stored and never released, so an honest
  retry of a send that failed is refused as a replay for five minutes (`message.ts:68-73`); a
  client has to draw a new nonce.
- Retention: deleting a conversation can leave a message that was being sent
  (`conversations.ts:143`, against `:129`); self-destruction of a conversation keeps its
  messages (`index.ts:30`, against `Conversation.ts:8`).
- Tokens: logout answers success when revoking the refresh token failed (`auth.ts:200`,
  against `:181`); an open socket is not told of a logout (`guards.ts:33`); a registration
  that fails after `User.create` leaves an account (`auth.ts:77`).
- Plans: `durationDays` 0 is falsy, such a plan never ends (`premium/middleware.ts:43`).
- Presence: the end of one socket marks a user as offline who has another
  (`presence.ts:68`); a rejected Redis command is not caught (`presence.ts:21`); the typing
  indicator is not taken back at a disconnect.
- Limits: `sessionGuard` is mounted before the authentication that sets the user id, so it
  never counts (`createApp.ts:80`).
- Start-up: a rejected `_connecting` stays cached, so the container refuses every later
  request (`startup.ts:22`).
- Agents: a behaviour model that never saw a message is kept for ever
  (`behaviorAnalyzer.ts:195`), and so is an entry of `decryptionTimestamps` for every user
  who ever decrypted (`phantomGuard.ts:37`; the interval at `:181-193` does not look at it).
  `ProfilesForgotten` speaks of the four maps that are cleaned.
- Client: a room is asked for once per mount, so a reconnection, a connection that gives up
  and new tokens (`AnonymousLogin.tsx:62`, `:103`, while components are mounted) leave an
  open conversation without its room until it is mounted again, hence `calm` in
  `WindowReceives`. When layout and window mount in one commit, the room is joined on
  the socket that the layout's then replaces (`socket.ts:18`): the *current* socket is not in
  the room, and messages arrive because the replaced socket was not closed. Nothing closes it later
  either: it stays open after the section is left and after a logout, and its listeners add a
  second copy of a message to the store once the room is joined again on another socket. A logout ends
  what the user has opened since it was clicked (`settings/page.tsx:31`), and the tab gets no
  new tokens without a reload;
  an optimistic message is shown beside the real one until the history is read again; tabs
  share the user id in `localStorage`; a reload between `setAuth` and the stored
  key leaves a key pair the server does not know (`AnonymousLogin.tsx:111`).
- Device: an ACK never finds its message in the store (`state_machine.cpp:129`, against
  `packet-flow.md:325`); dismissing a radio error enters `STATE_IDLE` without a key
  (`state_machine.cpp:254`), so `KeyedWhenIdle` speaks of working radios; retries
  are never counted (`state_machine.cpp:157`); a burn text is erased before the conversation is
  drawn (`message_store.cpp:171`); the highlighted line is not corrected when the list of
  peers shrinks (`ui.cpp:546`); the confirmation of a factory reset has no effect
  (`state_machine.cpp:228`); after 49 days `millis()` wraps and the plain comparisons of the
  store go wrong for a while: a new message counts as the oldest (`message_store.cpp:28`), one due
  after the wrap as expired (`:165`), neither of which the model contains.

## 6. Plan

Done: `MessageSend`, `Retention`, `AuthTokens`, `Mesh` with `MeshService`, `Device`,
`LinkGuard` with `LinkService`, `ClientChat` and the small components, each checked, and
each with its invariants and action properties proved. Left, in this order:

1. The safety halves of the other liveness properties: what a step must not undo (a score
   that only decays, a place in a room), as action properties that can be proved.
2. `ThreatIntelligence` and `UserAgents`, which have liveness properties only.
3. Paging of the history API as an operator against the set of all messages; the packet
   format as a pair of inverse operators.
4. The 401 handling of `api.ts` composed with `AuthTokens`.

## 7. What is not modelled

- Collisions of random 32-bit message ids, of link tokens and of UUIDs.
- The cryptography: encryption is "readable with the same network key", tokens are
  unforgeable. Session keys per peer in the browser.
- The wrap of `millis()` in the message store (`Device`); `Mesh` has it.
- Several server processes behind one Redis adapter.
- Statistics and logs: relay counters of the mesh, metrics and reports of the security
  monitor and of the agents.
- `contentIntegrity.ts`, the watermarks, honeypots and text scan of `phantomGuard.ts` and
  `validatePublicKey` of `cryptoWatchdog.ts`: functions of their argument; the
  express-rate-limit wrappers, which are a library; `cryptoGuard`, which is mounted nowhere.
- Stateless code: key exchange relay, health checks, schema validation, configuration,
  attachments, rendering; the typing and presence indicators of the client.
- Packets with a foreign protocol version or a bad length: as good as lost.
