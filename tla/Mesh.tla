-------------------------------- MODULE Mesh --------------------------------
(***************************************************************************)
(* A network of devices running mesh.cpp, with the part of                 *)
(* state_machine.cpp that reads texts and answers them (process_radio,     *)
(* handle_text_packet).  A device runs one loop; an iteration takes at     *)
(* most one packet from the radio, relays it, answers it, and ends with    *)
(* mesh::tick.  The radio holds one received packet: a later one replaces  *)
(* it, and any neighbour may miss a transmission.                          *)
(*                                                                         *)
(* Texts always carry FLAG_ACK_REQ, as the only sender of texts sets it.   *)
(* Message ids are random 32-bit numbers and taken to be distinct.  What   *)
(* fails to decode is as good as not received.                             *)
(***************************************************************************)
EXTENDS Integers

CONSTANTS
    Nodes,       \* devices
    All,         \* BROADCAST_ID
    Silence,     \* "no packet"
    Ids,         \* message ids
    Near,        \* Near[n]: the devices in reach of n
    Net,         \* Net[n]: the network key of n
    DedupSize,   \* MESH_DEDUP_SIZE
    DedupTTL,    \* MESH_DEDUP_TTL_MS
    DefaultTTL,  \* MESH_DEFAULT_TTL
    MaxTTL,      \* MESH_MAX_TTL
    Wrap,        \* 2^32: millis() counts modulo Wrap
    MaxTime,     \* bound on the clock
    MaxReboots   \* bound on restarts of devices

ASSUME MeshAssumption ==
    /\ All \notin Nodes /\ Silence \notin Nodes
    /\ Near \in [Nodes -> SUBSET Nodes]
    /\ DedupSize \in Nat \ {0}
    /\ DedupTTL \in Nat
    /\ DefaultTTL \in Nat /\ MaxTTL \in Nat /\ DefaultTTL <= MaxTTL
    /\ Wrap \in Nat \ {0} /\ DedupTTL < Wrap
    /\ MaxTime \in Nat /\ MaxReboots \in Nat

VARIABLES
    now,       \* millis() before it is taken modulo Wrap
    reboots,   \* restarts so far
    rx,        \* rx[n]: the packet in n's radio, or Silence
    relay,     \* relay[n]: what relay_packet is about to transmit
    reply,     \* reply[n]: the ACK handle_text_packet is about to send
    ring,      \* s_dedup
    head,      \* s_dedup_head
    sent,      \* history: texts sent
    got,       \* history: <<n, m>>, n has read text m
    acked,     \* history: <<n, m>>, n's ACK has reached the sender of m
    seen       \* history: when n last accepted a packet since it started, and
               \* how many calls of dedup_add followed

airVars == <<rx, relay, reply>>
dedupVars == <<ring, head, seen>>
service == <<sent, got, acked>>
vars == <<now, reboots, airVars, dedupVars, service>>

-----------------------------------------------------------------------------
Slots == 0 .. DedupSize - 1
Text == [from : Nodes, to : Nodes \cup {All}, id : Ids]

\* hops counts the relays behind a packet; it is not transmitted.
Packet == [kind : {"text", "ack"}, from : Nodes, to : Nodes \cup {All},
           id : Ids, ttl : Nat, hops : Nat]

\* A slot cleared by memset or by mesh::tick matches no packet.
Clear == [from |-> Silence, id |-> Silence, at |-> 0]
Entry == [from : Nodes, id : Ids, at : Nat]

\* adds is counted up to DedupSize only; at = 0: not accepted.
Keys == Nodes \X Ids
Never == [at |-> 0, adds |-> 0]
Seen == [at : Nat, adds : 0 .. DedupSize]

TypeOK ==
    /\ now \in Nat \ {0}
    /\ reboots \in Nat
    /\ rx \in [Nodes -> Packet \cup {Silence}]
    /\ relay \in [Nodes -> Packet \cup {Silence}]
    /\ reply \in [Nodes -> Packet \cup {Silence}]
    /\ ring \in [Nodes -> [Slots -> Entry \cup {Clear}]]
    /\ head \in [Nodes -> Slots]
    /\ sent \subseteq Text
    /\ got \subseteq Nodes \X Text
    /\ acked \subseteq Nodes \X Text
    /\ seen \in [Nodes -> [Keys -> Seen]]

Init ==
    /\ now = 1
    /\ reboots = 0
    /\ rx = [n \in Nodes |-> Silence]
    /\ relay = [n \in Nodes |-> Silence]
    /\ reply = [n \in Nodes |-> Silence]
    /\ ring = [n \in Nodes |-> [i \in Slots |-> Clear]]
    /\ head = [n \in Nodes |-> 0]
    /\ sent = {}
    /\ got = {}
    /\ acked = {}
    /\ seen = [n \in Nodes |-> [k \in Keys |-> Never]]

-----------------------------------------------------------------------------
(* The deduplication ring *)

\* now - timestamp in 32-bit arithmetic.
Elapsed(at) == (now - at) % Wrap

\* Mutant: the head is not taken modulo the size.
NextSlotUnbounded(h) == h + 1

NextSlot(h) == (h + 1) % DedupSize

\* Mutant: old entries count instead of recent ones.
DuplicateOld(n, p) ==
    \E i \in Slots : /\ ring[n][i].from = p.from
                     /\ ring[n][i].id = p.id
                     /\ Elapsed(ring[n][i].at) > DedupTTL

\* is_duplicate
Duplicate(n, p) ==
    \E i \in Slots : /\ ring[n][i].from = p.from
                     /\ ring[n][i].id = p.id
                     /\ Elapsed(ring[n][i].at) < DedupTTL

\* mesh::tick
Purged(r) ==
    [i \in Slots |-> IF r[i].at % Wrap # 0 /\ Elapsed(r[i].at) > DedupTTL
                     THEN Clear ELSE r[i]]

\* dedup_add; the iteration ends, with mesh::tick, if nothing is left to send.
Remember(n, from, id, last) ==
    LET r == [ring[n] EXCEPT ![head[n]] = [from |-> from, id |-> id, at |-> now]]
    IN  /\ ring' = [ring EXCEPT ![n] = IF last THEN Purged(r) ELSE r]
        /\ head' = [head EXCEPT ![n] = NextSlot(@)]

\* One more call of dedup_add follows what n has accepted.
Aged(n) ==
    [k \in Keys |-> IF seen[n][k].adds < DedupSize
                    THEN [seen[n][k] EXCEPT !.adds = @ + 1] ELSE seen[n][k]]

\* The iteration ends without a call of dedup_add.
EndLoop(n, last) ==
    /\ ring' = [ring EXCEPT ![n] = IF last THEN Purged(@) ELSE @]
    /\ UNCHANGED <<head, seen>>

-----------------------------------------------------------------------------
(* Sending *)

\* Between two iterations of its loop, nothing is left to transmit.
Idle(n) == relay[n] = Silence /\ reply[n] = Silence

\* radio::send: the devices in `heard' receive p.
Transmit(n, p, heard) ==
    /\ heard \subseteq Near[n]
    /\ rx' = [m \in Nodes |-> IF m \in heard THEN p ELSE rx[m]]

\* send_text_message and mesh::send_packet: a text with a new id, sent by
\* process_outgoing before mesh::tick or from the compose screen after it.
Post(n, to, id, heard) ==
    /\ Idle(n)
    /\ to # n
    /\ \A m \in sent : m.id # id
    /\ sent' = sent \cup {[from |-> n, to |-> to, id |-> id]}
    /\ \E last \in BOOLEAN : Remember(n, n, id, last)
    /\ seen' = [seen EXCEPT ![n] = Aged(n)]
    /\ Transmit(n, [kind |-> "text", from |-> n, to |-> to, id |-> id,
                    ttl |-> DefaultTTL, hops |-> 0], heard)
    /\ UNCHANGED <<now, reboots, relay, reply, got, acked>>

TextOf(p) == [from |-> p.from, to |-> p.to, id |-> p.id]

\* The second half of relay_packet.  The packet is handed to
\* handle_text_packet only now: a text to all is relayed first, then read.
Relay(n, heard) ==
    /\ relay[n] # Silence
    /\ relay' = [relay EXCEPT ![n] = Silence]
    /\ got' = IF reply[n] = Silence THEN got ELSE got \cup {<<n, TextOf(relay[n])>>}
    /\ Transmit(n, relay[n], heard)
    /\ EndLoop(n, reply[n] = Silence)
    /\ UNCHANGED <<now, reboots, reply, sent, acked>>

\* Mutant: the ACK does not wait for the relay and the reading.
ReplyUnread(n, heard) ==
    /\ reply[n] # Silence
    /\ reply' = [reply EXCEPT ![n] = Silence]
    /\ Remember(n, n, reply[n].id, TRUE)
    /\ seen' = [seen EXCEPT ![n] = Aged(n)]
    /\ Transmit(n, reply[n], heard)
    /\ UNCHANGED <<now, reboots, relay, service>>

\* mesh::send_packet of the ACK, the text being read.
Reply(n, heard) ==
    /\ relay[n] = Silence
    /\ reply[n] # Silence
    /\ reply' = [reply EXCEPT ![n] = Silence]
    /\ Remember(n, n, reply[n].id, TRUE)
    /\ seen' = [seen EXCEPT ![n] = Aged(n)]
    /\ Transmit(n, reply[n], heard)
    /\ UNCHANGED <<now, reboots, relay, service>>

-----------------------------------------------------------------------------
(* Receiving: radio::receive, mesh::process_incoming, process_radio *)

\* The packet is our own, or was seen.
Ignored(n, p) == p.from = n \/ Duplicate(n, p)

Drop(n) ==
    /\ Idle(n)
    /\ rx[n] # Silence
    /\ Ignored(n, rx[n])
    /\ rx' = [rx EXCEPT ![n] = Silence]
    /\ EndLoop(n, TRUE)
    /\ UNCHANGED <<now, reboots, relay, reply, service>>

ForUs(n, p) == p.ttl <= MaxTTL /\ p.to \in {n, All}

\* Mutant: the time to live is checked but not decremented.
RelayedUndiminished(n, p) ==
    IF p.ttl <= MaxTTL /\ p.ttl > 0 /\ p.to # n
    THEN [p EXCEPT !.hops = @ + 1]
    ELSE Silence

\* Mutant: a packet is relayed as it came.
RelayedAsIs(n, p) == IF p.ttl > 0 /\ p.to # n THEN p ELSE Silence

\* relay_packet, up to the transmission.
Relayed(n, p) ==
    IF p.ttl <= MaxTTL /\ p.ttl > 0 /\ p.to # n
    THEN [p EXCEPT !.ttl = @ - 1, !.hops = @ + 1]
    ELSE Silence

\* handle_text_packet decrypts p: the keys are the same.
Readable(n, p) == ForUs(n, p) /\ p.kind = "text" /\ Net[p.from] = Net[n]

Answer(n, p) ==
    IF Readable(n, p)
    THEN [kind |-> "ack", from |-> n, to |-> p.from, id |-> p.id,
          ttl |-> DefaultTTL, hops |-> 0]
    ELSE Silence

\* What is not relayed is read at once; an ACK to us never is relayed.
Accept(n) ==
    LET p == rx[n]
    IN  /\ Idle(n)
        /\ p # Silence
        /\ ~Ignored(n, p)
        /\ rx' = [rx EXCEPT ![n] = Silence]
        /\ relay' = [relay EXCEPT ![n] = Relayed(n, p)]
        /\ reply' = [reply EXCEPT ![n] = Answer(n, p)]
        /\ Remember(n, p.from, p.id, Relayed(n, p) = Silence /\ Answer(n, p) = Silence)
        /\ seen' = [seen EXCEPT ![n] = [Aged(n) EXCEPT ![<<p.from, p.id>>] =
                                          [at |-> now, adds |-> 0]]]
        /\ got' = IF Readable(n, p) /\ Relayed(n, p) = Silence
                  THEN got \cup {<<n, TextOf(p)>>} ELSE got
        /\ acked' = IF ForUs(n, p) /\ p.kind = "ack"
                    THEN acked \cup {<<p.from, m>> : m \in {o \in sent :
                                        o.from = n /\ o.id = p.id}}
                    ELSE acked
        /\ UNCHANGED <<now, reboots, sent>>

\* An iteration in which the radio has nothing.
Loop(n) ==
    /\ Idle(n)
    /\ rx[n] = Silence
    /\ EndLoop(n, TRUE)
    /\ UNCHANGED <<now, reboots, airVars, service>>

\* The watchdog or the user restarts a device: mesh::init.
Reboot(n) ==
    /\ reboots < MaxReboots
    /\ reboots' = reboots + 1
    /\ rx' = [rx EXCEPT ![n] = Silence]
    /\ relay' = [relay EXCEPT ![n] = Silence]
    /\ reply' = [reply EXCEPT ![n] = Silence]
    /\ ring' = [ring EXCEPT ![n] = [i \in Slots |-> Clear]]
    /\ head' = [head EXCEPT ![n] = 0]
    /\ seen' = [seen EXCEPT ![n] = [k \in Keys |-> Never]]
    /\ UNCHANGED <<now, service>>

Tick ==
    /\ now < MaxTime
    /\ now' = now + 1
    /\ UNCHANGED <<reboots, airVars, dedupVars, service>>

-----------------------------------------------------------------------------
Sends(n, heard) ==
    \/ \E to \in Nodes \cup {All}, id \in Ids : Post(n, to, id, heard)
    \/ Relay(n, heard)
    \/ Reply(n, heard)

Next ==
    \/ \E n \in Nodes, heard \in SUBSET Nodes : Sends(n, heard)
    \/ \E n \in Nodes : Drop(n) \/ Accept(n) \/ Loop(n) \/ Reboot(n)
    \/ Tick

Spec == Init /\ [][Next]_vars

\* The loop of a device keeps running: the watchdog restarts one that hangs.
LoopFairness ==
    \A n \in Nodes : /\ WF_vars(Drop(n) \/ Accept(n))
                     /\ WF_vars(\E heard \in SUBSET Nodes :
                                   Relay(n, heard) \/ Reply(n, heard))

FairSpec == Spec /\ LoopFairness

-----------------------------------------------------------------------------
(* Properties *)

Service == INSTANCE MeshService WITH
    Nodes <- Nodes, All <- All, Ids <- Ids, sent <- sent, got <- got, acked <- acked

\* The mesh promises what MeshService says, across relays, losses and
\* restarts: what a device reads was sent to it, and an ACK that comes back
\* is from a device that has read the text (mesh.cpp:68-107,
\* state_machine.cpp:71-142).
ImplementsService == Service!Spec

\* Whatever path it took, a packet has used up one unit of its time to live
\* per relay (mesh.cpp:44-48, :114): no more than MESH_DEFAULT_TTL relays lie
\* between its sender and any device.
HopsAccounted ==
    \A n \in Nodes : \A p \in {rx[n], relay[n], reply[n]} \ {Silence} :
        p.hops + p.ttl = DefaultTTL

\* What the deduplication ring is worth (mesh.cpp:23-41): since its start, a
\* device takes a packet up twice only if MESH_DEDUP_TTL_MS have passed or
\* MESH_DEDUP_SIZE calls of dedup_add came in between, its own sends included.
SeenRecently(n, k) ==
    /\ seen[n][k].at # 0
    /\ now - seen[n][k].at < DedupTTL
    /\ seen[n][k].adds < DedupSize

NoEarlyRepeat ==
    \A n \in Nodes : Accept(n) => ~SeenRecently(n, <<rx[n].from, rx[n].id>>)

DedupWindow == [][NoEarlyRepeat]_vars

\* docs/firmware/architecture.md:172: no relay loop is possible.  The air
\* falls silent after the last text, whatever the ring has forgotten
\* (mesh.cpp:96-99).
Quiet == \A n \in Nodes : rx[n] = Silence /\ Idle(n)
FallsQuiet == <>[]Quiet
=============================================================================
