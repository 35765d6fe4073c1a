----------------------------- MODULE MeshProofs -----------------------------
(***************************************************************************)
(* Proofs about Mesh, for every network, ring size and lifetime.           *)
(***************************************************************************)
EXTENDS Mesh, TLAPS

-----------------------------------------------------------------------------
(* Arithmetic *)

LEMMA ModSmall ==
    ASSUME NEW d \in Nat, NEW w \in Nat \ {0}, d < w
    PROVE  d % w = d
  OBVIOUS

LEMMA ModRange ==
    ASSUME NEW d \in Int, NEW w \in Nat \ {0}
    PROVE  d % w \in 0 .. w - 1
  OBVIOUS

LEMMA NextSlotIs ==
    ASSUME NEW h \in Slots
    PROVE  /\ NextSlot(h) \in Slots
           /\ h < DedupSize - 1 => NextSlot(h) = h + 1
           /\ h = DedupSize - 1 => NextSlot(h) = 0
<1>1. DedupSize \in Nat \ {0} /\ h \in Nat
  BY MeshAssumption DEF Slots
<1>2. (h + 1) % DedupSize \in 0 .. DedupSize - 1
  BY <1>1, ModRange
<1>3. h < DedupSize - 1 => (h + 1) % DedupSize = h + 1
  BY <1>1, ModSmall
<1>4. h = DedupSize - 1 => (h + 1) % DedupSize = 0
  BY <1>1
<1> QED
  BY <1>2, <1>3, <1>4 DEF NextSlot, Slots

-----------------------------------------------------------------------------
(* Type correctness *)

Rings == [Slots -> Entry \cup {Clear}]

LEMMA PacketOps ==
    ASSUME NEW n \in Nodes, NEW p \in Packet
    PROVE  /\ Relayed(n, p) \in Packet \cup {Silence}
           /\ Answer(n, p) \in Packet \cup {Silence}
           /\ TextOf(p) \in Text
<1>1. DefaultTTL \in Nat /\ MaxTTL \in Nat
  BY MeshAssumption
<1>2. Relayed(n, p) \in Packet \cup {Silence}
  <2>1. CASE p.ttl > 0
    <3>1. p.ttl \in Nat /\ p.ttl - 1 \in Nat /\ p.hops + 1 \in Nat
      BY <2>1 DEF Packet
    <3>2. [p EXCEPT !.ttl = p.ttl - 1, !.hops = p.hops + 1] \in Packet
      BY <3>1 DEF Packet
    <3> QED
      BY <3>2 DEF Relayed
  <2>2. CASE ~(p.ttl > 0)
    BY <2>2 DEF Relayed
  <2> QED
    BY <2>1, <2>2
<1>3. Answer(n, p) \in Packet \cup {Silence}
  BY <1>1 DEF Answer, Packet
<1>4. TextOf(p) \in Text
  BY DEF TextOf, Packet, Text
<1> QED
  BY <1>2, <1>3, <1>4

LEMMA RingOps ==
    ASSUME TypeOK, NEW n \in Nodes, NEW from \in Nodes, NEW id \in Ids
    PROVE  /\ \A r \in Rings : Purged(r) \in Rings
           /\ [ring[n] EXCEPT ![head[n]] = [from |-> from, id |-> id, at |-> now]] \in Rings
           /\ ring[n] \in Rings
           /\ [i \in Slots |-> Clear] \in Rings
<1>1. ring[n] \in Rings /\ head[n] \in Slots /\ now \in Nat
  BY DEF TypeOK, Rings
<1>2. [from |-> from, id |-> id, at |-> now] \in Entry
  BY <1>1 DEF Entry
<1>3. [ring[n] EXCEPT ![head[n]] = [from |-> from, id |-> id, at |-> now]] \in Rings
  BY <1>1, <1>2 DEF Rings
<1>4. ASSUME NEW r \in Rings PROVE Purged(r) \in Rings
  BY DEF Purged, Rings
<1>5. [i \in Slots |-> Clear] \in Rings
  BY DEF Rings
<1> QED
  BY <1>1, <1>3, <1>4, <1>5

LEMMA RememberType ==
    ASSUME TypeOK, NEW n \in Nodes, NEW from \in Nodes, NEW id \in Ids,
           NEW last, Remember(n, from, id, last)
    PROVE  ring' \in [Nodes -> Rings] /\ head' \in [Nodes -> Slots]
<1>1. ring \in [Nodes -> Rings] /\ head \in [Nodes -> Slots]
  BY DEF TypeOK, Rings
<1>2. NextSlot(head[n]) \in Slots
  BY <1>1, NextSlotIs
<1> DEFINE r == [ring[n] EXCEPT ![head[n]] = [from |-> from, id |-> id, at |-> now]]
<1>3. r \in Rings /\ Purged(r) \in Rings
  BY RingOps
<1>4. ring' = [ring EXCEPT ![n] = IF last THEN Purged(r) ELSE r]
  BY DEF Remember
<1>5. head' = [head EXCEPT ![n] = NextSlot(head[n])]
  BY DEF Remember
<1> HIDE DEF r
<1>6. ring' \in [Nodes -> Rings]
  BY <1>1, <1>3, <1>4
<1>7. head' \in [Nodes -> Slots]
  BY <1>1, <1>2, <1>5
<1> QED
  BY <1>6, <1>7

LEMMA EndLoopType ==
    ASSUME TypeOK, NEW n \in Nodes, NEW last, EndLoop(n, last)
    PROVE  /\ ring' \in [Nodes -> Rings]
           /\ head' \in [Nodes -> Slots]
           /\ seen' \in [Nodes -> [Keys -> Seen]]
<1>1. /\ ring \in [Nodes -> Rings] /\ head \in [Nodes -> Slots]
      /\ seen \in [Nodes -> [Keys -> Seen]]
  BY DEF TypeOK, Rings
<1>2. Purged(ring[n]) \in Rings
  BY <1>1 DEF Purged, Rings
<1>3. ring' = [ring EXCEPT ![n] = IF last THEN Purged(ring[n]) ELSE ring[n]]
  BY DEF EndLoop
<1>4. ring' \in [Nodes -> Rings]
  BY <1>1, <1>2, <1>3
<1> QED
  BY <1>1, <1>4 DEF EndLoop

LEMMA AgedType ==
    ASSUME TypeOK, NEW n \in Nodes
    PROVE  Aged(n) \in [Keys -> Seen]
<1>1. seen[n] \in [Keys -> Seen] /\ DedupSize \in Nat
  BY MeshAssumption DEF TypeOK
<1>2. ASSUME NEW k \in Keys, seen[n][k].adds < DedupSize
      PROVE  [seen[n][k] EXCEPT !.adds = @ + 1] \in Seen
  BY <1>1, <1>2 DEF Seen
<1> QED
  BY <1>1, <1>2 DEF Aged

LEMMA TransmitType ==
    ASSUME TypeOK, NEW n, NEW p \in Packet, NEW heard, Transmit(n, p, heard)
    PROVE  rx' \in [Nodes -> Packet \cup {Silence}]
  BY DEF TypeOK, Transmit

LEMMA InitType == Init => TypeOK
<1> SUFFICES ASSUME Init PROVE TypeOK
  OBVIOUS
<1>1. 0 \in Slots /\ Never \in Seen
  BY MeshAssumption DEF Slots, Never, Seen
<1> QED
  BY <1>1 DEF Init, TypeOK

LEMMA NextType == TypeOK /\ [Next]_vars => TypeOK'
<1> SUFFICES ASSUME TypeOK, [Next]_vars PROVE TypeOK'
  OBVIOUS
<1>0. /\ now \in Nat \ {0} /\ reboots \in Nat
      /\ rx \in [Nodes -> Packet \cup {Silence}]
      /\ relay \in [Nodes -> Packet \cup {Silence}]
      /\ reply \in [Nodes -> Packet \cup {Silence}]
      /\ ring \in [Nodes -> Rings] /\ head \in [Nodes -> Slots]
      /\ seen \in [Nodes -> [Keys -> Seen]]
      /\ sent \subseteq Text /\ got \subseteq Nodes \X Text
      /\ acked \subseteq Nodes \X Text
  BY DEF TypeOK, Rings
<1> DEFINE Goal == /\ now' \in Nat \ {0} /\ reboots' \in Nat
                   /\ rx' \in [Nodes -> Packet \cup {Silence}]
                   /\ relay' \in [Nodes -> Packet \cup {Silence}]
                   /\ reply' \in [Nodes -> Packet \cup {Silence}]
                   /\ ring' \in [Nodes -> Rings] /\ head' \in [Nodes -> Slots]
                   /\ seen' \in [Nodes -> [Keys -> Seen]]
                   /\ sent' \subseteq Text /\ got' \subseteq Nodes \X Text
                   /\ acked' \subseteq Nodes \X Text
<1> SUFFICES Goal
  BY DEF TypeOK, Rings
<1>1. ASSUME NEW n \in Nodes, NEW heard \in SUBSET Nodes,
             NEW to \in Nodes \cup {All}, NEW id \in Ids, Post(n, to, id, heard)
      PROVE  Goal
  <2>1. [kind |-> "text", from |-> n, to |-> to, id |-> id,
         ttl |-> DefaultTTL, hops |-> 0] \in Packet
    BY MeshAssumption DEF Packet
  <2>2. rx' \in [Nodes -> Packet \cup {Silence}]
    BY <1>1, <2>1, TransmitType DEF Post
  <2>3. ring' \in [Nodes -> Rings] /\ head' \in [Nodes -> Slots]
    BY <1>1, RememberType DEF Post
  <2>4. seen' \in [Nodes -> [Keys -> Seen]]
    BY <1>0, <1>1, AgedType DEF Post
  <2>5. sent' \subseteq Text
    BY <1>0, <1>1 DEF Post, Text
  <2> QED
    BY <1>0, <1>1, <2>2, <2>3, <2>4, <2>5 DEF Post
<1>2. ASSUME NEW n \in Nodes, NEW heard \in SUBSET Nodes, Relay(n, heard)
      PROVE  Goal
  <2>1. rx' \in [Nodes -> Packet \cup {Silence}]
    BY <1>0, <1>2, TransmitType DEF Relay
  <2>2. /\ ring' \in [Nodes -> Rings] /\ head' \in [Nodes -> Slots]
        /\ seen' \in [Nodes -> [Keys -> Seen]]
    BY <1>2, EndLoopType DEF Relay
  <2>3. got' \subseteq Nodes \X Text
    <3>1. relay[n] \in Packet
      BY <1>0, <1>2 DEF Relay
    <3>2. TextOf(relay[n]) \in Text
      BY <3>1, PacketOps
    <3> QED
      BY <1>0, <1>2, <3>2 DEF Relay
  <2> QED
    BY <1>0, <1>2, <2>1, <2>2, <2>3 DEF Relay
<1>3. ASSUME NEW n \in Nodes, NEW heard \in SUBSET Nodes, Reply(n, heard)
      PROVE  Goal
  <2>0. reply[n] \in Packet /\ reply[n].id \in Ids
    BY <1>0, <1>3 DEF Reply, Packet
  <2>1. rx' \in [Nodes -> Packet \cup {Silence}]
    BY <1>3, <2>0, TransmitType DEF Reply
  <2>2. ring' \in [Nodes -> Rings] /\ head' \in [Nodes -> Slots]
    BY <1>3, <2>0, RememberType DEF Reply
  <2>3. seen' \in [Nodes -> [Keys -> Seen]]
    BY <1>0, <1>3, AgedType DEF Reply
  <2> QED
    BY <1>0, <1>3, <2>1, <2>2, <2>3 DEF Reply, service
<1>4. ASSUME NEW n \in Nodes, Drop(n) \/ Loop(n) PROVE Goal
  <2>1. /\ ring' \in [Nodes -> Rings] /\ head' \in [Nodes -> Slots]
        /\ seen' \in [Nodes -> [Keys -> Seen]]
    BY <1>4, EndLoopType DEF Drop, Loop
  <2> QED
    BY <1>0, <1>4, <2>1 DEF Drop, Loop, service, airVars
<1>5. ASSUME NEW n \in Nodes, Accept(n) PROVE Goal
  <2>0. /\ rx[n] \in Packet /\ rx[n].id \in Ids /\ rx[n].from \in Nodes
        /\ <<rx[n].from, rx[n].id>> \in Keys
    BY <1>0, <1>5 DEF Accept, Packet, Keys
  <2>1. /\ Relayed(n, rx[n]) \in Packet \cup {Silence}
        /\ Answer(n, rx[n]) \in Packet \cup {Silence}
        /\ TextOf(rx[n]) \in Text
    BY <2>0, PacketOps
  <2>2. ring' \in [Nodes -> Rings] /\ head' \in [Nodes -> Slots]
    BY <1>5, <2>0, RememberType DEF Accept
  <2>3. seen' \in [Nodes -> [Keys -> Seen]]
    <3>1. [at |-> now, adds |-> 0] \in Seen
      BY <1>0, MeshAssumption DEF Seen
    <3>2. [Aged(n) EXCEPT ![<<rx[n].from, rx[n].id>>] = [at |-> now, adds |-> 0]]
             \in [Keys -> Seen]
      BY <2>0, <3>1, AgedType
    <3> QED
      BY <1>0, <1>5, <3>2 DEF Accept
  <2>4. got' \subseteq Nodes \X Text
    BY <1>0, <1>5, <2>1 DEF Accept
  <2>5. acked' \subseteq Nodes \X Text
    BY <1>0, <1>5, <2>0 DEF Accept
  <2>6. /\ rx' \in [Nodes -> Packet \cup {Silence}]
        /\ relay' \in [Nodes -> Packet \cup {Silence}]
        /\ reply' \in [Nodes -> Packet \cup {Silence}]
    BY <1>0, <1>5, <2>1 DEF Accept
  <2> QED
    BY <1>0, <1>5, <2>2, <2>3, <2>4, <2>5, <2>6 DEF Accept
<1>6. ASSUME NEW n \in Nodes, Reboot(n) PROVE Goal
  <2>1. 0 \in Slots /\ Never \in Seen /\ [i \in Slots |-> Clear] \in Rings
    BY MeshAssumption DEF Slots, Never, Seen, Rings
  <2>2. /\ ring' = [ring EXCEPT ![n] = [i \in Slots |-> Clear]]
        /\ seen' = [seen EXCEPT ![n] = [k \in Keys |-> Never]]
        /\ head' = [head EXCEPT ![n] = 0]
    BY <1>6 DEF Reboot
  <2>3. ring' \in [Nodes -> Rings] /\ seen' \in [Nodes -> [Keys -> Seen]]
    BY <1>0, <2>1, <2>2
  <2> QED
    BY <1>0, <1>6, <2>1, <2>2, <2>3 DEF Reboot, service
<1>7. CASE Tick
  BY <1>0, <1>7 DEF Tick, airVars, dedupVars, service
<1>8. CASE UNCHANGED vars
  BY <1>0, <1>8 DEF vars, airVars, dedupVars, service
<1> HIDE DEF Goal
<1> QED
  BY <1>1, <1>2, <1>3, <1>4, <1>5, <1>6, <1>7, <1>8 DEF Next, Sends

\* Mesh is type-correct.
THEOREM TypeCorrect == Spec => []TypeOK
  BY InitType, NextType, PTL DEF Spec

-----------------------------------------------------------------------------
(* The packets on the air *)

Air(n) == {rx[n], relay[n]} \ {Silence}

\* A text on the air was sent; an ACK is from a reader of the text.
Genuine(p) ==
    /\ p.hops + p.ttl = DefaultTTL
    /\ p.kind = "text" => TextOf(p) \in sent
    /\ p.kind = "ack" => \E m \in sent : /\ m.from = p.to /\ m.id = p.id
                                         /\ <<p.from, m>> \in got

AirInv == \A n \in Nodes : \A p \in Air(n) : Genuine(p)

\* The answer to a text waits until the text is relayed and read.
AnswerTo(n, m, p) ==
    /\ p.kind = "ack" /\ p.from = n /\ p.to = m.from /\ p.id = m.id
    /\ p.hops + p.ttl = DefaultTTL

ReplyInvAt(n) ==
    reply[n] # Silence =>
        \E m \in sent :
            /\ AnswerTo(n, m, reply[n])
            /\ relay[n] = Silence => <<n, m>> \in got
            /\ relay[n] # Silence => /\ TextOf(relay[n]) = m
                                    /\ m.from # n /\ m.to \in {n, All}

ReplyInv == \A n \in Nodes : ReplyInvAt(n)

\* Ids are not used twice, and who has read a text is not its sender.
SentInv ==
    /\ \A m, o \in sent : m.id = o.id => m = o
    /\ \A e \in got : e[2] \in sent

MeshInv == AirInv /\ ReplyInv /\ SentInv

LEMMA InitAir == Init => MeshInv
  BY DEF Init, MeshInv, AirInv, ReplyInv, ReplyInvAt, SentInv, Air

\* What is genuine stays genuine: nothing is forgotten of what was sent and
\* read.
LEMMA GenuineStays ==
    ASSUME sent \subseteq sent', got \subseteq got', NEW p, Genuine(p)
    PROVE  Genuine(p)'
  BY DEF Genuine, TextOf

LEMMA AnswerStays ==
    ASSUME sent \subseteq sent', got \subseteq got', NEW n, ReplyInvAt(n),
           relay'[n] = relay[n], reply'[n] \in {reply[n], Silence}
    PROVE  ReplyInvAt(n)'
<1>1. CASE reply'[n] = Silence
  BY <1>1 DEF ReplyInvAt
<1>2. CASE reply[n] # Silence /\ reply'[n] = reply[n]
  <2>1. PICK m \in sent :
             /\ AnswerTo(n, m, reply[n])
             /\ relay[n] = Silence => <<n, m>> \in got
             /\ relay[n] # Silence => /\ TextOf(relay[n]) = m
                                     /\ m.from # n /\ m.to \in {n, All}
    BY <1>2 DEF ReplyInvAt
  <2>2. m \in sent' /\ AnswerTo(n, m, reply[n])' /\ TextOf(relay[n])' = TextOf(relay[n])
    BY <1>2, <2>1 DEF AnswerTo, TextOf
  <2> QED
    BY <2>1, <2>2 DEF ReplyInvAt
<1> QED
  BY <1>1, <1>2

LEMMA Grows ==
    ASSUME [Next]_vars
    PROVE  sent \subseteq sent' /\ got \subseteq got'
  BY DEF Next, Sends, Post, Relay, Reply, Drop, Accept, Loop, Reboot, Tick, vars,
         service

\* An answer that is about to be sent is from a reader.
LEMMA ReadAnswer ==
    ASSUME ReplyInv, NEW n \in Nodes, reply[n] # Silence, relay[n] = Silence
    PROVE  Genuine(reply[n])
<1>1. PICK m \in sent : AnswerTo(n, m, reply[n]) /\ <<n, m>> \in got
  BY DEF ReplyInv, ReplyInvAt
<1> QED
  BY <1>1 DEF AnswerTo, Genuine

\* Every packet on the air was there before, or is a new text, an answer to a
\* text that was read, or a relay of a packet just accepted.
LEMMA NextAir == TypeOK /\ MeshInv /\ [Next]_vars => MeshInv'
<1> SUFFICES ASSUME TypeOK, AirInv, ReplyInv, SentInv, [Next]_vars
             PROVE  AirInv' /\ ReplyInv' /\ SentInv'
  BY DEF MeshInv
<1>0. /\ rx \in [Nodes -> Packet \cup {Silence}]
      /\ relay \in [Nodes -> Packet \cup {Silence}]
      /\ reply \in [Nodes -> Packet \cup {Silence}]
      /\ sent \subseteq sent' /\ got \subseteq got'
  BY Grows DEF TypeOK
<1>1. ASSUME NEW p, \E n \in Nodes : p \in Air(n) PROVE Genuine(p)'
  BY <1>0, <1>1, GenuineStays DEF AirInv
<1>2. ASSUME NEW m \in Nodes, relay'[m] = relay[m], reply'[m] \in {reply[m], Silence}
      PROVE  ReplyInvAt(m)'
  BY <1>0, <1>2, AnswerStays DEF ReplyInv
<1>3. ASSUME NEW n \in Nodes, NEW heard \in SUBSET Nodes,
             NEW to \in Nodes \cup {All}, NEW id \in Ids, Post(n, to, id, heard)
      PROVE  AirInv' /\ ReplyInv' /\ SentInv'
  <2> DEFINE p == [kind |-> "text", from |-> n, to |-> to, id |-> id,
                   ttl |-> DefaultTTL, hops |-> 0]
  <2>1. Genuine(p)'
    BY <1>3, MeshAssumption DEF Post, Genuine, TextOf
  <2>2. ASSUME NEW m \in Nodes, NEW q \in Air(m)'
        PROVE  q = p \/ \E o \in Nodes : q \in Air(o)
    <3>1. rx'[m] \in {rx[m], p} /\ relay' = relay
      BY <1>3 DEF Post, Transmit
    <3> QED
      BY <3>1, <2>2 DEF Air
  <2>3. AirInv'
    BY <1>1, <2>1, <2>2 DEF AirInv
  <2>4. SentInv'
    BY <1>3 DEF Post, SentInv
  <2>5. relay' = relay /\ reply' = reply
    BY <1>3 DEF Post
  <2>6. ReplyInv'
    BY <1>2, <2>5 DEF ReplyInv
  <2> QED
    BY <2>3, <2>4, <2>6
<1>4. ASSUME NEW n \in Nodes, NEW heard \in SUBSET Nodes, Relay(n, heard)
      PROVE  AirInv' /\ ReplyInv' /\ SentInv'
  <2> SUFFICES ASSUME NEW p, p = relay[n] PROVE AirInv' /\ ReplyInv' /\ SentInv'
    OBVIOUS
  <2>0. /\ p \in Air(n) /\ p # Silence
        /\ \A m \in Nodes : rx'[m] \in {rx[m], p}
        /\ relay' = [relay EXCEPT ![n] = Silence] /\ reply' = reply
        /\ got' = IF reply[n] = Silence THEN got ELSE got \cup {<<n, TextOf(p)>>}
        /\ sent' = sent
    BY <1>4 DEF Relay, Transmit, Air
  <2>1. ASSUME NEW m \in Nodes, NEW q \in Air(m)'
        PROVE  \E o \in Nodes : q \in Air(o)
    <3>1. rx'[m] \in {rx[m], p} /\ relay'[m] \in {relay[m], Silence}
      BY <1>0, <2>0
    <3> QED
      BY <2>0, <2>1, <3>1 DEF Air
  <2>2. ASSUME NEW m \in Nodes PROVE ReplyInvAt(m)'
    <3>1. CASE m # n
      BY <1>0, <1>2, <2>0, <3>1
    <3>2. CASE m = n /\ reply[n] # Silence
      <4>1. PICK o \in sent : AnswerTo(n, o, reply[n]) /\ TextOf(p) = o
        BY <2>0, <3>2 DEF ReplyInv, ReplyInvAt
      <4>2. relay'[n] = Silence /\ <<n, o>> \in got' /\ o \in sent'
        BY <1>0, <2>0, <3>2, <4>1
      <4>3. AnswerTo(n, o, reply[n])'
        BY <2>0, <4>1 DEF AnswerTo
      <4> QED
        BY <2>0, <3>2, <4>2, <4>3 DEF ReplyInvAt
    <3>3. CASE m = n /\ reply[n] = Silence
      BY <2>0, <3>3 DEF ReplyInvAt
    <3> QED
      BY <3>1, <3>2, <3>3
  <2>3. SentInv'
    <3>1. reply[n] # Silence => TextOf(p) \in sent
      BY <2>0 DEF ReplyInv, ReplyInvAt
    <3> QED
      BY <2>0, <3>1 DEF SentInv
  <2> QED
    BY <1>1, <2>1, <2>2, <2>3 DEF AirInv, ReplyInv
<1>5. ASSUME NEW n \in Nodes, NEW heard \in SUBSET Nodes, Reply(n, heard)
      PROVE  AirInv' /\ ReplyInv' /\ SentInv'
  <2> SUFFICES ASSUME NEW p, p = reply[n] PROVE AirInv' /\ ReplyInv' /\ SentInv'
    OBVIOUS
  <2>0. /\ \A m \in Nodes : rx'[m] \in {rx[m], p}
        /\ relay' = relay /\ reply' = [reply EXCEPT ![n] = Silence]
        /\ UNCHANGED <<sent, got>>
    BY <1>5 DEF Reply, Transmit, service
  <2>1. Genuine(p)'
    <3>1. Genuine(p)
      BY <1>5, ReadAnswer DEF Reply
    <3> QED
      BY <1>0, <3>1, GenuineStays
  <2>2. ASSUME NEW m \in Nodes, NEW q \in Air(m)'
        PROVE  q = p \/ q \in Air(m)
    BY <2>0, <2>2 DEF Air
  <2>3. AirInv'
    BY <1>1, <2>1, <2>2 DEF AirInv
  <2>4. ASSUME NEW m \in Nodes PROVE ReplyInvAt(m)'
    BY <1>0, <1>2, <2>0
  <2> QED
    BY <2>0, <2>3, <2>4 DEF ReplyInv, SentInv
<1>6. ASSUME NEW n \in Nodes, Accept(n) PROVE AirInv' /\ ReplyInv' /\ SentInv'
  <2> SUFFICES ASSUME NEW p, p = rx[n], NEW r, r = Relayed(n, p),
                      NEW a, a = Answer(n, p)
               PROVE  AirInv' /\ ReplyInv' /\ SentInv'
    OBVIOUS
  <2>0. /\ p \in Packet /\ Genuine(p) /\ p # Silence /\ p.from # n
        /\ \A m \in Nodes : rx'[m] \in {rx[m], Silence}
        /\ relay' = [relay EXCEPT ![n] = r] /\ reply' = [reply EXCEPT ![n] = a]
        /\ sent' = sent
        /\ got' = IF Readable(n, p) /\ r = Silence
                  THEN got \cup {<<n, TextOf(p)>>} ELSE got
    BY <1>0, <1>6 DEF Accept, Ignored, Air, AirInv
  <2>1. r # Silence => Genuine(r)' /\ TextOf(r) = TextOf(p)
    <3>1. CASE p.ttl > 0 /\ r = [p EXCEPT !.ttl = @ - 1, !.hops = @ + 1]
      <4>1. /\ r.kind = p.kind /\ r.from = p.from /\ r.to = p.to /\ r.id = p.id
            /\ r.ttl = p.ttl - 1 /\ r.hops = p.hops + 1
        BY <2>0, <3>1 DEF Packet
      <4>2. p.ttl \in Nat /\ p.hops \in Nat /\ DefaultTTL \in Nat
        BY <2>0, MeshAssumption DEF Packet
      <4>3. Genuine(r)
        BY <2>0, <4>1, <4>2 DEF Genuine, TextOf
      <4> QED
        BY <1>0, <4>1, <4>3, GenuineStays DEF TextOf
    <3> QED
      BY <3>1 DEF Relayed
  <2>2. ASSUME NEW m \in Nodes, NEW q \in Air(m)'
        PROVE  \/ q = r /\ q # Silence
               \/ \E o \in Nodes : q \in Air(o)
    <3>1. rx'[m] \in {rx[m], Silence} /\ relay'[m] \in {relay[m], r}
      BY <1>0, <2>0
    <3> QED
      BY <2>2, <3>1 DEF Air
  <2>3. AirInv'
    BY <1>1, <2>1, <2>2 DEF AirInv
  <2>4. ReplyInvAt(n)'
    <3>1. CASE Readable(n, p)
      <4>1. /\ TextOf(p) \in sent' /\ TextOf(p).from # n /\ TextOf(p).to \in {n, All}
            /\ TextOf(p).from = p.from /\ TextOf(p).id = p.id
        BY <2>0, <3>1 DEF Genuine, Readable, ForUs, TextOf
      <4>2. a = [kind |-> "ack", from |-> n, to |-> p.from, id |-> p.id,
                 ttl |-> DefaultTTL, hops |-> 0]
        BY <3>1 DEF Answer
      <4>3. /\ a.kind = "ack" /\ a.from = n /\ a.to = p.from /\ a.id = p.id
            /\ a.hops + a.ttl = DefaultTTL
        BY <4>2, MeshAssumption
      <4>4. reply'[n] = a /\ relay'[n] = r
        BY <1>0, <2>0
      <4>5. AnswerTo(n, TextOf(p), reply[n])'
        BY <4>1, <4>3, <4>4 DEF AnswerTo, TextOf
      <4>6. r = Silence => <<n, TextOf(p)>> \in got'
        BY <2>0, <3>1
      <4> QED
        BY <2>1, <4>1, <4>4, <4>5, <4>6 DEF ReplyInvAt
    <3>2. CASE ~Readable(n, p)
      BY <1>0, <2>0, <3>2 DEF Answer, ReplyInvAt
    <3> QED
      BY <3>1, <3>2
  <2>5. ASSUME NEW m \in Nodes \ {n} PROVE ReplyInvAt(m)'
    BY <1>0, <1>2, <2>0
  <2>6. SentInv'
    BY <2>0 DEF SentInv, Readable, Genuine
  <2> QED
    BY <2>3, <2>4, <2>5, <2>6 DEF ReplyInv
<1>7. ASSUME NEW n \in Nodes, Reboot(n) PROVE AirInv' /\ ReplyInv' /\ SentInv'
  <2>0. /\ \A m \in Nodes : /\ rx'[m] \in {rx[m], Silence}
                            /\ relay'[m] \in {relay[m], Silence}
        /\ reply'[n] = Silence
        /\ \A m \in Nodes \ {n} : relay'[m] = relay[m] /\ reply'[m] = reply[m]
        /\ UNCHANGED <<sent, got>>
    BY <1>0, <1>7 DEF Reboot, service
  <2>1. ASSUME NEW m \in Nodes, NEW q \in Air(m)' PROVE q \in Air(m)
    BY <2>0, <2>1 DEF Air
  <2>2. ReplyInvAt(n)'
    BY <2>0 DEF ReplyInvAt
  <2>3. ASSUME NEW m \in Nodes \ {n} PROVE ReplyInvAt(m)'
    BY <1>2, <2>0
  <2> QED
    BY <1>1, <2>0, <2>1, <2>2, <2>3 DEF AirInv, ReplyInv, SentInv
<1>8. CASE (\E n \in Nodes : Drop(n) \/ Loop(n)) \/ Tick \/ UNCHANGED vars
  <2>0. /\ \A m \in Nodes : rx'[m] \in {rx[m], Silence}
        /\ UNCHANGED <<relay, reply, sent, got>>
    BY <1>0, <1>8 DEF Drop, Loop, Tick, vars, airVars, service
  <2>1. ASSUME NEW m \in Nodes, NEW q \in Air(m)' PROVE q \in Air(m)
    BY <2>0, <2>1 DEF Air
  <2>2. ASSUME NEW m \in Nodes PROVE ReplyInvAt(m)'
    BY <1>2, <2>0
  <2> QED
    BY <1>1, <2>0, <2>1, <2>2 DEF AirInv, ReplyInv, SentInv
<1> QED
  BY <1>3, <1>4, <1>5, <1>6, <1>7, <1>8 DEF Next, Sends

\* The time to live bounds the relays behind every packet (mesh.cpp:44-48).
THEOREM HopLimit == Spec => []HopsAccounted
<1>1. MeshInv => HopsAccounted
  <2> SUFFICES ASSUME AirInv, ReplyInv, NEW n \in Nodes,
                      NEW p \in {rx[n], relay[n], reply[n]} \ {Silence}
               PROVE  p.hops + p.ttl = DefaultTTL
    BY DEF MeshInv, HopsAccounted
  <2>1. CASE p \in Air(n)
    BY <2>1 DEF AirInv, Genuine
  <2>2. CASE p = reply[n]
    <3>1. PICK m \in sent : AnswerTo(n, m, p)
      BY <2>2 DEF ReplyInv, ReplyInvAt
    <3> QED
      BY <3>1 DEF AnswerTo
  <2> QED
    BY <2>1, <2>2 DEF Air
<1>2. TypeOK /\ MeshInv /\ [Next]_vars => (TypeOK /\ MeshInv)'
  BY NextType, NextAir
<1> QED
  BY <1>1, <1>2, InitType, InitAir, PTL DEF Spec

-----------------------------------------------------------------------------
(* Refinement *)

LEMMA InitService == Init => Service!Init
  BY DEF Init, Service!Init

LEMMA NextService ==
    ASSUME TypeOK, MeshInv, [Next]_vars
    PROVE  [Service!Next]_(Service!vars)
<1>0. /\ rx \in [Nodes -> Packet \cup {Silence}]
      /\ AirInv /\ ReplyInv /\ SentInv
  BY DEF TypeOK, MeshInv
<1>1. ASSUME NEW n \in Nodes, NEW heard \in SUBSET Nodes,
             NEW to \in Nodes \cup {All}, NEW id \in Ids, Post(n, to, id, heard)
      PROVE  Service!Next
  <2>1. [from |-> n, to |-> to, id |-> id] \in Service!Text
    BY DEF Service!Text
  <2>2. Service!Post([from |-> n, to |-> to, id |-> id])
    BY <1>1 DEF Post, Service!Post
  <2> QED
    BY <2>1, <2>2 DEF Service!Next
<1>2. ASSUME NEW n \in Nodes, Accept(n) PROVE [Service!Next]_(Service!vars)
  <2> DEFINE p == rx[n]
  <2>0. p \in Packet /\ Genuine(p)
    BY <1>0, <1>2 DEF Accept, Air, AirInv
  <2>1. CASE Readable(n, p) /\ Relayed(n, p) = Silence
    <3>1. TextOf(p) \in sent /\ TextOf(p) \in Service!Text
      BY <2>0, <2>1, PacketOps DEF Genuine, Readable, Text, Service!Text
    <3>2. TextOf(p).from # n /\ TextOf(p).to \in {n, All}
      BY <1>2, <2>1 DEF Accept, Ignored, TextOf, Readable, ForUs
    <3>3. got' = got \cup {<<n, TextOf(p)>>} /\ UNCHANGED <<sent, acked>>
      BY <1>2, <2>1 DEF Accept, Readable
    <3>4. Service!Deliver(n, TextOf(p))
      BY <3>1, <3>2, <3>3 DEF Service!Deliver
    <3> QED
      BY <3>1, <3>4 DEF Service!Next
  <2>2. CASE ForUs(n, p) /\ p.kind = "ack"
    <3>0. \A m \in sent : m.from \in Nodes
      BY DEF TypeOK, Text
    <3>1. p.to = n
      BY <2>0, <2>2, <3>0, MeshAssumption DEF Genuine, ForUs
    <3>2. PICK m \in sent : m.from = n /\ m.id = p.id /\ <<p.from, m>> \in got
      BY <2>0, <2>2, <3>1 DEF Genuine
    <3>3. {o \in sent : o.from = n /\ o.id = p.id} = {m}
      BY <1>0, <3>2 DEF SentInv
    <3>4. acked' = acked \cup {<<p.from, m>>} /\ UNCHANGED <<sent, got>>
      BY <1>2, <2>2, <3>3 DEF Accept, Readable
    <3>5. p.from \in Nodes /\ m \in Service!Text
      BY <2>0, <3>2 DEF Packet, TypeOK, Text, Service!Text
    <3>6. Service!Confirm(p.from, m)
      BY <3>2, <3>4 DEF Service!Confirm
    <3> QED
      BY <3>5, <3>6 DEF Service!Next
  <2>3. CASE ~(Readable(n, p) /\ Relayed(n, p) = Silence) /\ ~(ForUs(n, p) /\ p.kind = "ack")
    BY <1>2, <2>3 DEF Accept, Service!vars
  <2> QED
    BY <2>1, <2>2, <2>3
<1>3. ASSUME NEW n \in Nodes, NEW heard \in SUBSET Nodes, Relay(n, heard)
      PROVE  [Service!Next]_(Service!vars)
  <2>1. CASE reply[n] = Silence
    BY <1>3, <2>1 DEF Relay, Service!vars
  <2>2. CASE reply[n] # Silence
    <3>1. PICK m \in sent : TextOf(relay[n]) = m /\ m.from # n /\ m.to \in {n, All}
      BY <1>0, <1>3, <2>2 DEF Relay, ReplyInv, ReplyInvAt
    <3>2. got' = got \cup {<<n, m>>} /\ UNCHANGED <<sent, acked>>
      BY <1>3, <2>2, <3>1 DEF Relay
    <3>3. Service!Deliver(n, m)
      BY <3>1, <3>2 DEF Service!Deliver
    <3>4. m \in Service!Text
      BY DEF TypeOK, Text, Service!Text
    <3> QED
      BY <3>3, <3>4 DEF Service!Next
  <2> QED
    BY <2>1, <2>2
<1>4. CASE \/ \E n \in Nodes, heard \in SUBSET Nodes : Reply(n, heard)
           \/ \E n \in Nodes : Drop(n) \/ Loop(n) \/ Reboot(n)
           \/ Tick \/ UNCHANGED vars
  BY <1>4 DEF Reply, Drop, Loop, Reboot, Tick, vars, service, Service!vars
<1> QED
  BY <1>1, <1>2, <1>3, <1>4 DEF Next, Sends

\* Every network of devices implements MeshService, whatever is lost, repeated
\* or restarted (mesh.cpp:68-107, state_machine.cpp:71-142).
THEOREM MeshRefines == Spec => ImplementsService
<1>1. TypeOK /\ MeshInv /\ [Next]_vars => (TypeOK /\ MeshInv)'
  BY NextType, NextAir
<1>2. TypeOK /\ MeshInv /\ [Next]_vars => [Service!Next]_(Service!vars)
  BY NextService
<1> QED
  BY <1>1, <1>2, InitType, InitAir, InitService, PTL DEF Spec, ImplementsService, Service!Spec
-----------------------------------------------------------------------------
(* The deduplication window *)

\* The slot that holds k is as many slots behind the head, around the ring, as
\* dedup_add was called since.
Behind(h, i, c) == h = i + 1 + c \/ h = i + 1 + c - DedupSize

RingHolds(n, k) ==
    \E i \in Slots :
        /\ ring[n][i] = [from |-> k[1], id |-> k[2], at |-> seen[n][k].at]
        /\ Behind(head[n], i, seen[n][k].adds)

RingInvAt(n) ==
    \A k \in Keys : /\ seen[n][k].at <= now
                    /\ SeenRecently(n, k) => RingHolds(n, k)

RingInv == \A n \in Nodes : RingInvAt(n)

LEMMA ElapsedIs ==
    ASSUME TypeOK, NEW at \in Nat, at <= now, now - at < DedupTTL \/ at = now
    PROVE  Elapsed(at) = now - at
<1>1. now \in Nat /\ Wrap \in Nat \ {0} /\ DedupTTL \in Nat /\ DedupTTL < Wrap
  BY MeshAssumption DEF TypeOK
<1>2. now - at \in Nat /\ now - at < Wrap
  BY <1>1
<1> QED
  BY <1>1, <1>2, ModSmall DEF Elapsed

\* mesh::tick keeps what is recent.
LEMMA PurgeKeeps ==
    ASSUME TypeOK, NEW r, NEW i \in Slots, r[i].at \in Nat, r[i].at <= now,
           now - r[i].at < DedupTTL \/ r[i].at = now
    PROVE  Purged(r)[i] = r[i]
<1>1. Elapsed(r[i].at) = now - r[i].at
  BY ElapsedIs
<1>2. now \in Nat /\ DedupTTL \in Nat
  BY MeshAssumption DEF TypeOK
<1>3. ~(Elapsed(r[i].at) > DedupTTL)
  BY <1>1, <1>2
<1> QED
  BY <1>3 DEF Purged

\* The slot dedup_add overwrites is not one of the DedupSize - 1 behind it.
LEMMA HeadMoves ==
    ASSUME NEW h \in Slots, NEW i \in Slots, NEW c \in Nat, Behind(h, i, c),
           c + 1 < DedupSize
    PROVE  h # i /\ Behind(NextSlot(h), i, c + 1)
<1>1. DedupSize \in Nat \ {0} /\ h \in 0 .. DedupSize - 1 /\ i \in 0 .. DedupSize - 1
  BY MeshAssumption DEF Slots
<1>2. h # i
  BY <1>1 DEF Behind
<1>3. CASE h < DedupSize - 1
  <2>1. NextSlot(h) = h + 1
    BY <1>3, NextSlotIs
  <2> QED
    BY <1>1, <1>2, <2>1 DEF Behind
<1>4. CASE h = DedupSize - 1
  <2>1. NextSlot(h) = 0
    BY <1>4, NextSlotIs
  <2> QED
    BY <1>1, <1>2, <1>4, <2>1 DEF Behind
<1> QED
  BY <1>1, <1>2, <1>3, <1>4

LEMMA InitRing == Init => RingInv
  BY DEF Init, RingInv, RingInvAt, SeenRecently, Never

\* Time only makes entries older.
LEMMA RingStays ==
    ASSUME TypeOK, NEW n \in Nodes, RingInvAt(n), now' \in {now, now + 1},
           ring'[n] = ring[n], head'[n] = head[n], seen'[n] = seen[n]
    PROVE  RingInvAt(n)'
<1>1. now \in Nat /\ DedupTTL \in Nat /\ \A k \in Keys : seen[n][k].at \in Nat
  BY MeshAssumption DEF TypeOK, Seen
<1>2. \A k \in Keys : /\ seen'[n][k].at <= now'
                      /\ SeenRecently(n, k)' => SeenRecently(n, k)
  BY <1>1 DEF RingInvAt, SeenRecently
<1>3. \A k \in Keys : RingHolds(n, k) => RingHolds(n, k)'
  BY DEF RingHolds, Behind
<1> QED
  BY <1>2, <1>3 DEF RingInvAt

LEMMA RingEndLoop ==
    ASSUME TypeOK, NEW n \in Nodes, RingInvAt(n), NEW last, EndLoop(n, last), now' = now
    PROVE  RingInvAt(n)'
<1>1. ring'[n] = IF last THEN Purged(ring[n]) ELSE ring[n]
  BY DEF EndLoop, TypeOK
<1>2. UNCHANGED <<head, seen>>
  BY DEF EndLoop
<1>3. ASSUME NEW k \in Keys, SeenRecently(n, k) PROVE RingHolds(n, k)'
  <2>1. PICK i \in Slots :
             /\ ring[n][i] = [from |-> k[1], id |-> k[2], at |-> seen[n][k].at]
             /\ Behind(head[n], i, seen[n][k].adds)
    BY <1>3 DEF RingInvAt, RingHolds
  <2>2. /\ ring[n][i].at = seen[n][k].at /\ seen[n][k].at \in Nat
        /\ seen[n][k].at <= now /\ now - seen[n][k].at < DedupTTL
    BY <1>3, <2>1 DEF TypeOK, Seen, RingInvAt, SeenRecently
  <2>3. ring'[n][i] = ring[n][i]
    BY <1>1, <2>2, PurgeKeeps
  <2> QED
    BY <1>2, <2>1, <2>3 DEF RingHolds, Behind
<1>4. \A k \in Keys : SeenRecently(n, k)' => SeenRecently(n, k)
  BY <1>2 DEF SeenRecently
<1> QED
  BY <1>2, <1>3, <1>4 DEF RingInvAt

\* dedup_add, with what it makes of the other keys.
LEMMA RingRemember ==
    ASSUME TypeOK, NEW n \in Nodes, RingInvAt(n), NEW from \in Nodes, NEW id \in Ids,
           NEW last, Remember(n, from, id, last), now' = now
    PROVE  /\ \A k \in Keys : /\ seen'[n][k] = Aged(n)[k]
                              /\ SeenRecently(n, k)'
                              => RingHolds(n, k)'
           /\ \A k \in Keys : /\ k = <<from, id>>
                              /\ seen'[n][k] = [at |-> now, adds |-> 0]
                              => RingHolds(n, k)'
<1> DEFINE r == [ring[n] EXCEPT ![head[n]] = [from |-> from, id |-> id, at |-> now]]
<1>1. ring'[n] = (IF last THEN Purged(r) ELSE r) /\ head'[n] = NextSlot(head[n])
  BY DEF Remember, TypeOK
<1>2. /\ head[n] \in Slots /\ r[head[n]] = [from |-> from, id |-> id, at |-> now]
      /\ \A i \in Slots \ {head[n]} : r[i] = ring[n][i]
  BY DEF TypeOK
<1>3. now \in Nat /\ DedupSize \in Nat \ {0} /\ DedupTTL \in Nat
  BY MeshAssumption DEF TypeOK
<1> HIDE DEF r
<1>4. ASSUME NEW k \in Keys, seen'[n][k] = Aged(n)[k], SeenRecently(n, k)'
      PROVE  RingHolds(n, k)'
  <2>1. seen[n][k] \in Seen
    BY DEF TypeOK
  <2>2. /\ seen'[n][k].at = seen[n][k].at /\ seen'[n][k].adds = seen[n][k].adds + 1
        /\ seen[n][k].adds \in Nat /\ seen[n][k].adds + 1 < DedupSize
        /\ seen[n][k].at \in Nat
    BY <1>3, <1>4, <2>1 DEF Aged, Seen, SeenRecently
  <2>3. SeenRecently(n, k)
    BY <1>3, <1>4, <2>2 DEF SeenRecently
  <2>4. PICK i \in Slots :
             /\ ring[n][i] = [from |-> k[1], id |-> k[2], at |-> seen[n][k].at]
             /\ Behind(head[n], i, seen[n][k].adds)
    BY <2>3 DEF RingInvAt, RingHolds
  <2>5. head[n] # i /\ Behind(head'[n], i, seen'[n][k].adds)
    BY <1>1, <1>2, <2>2, <2>4, HeadMoves
  <2>6. /\ r[i] = ring[n][i] /\ r[i].at = seen[n][k].at
        /\ seen[n][k].at <= now /\ now - seen[n][k].at < DedupTTL
    BY <1>2, <2>3, <2>4, <2>5 DEF RingInvAt, SeenRecently
  <2>7. ring'[n][i] = ring[n][i]
    BY <1>1, <2>2, <2>6, PurgeKeeps
  <2> QED
    BY <2>2, <2>4, <2>5, <2>7 DEF RingHolds, Behind
<1>5. ASSUME NEW k \in Keys, k = <<from, id>>, seen'[n][k] = [at |-> now, adds |-> 0]
      PROVE  RingHolds(n, k)'
  <2>1. r[head[n]].at = now
    BY <1>2
  <2>2. ring'[n][head[n]] = [from |-> from, id |-> id, at |-> now]
    BY <1>1, <1>2, <1>3, <2>1, PurgeKeeps
  <2>3. Behind(NextSlot(head[n]), head[n], 0)
    BY <1>2, <1>3, NextSlotIs DEF Behind, Slots
  <2>4. seen'[n][k].at = now /\ seen'[n][k].adds = 0 /\ k[1] = from /\ k[2] = id
    BY <1>5
  <2> QED
    BY <1>1, <1>2, <2>2, <2>3, <2>4 DEF RingHolds, Behind
<1> QED
  BY <1>4, <1>5

LEMMA NextRing == TypeOK /\ RingInv /\ [Next]_vars => RingInv'
<1> SUFFICES ASSUME TypeOK, RingInv, [Next]_vars PROVE RingInv'
  OBVIOUS
<1>0. /\ now \in Nat /\ DedupSize \in Nat
      /\ \A n \in Nodes, k \in Keys : Aged(n)[k].at = seen[n][k].at /\ seen[n][k].at \in Nat
  BY MeshAssumption DEF TypeOK, Aged, Seen
<1>1. ASSUME NEW n \in Nodes, NEW heard \in SUBSET Nodes,
             \/ \E to \in Nodes \cup {All}, id \in Ids : Post(n, to, id, heard)
             \/ Reply(n, heard)
      PROVE  RingInv'
  <2>1. PICK id \in Ids, last \in BOOLEAN : Remember(n, n, id, last)
    BY <1>1 DEF Post, Reply, TypeOK, Packet
  <2>2. now' = now /\ seen' = [seen EXCEPT ![n] = Aged(n)]
    BY <1>1 DEF Post, Reply
  <2>3. RingInvAt(n)'
    <3>1. seen'[n] = Aged(n)
      BY <2>2 DEF TypeOK
    <3>2. \A k \in Keys : SeenRecently(n, k)' => RingHolds(n, k)'
      BY <2>1, <2>2, <3>1, RingRemember DEF RingInv
    <3> QED
      BY <1>0, <2>2, <3>1, <3>2 DEF RingInv, RingInvAt
  <2>4. ASSUME NEW m \in Nodes \ {n} PROVE RingInvAt(m)'
    <3>1. ring'[m] = ring[m] /\ head'[m] = head[m] /\ seen'[m] = seen[m]
      BY <2>1, <2>2 DEF Remember, TypeOK
    <3> QED
      BY <2>2, <3>1, RingStays DEF RingInv
  <2> QED
    BY <2>3, <2>4 DEF RingInv
<1>2. ASSUME NEW n \in Nodes, Accept(n) PROVE RingInv'
  <2> SUFFICES ASSUME NEW key, key = <<rx[n].from, rx[n].id>> PROVE RingInv'
    OBVIOUS
  <2>0. rx[n].from \in Nodes /\ rx[n].id \in Ids /\ key \in Keys
    BY <1>2 DEF Accept, TypeOK, Packet, Keys
  <2>1. PICK last : Remember(n, rx[n].from, rx[n].id, last)
    BY <1>2 DEF Accept
  <2>2. /\ now' = now
        /\ seen' = [seen EXCEPT ![n] = [Aged(n) EXCEPT ![key] = [at |-> now, adds |-> 0]]]
    BY <1>2 DEF Accept
  <2>3. /\ seen'[n][key] = [at |-> now, adds |-> 0]
        /\ \A k \in Keys \ {key} : seen'[n][k] = Aged(n)[k]
    BY <2>0, <2>2, AgedType DEF TypeOK
  <2>4. RingInvAt(n)'
    <3>1. \A k \in Keys : SeenRecently(n, k)' => RingHolds(n, k)'
      BY <2>0, <2>1, <2>2, <2>3, RingRemember DEF RingInv
    <3>2. \A k \in Keys : seen'[n][k].at <= now'
      BY <1>0, <2>2, <2>3 DEF RingInv, RingInvAt
    <3> QED
      BY <3>1, <3>2 DEF RingInvAt
  <2>5. ASSUME NEW m \in Nodes \ {n} PROVE RingInvAt(m)'
    <3>1. ring'[m] = ring[m] /\ head'[m] = head[m] /\ seen'[m] = seen[m]
      BY <2>1, <2>2 DEF Remember, TypeOK
    <3> QED
      BY <2>2, <3>1, RingStays DEF RingInv
  <2> QED
    BY <2>4, <2>5 DEF RingInv
<1>3. ASSUME NEW n \in Nodes,
             (\E heard \in SUBSET Nodes : Relay(n, heard)) \/ Drop(n) \/ Loop(n)
      PROVE  RingInv'
  <2>1. PICK last : EndLoop(n, last)
    BY <1>3 DEF Relay, Drop, Loop
  <2>2. now' = now
    BY <1>3 DEF Relay, Drop, Loop
  <2>3. RingInvAt(n)'
    BY <2>1, <2>2, RingEndLoop DEF RingInv
  <2>4. ASSUME NEW m \in Nodes \ {n} PROVE RingInvAt(m)'
    <3>1. ring'[m] = ring[m] /\ head'[m] = head[m] /\ seen'[m] = seen[m]
      BY <2>1 DEF EndLoop, TypeOK
    <3> QED
      BY <2>2, <3>1, RingStays DEF RingInv
  <2> QED
    BY <2>3, <2>4 DEF RingInv
<1>4. ASSUME NEW n \in Nodes, Reboot(n) PROVE RingInv'
  <2>1. \A k \in Keys : seen'[n][k] = Never
    BY <1>4 DEF Reboot, TypeOK
  <2>2. RingInvAt(n)'
    BY <1>0, <1>4, <2>1 DEF RingInvAt, SeenRecently, Never, Reboot
  <2>3. ASSUME NEW m \in Nodes \ {n} PROVE RingInvAt(m)'
    <3>1. /\ ring'[m] = ring[m] /\ head'[m] = head[m] /\ seen'[m] = seen[m]
          /\ now' = now
      BY <1>4 DEF Reboot, TypeOK
    <3> QED
      BY <3>1, RingStays DEF RingInv
  <2> QED
    BY <2>2, <2>3 DEF RingInv
<1>5. CASE Tick \/ UNCHANGED vars
  <2>1. UNCHANGED <<ring, head, seen>> /\ now' \in {now, now + 1}
    BY <1>5 DEF Tick, vars, dedupVars
  <2> QED
    BY <2>1, RingStays DEF RingInv
<1> QED
  BY <1>1, <1>2, <1>3, <1>4, <1>5 DEF Next, Sends

\* The ring never lets a packet through twice within MESH_DEDUP_TTL_MS unless
\* MESH_DEDUP_SIZE other entries came after it (mesh.cpp:23-41), for every size
\* of the ring and every lifetime short of the wrap of millis().
THEOREM DedupWindowHolds == Spec => DedupWindow
<1>1. ASSUME TypeOK, RingInv PROVE NoEarlyRepeat
  <2> SUFFICES ASSUME NEW n \in Nodes, Accept(n),
                      SeenRecently(n, <<rx[n].from, rx[n].id>>)
               PROVE  FALSE
    BY DEF NoEarlyRepeat
  <2> SUFFICES ASSUME NEW k, k = <<rx[n].from, rx[n].id>> PROVE FALSE
    OBVIOUS
  <2>1. k \in Keys
    BY <1>1 DEF Accept, TypeOK, Packet, Keys
  <2>2. PICK i \in Slots : ring[n][i] = [from |-> k[1], id |-> k[2], at |-> seen[n][k].at]
    BY <1>1, <2>1 DEF RingInv, RingInvAt, RingHolds
  <2>3. /\ seen[n][k].at \in Nat /\ seen[n][k].at <= now
        /\ now - seen[n][k].at < DedupTTL
    BY <1>1, <2>1 DEF TypeOK, Seen, RingInv, RingInvAt, SeenRecently
  <2>4. Elapsed(ring[n][i].at) < DedupTTL
    BY <1>1, <2>2, <2>3, ElapsedIs
  <2>5. Duplicate(n, rx[n])
    BY <2>2, <2>4 DEF Duplicate
  <2> QED
    BY <2>5 DEF Accept, Ignored
<1>2. TypeOK /\ RingInv /\ [Next]_vars => (TypeOK /\ RingInv)'
  BY NextType, NextRing
<1>3. TypeOK /\ RingInv /\ [Next]_vars => [NoEarlyRepeat]_vars
  BY <1>1
<1> QED
  BY <1>2, <1>3, InitType, InitRing, PTL DEF Spec, DedupWindow
=============================================================================
