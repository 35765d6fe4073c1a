---------------------------- MODULE MeshService ----------------------------
(***************************************************************************)
(* What the radio mesh promises to the devices that use it: a text that    *)
(* arrives was sent, to this device or to all, and a confirmation comes    *)
(* from a device that has the text.  Nothing is promised to arrive, and a  *)
(* text may arrive more than once.                                         *)
(***************************************************************************)
CONSTANTS Nodes, All, Ids

VARIABLES
    sent,    \* texts sent: records of from, to, id
    got,     \* <<n, m>>: device n has read text m
    acked    \* <<n, m>>: the sender of m has n's confirmation

vars == <<sent, got, acked>>

Text == [from : Nodes, to : Nodes \cup {All}, id : Ids]

Init == sent = {} /\ got = {} /\ acked = {}

\* A message id is new.
Post(m) ==
    /\ \A o \in sent : o.id # m.id
    /\ sent' = sent \cup {m}
    /\ UNCHANGED <<got, acked>>

Deliver(n, m) ==
    /\ m \in sent
    /\ m.from # n
    /\ m.to \in {n, All}
    /\ got' = got \cup {<<n, m>>}
    /\ UNCHANGED <<sent, acked>>

Confirm(n, m) ==
    /\ <<n, m>> \in got
    /\ acked' = acked \cup {<<n, m>>}
    /\ UNCHANGED <<sent, got>>

Next ==
    \/ \E m \in Text : Post(m)
    \/ \E n \in Nodes, m \in Text : Deliver(n, m) \/ Confirm(n, m)

Spec == Init /\ [][Next]_vars
=============================================================================
