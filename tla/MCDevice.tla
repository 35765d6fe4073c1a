------------------------------ MODULE MCDevice ------------------------------
(* A small device for TLC: the peer a sends the texts. *)
EXTENDS Device

CONSTANT a

MCPeerOf == [t \in Texts |-> a]
=============================================================================
