---------------------------- MODULE MCClientChat ----------------------------
(* Small instances of ClientChat for TLC. *)
EXTENDS ClientChat

MCConvOf == [m \in Msgs |-> CHOOSE c \in Convs : TRUE]
=============================================================================
