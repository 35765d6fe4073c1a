---------------------------- MODULE MCMessageSend ----------------------------
(* Small instances of MessageSend for TLC. *)
EXTENDS MessageSend, TLC

CONSTANTS alice, bob, carol, a1, c1, k1

\* One socket per user.
MCUserOf == [s \in Sockets |-> IF s = a1 THEN alice ELSE carol]

\* Carol is in one of the two possible groups and an outsider to the other.
MCGroups == {{alice, bob}, {alice, carol}}
SendSymmetry == Permutations(Sends)

MCRequests == [socket : Sockets, conv : {k1}, nonce : Nonces]
=============================================================================
