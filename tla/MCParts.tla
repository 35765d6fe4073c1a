------------------------------ MODULE MCParts ------------------------------
(* A small instance of Parts for TLC. *)
EXTENDS Parts

CONSTANTS j1, j2, j3, a, b, s1, s2, ip1

MCOwnerOf == (j1 :> a) @@ (j2 :> a) @@ (j3 :> a)
MCAnomaly == [window |-> 3, minute |-> 2, short |-> 1, perMinute |-> 2, perShort |-> 1,
              logins |-> 1, idle |-> 2]
MCBehavior == [needs |-> [regular |-> 2, uniform |-> 3, noPause |-> 3, night |-> 1, volume |-> 3],
               idle |-> 2]
MCCrypto == [window |-> 2, limit |-> 1, kept |-> 2, keys |-> 1, idle |-> 2]
MCPhantom == [window |-> 2, limit |-> 2, cadence |-> 2, idle |-> 2]
MCAddress == (a :> ip1) @@ (b :> ip1)
MCWindow == [socket |-> 2, session |-> 2, edge |-> 2]
MCLimit == [socket |-> 1, session |-> 1, edge |-> 1]
MCSocketUser == (s1 :> a) @@ (s2 :> a)
=============================================================================
