------------------------------- MODULE MCMesh -------------------------------
(* Small networks of Mesh for TLC. *)
EXTENDS Mesh

CONSTANTS a, b, c

\* A line: a and c reach each other through b only.
MCLine == [n \in Nodes |-> IF n = b THEN {a, c} ELSE {b}]

\* All three have the same PIN.
MCNet == [n \in Nodes |-> 0]
=============================================================================
