---------------------------- MODULE MCAuthTokens ----------------------------
(* Small instances of AuthTokens for TLC. *)
EXTENDS AuthTokens, TLC

\* Pairs and activations are interchangeable.
AuthSymmetry == Permutations(Pairs) \cup Permutations(Calls)
=============================================================================
