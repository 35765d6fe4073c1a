---------------------------- MODULE LinkService ----------------------------
(***************************************************************************)
(* What the share links of agents/linkGuard.ts promise: a link opens its   *)
(* conversation at most as often as it was issued for, and once it is      *)
(* closed (by use, by its creator, by time or by the guard itself) it      *)
(* never opens again.                                                      *)
(***************************************************************************)
EXTENDS Naturals

CONSTANTS
    Tokens,
    Allowances   \* how often a link may be opened, at issue

VARIABLES
    issued,   \* links that were ever created
    left,     \* how often a link may still be opened
    opened    \* how often it was opened

vars == <<issued, left, opened>>

Init ==
    /\ issued = {}
    /\ left = [t \in Tokens |-> 0]
    /\ opened = [t \in Tokens |-> 0]

Issue(t, n) ==
    /\ t \notin issued
    /\ issued' = issued \cup {t}
    /\ left' = [left EXCEPT ![t] = n]
    /\ UNCHANGED opened

Open(t) ==
    /\ left[t] > 0
    /\ left' = [left EXCEPT ![t] = @ - 1]
    /\ opened' = [opened EXCEPT ![t] = @ + 1]
    /\ UNCHANGED issued

Close(S) ==
    /\ left' = [t \in Tokens |-> IF t \in S THEN 0 ELSE left[t]]
    /\ UNCHANGED <<issued, opened>>

Next ==
    \/ \E t \in Tokens : Open(t) \/ \E n \in Allowances : Issue(t, n)
    \/ \E S \in SUBSET Tokens : Close(S)

Spec == Init /\ [][Next]_vars
=============================================================================
