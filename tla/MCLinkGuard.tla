---------------------------- MODULE MCLinkGuard ----------------------------
(* A small instance of LinkGuard for TLC. *)
EXTENDS LinkGuard

CONSTANTS u1, i1, i2

MCMembers == [c \in Convs |-> {u1}]

\* One link opened freely, one opened once, with a PIN and from two addresses.
MCOptions ==
    {[life |-> 1, maxViews |-> 3, pin |-> FALSE, once |-> FALSE, white |-> {}],
     [life |-> 2, maxViews |-> 2, pin |-> TRUE, once |-> TRUE, white |-> {i1, i2}]}

MCMaxLinks == [free |-> 1, secure |-> 2, fortress |-> -1]
MCDays == {0, 1}
=============================================================================
