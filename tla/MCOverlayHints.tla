--------------------------- MODULE MCOverlayHints ---------------------------
(***************************************************************************)
(* One plugin and another consumer, two nodes with the same address, and   *)
(* the removal of one of them.                                             *)
(***************************************************************************)
EXTENDS OverlayHints

CONSTANTS n1, n2, a1

MCHints == {[type |-> "PeerDiscovered", node |-> n1, addr |-> a1],
            [type |-> "PeerDiscovered", node |-> n2, addr |-> a1],
            [type |-> "RouteRemoved", node |-> n1, addr |-> NoAddr]}
=============================================================================
