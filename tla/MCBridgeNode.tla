---------------------------- MODULE MCBridgeNode -----------------------------
(***************************************************************************)
(* A small instance of BridgeNode.  One node is enough for what its        *)
(* goroutines do to each other; the copies it hears again, before and      *)
(* after a restart, are those other bridges would send.                    *)
(***************************************************************************)
EXTENDS BridgeNode
=============================================================================
