------------------------ MODULE MCBeaconTransmitter -------------------------
(***************************************************************************)
(* A small instance of BeaconTransmitter: the window holds five intervals  *)
(* and the budget two or three frames.                                     *)
(***************************************************************************)
EXTENDS BeaconTransmitter
=============================================================================
