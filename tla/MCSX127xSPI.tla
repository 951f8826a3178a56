---------------------------- MODULE MCSX127xSPI -----------------------------
(***************************************************************************)
(* Two payloads to send and two frames to receive, of one and two bytes.   *)
(***************************************************************************)
EXTENDS SX127xSPI

CONSTANTS ping, join, beacon, hint

FrameLength == [f \in Frames |-> IF f \in {ping, beacon} THEN 1 ELSE 2]
=============================================================================
