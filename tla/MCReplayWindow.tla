--------------------------- MODULE MCReplayWindow ---------------------------
(***************************************************************************)
(* Small instances of ReplayWindow: short words and few sequence numbers,  *)
(* with the same proportions as the code (a window much smaller than half  *)
(* of the sequence space).                                                 *)
(***************************************************************************)
EXTENDS ReplayWindow

\* Any delay up to beyond the window, and any loss but the lengths between one
\* word and the window, where shiftWindow goes wrong.
SoundArrivals == (-(WindowSize + 1)..Word) \cup {WindowSize, WindowSize + 1}

\* The lengths that are left out above as well.
AllArrivals == -(WindowSize + 1)..(WindowSize + 1)
=============================================================================
