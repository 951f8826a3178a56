----------------------------- MODULE AntiReplay -----------------------------
(***************************************************************************)
(* What an anti-replay window promises, apart from how it is kept: for     *)
(* each peer it takes a frame that it has not taken before and that is not *)
(* too old for the newest it has taken, and it may forget a peer.  Frames  *)
(* are known by numbers that never wrap, and it remembers them all.        *)
(***************************************************************************)
EXTENDS Integers

CONSTANTS
    Peers,      \* senders
    Frames,     \* the numbers of their frames
    WindowSize  \* how far behind the newest a frame may come

VARIABLE accepted

Init == accepted = [p \in Peers |-> {}]

Take(p, n) ==
    /\ n \notin accepted[p]
    /\ \A m \in accepted[p] : n > m - WindowSize
    /\ accepted' = [accepted EXCEPT ![p] = @ \cup {n}]

Forget(gone) == accepted' = [p \in Peers |-> IF p \in gone THEN {} ELSE accepted[p]]

Next ==
    \/ \E p \in Peers, n \in Frames : Take(p, n)
    \/ \E gone \in SUBSET Peers : Forget(gone)

Spec == Init /\ [][Next]_accepted

=============================================================================
