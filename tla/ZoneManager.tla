----------------------------- MODULE ZoneManager -----------------------------
(***************************************************************************)
(* What a node knows of the frequencies around it, and whether it bridges  *)
(* them (internal/lora/zoning.go).  The operators map one state of the     *)
(* zone manager to the next; the modules that use them hold the state.     *)
(* The statistics and the spreading factor read it only.                   *)
(***************************************************************************)
EXTENDS Naturals, SequencesExt

CONSTANTS
    Frequencies,  \* of the zone
    Primary,      \* the assigned one
    MinPeers,     \* peers needed for a decision: 10
    Share         \* one peer in Share, and more, must be elsewhere: 10

ASSUME ZoneAssumption ==
    /\ IsFiniteSet(Frequencies)
    /\ Primary \in Frequencies
    /\ MinPeers \in Nat \ {0}
    /\ Share \in Nat \ {0}

Others == Frequencies \ {Primary}

Lists == SetToAllKPermutations(Others)

ZoneStates == [count : [Frequencies -> Nat], isBridge : BOOLEAN, freqs : Lists]

NewZoneManager == [count |-> [f \in Frequencies |-> 0], isBridge |-> FALSE, freqs |-> <<>>]

PeersOn(zm, fs) == SumFunctionOnSet(zm.count, fs)
Heard(zm) == {f \in Others : zm.count[f] > 0}

\* More than a tenth of the peers, of enough peers, are on other frequencies.
ShouldBridge(zm) ==
    /\ PeersOn(zm, Frequencies) >= MinPeers
    /\ PeersOn(zm, Others) * Share > PeersOn(zm, Frequencies)

Enter(zm, list) == [zm EXCEPT !.isBridge = TRUE, !.freqs = list]
Exit(zm) == [zm EXCEPT !.isBridge = FALSE, !.freqs = <<>>]

\* updateBridgeStatus: the list is made when bridging begins, in the random
\* order of a Go map, and stays as it is.
UpdateBridgeStatus(zm) ==
    IF ShouldBridge(zm) /\ ~zm.isBridge
    THEN {Enter(zm, list) : list \in SetToSeqs(Heard(zm))}
    ELSE IF ~ShouldBridge(zm) /\ zm.isBridge THEN {Exit(zm)} ELSE {zm}

\* UpdatePeerFrequency: every beacon counts, whichever peer sent it.
UpdatePeerFrequency(zm, f) == UpdateBridgeStatus([zm EXCEPT !.count[f] = @ + 1])

\* RemovePeer
RemovePeer(zm, f) ==
    IF zm.count[f] > 0 THEN UpdateBridgeStatus([zm EXCEPT !.count[f] = @ - 1]) ELSE {zm}

=============================================================================
