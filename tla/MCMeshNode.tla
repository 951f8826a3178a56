----------------------------- MODULE MCMeshNode -----------------------------
(***************************************************************************)
(* Three parts of a mesh node side by side: a joiner near members of its   *)
(* mesh, one of which refuses, and one of another mesh; the beacon loop    *)
(* with a window of three intervals and a budget of one or two frames; and *)
(* the control of an originator table whose size jumps between the         *)
(* thresholds.                                                             *)
(*                                                                         *)
(* The parts share no state, and the goroutines they run in wait for       *)
(* nothing of each other: a behaviour of the node is an interleaving of    *)
(* one behaviour of each part, and what a part does is seen by letting it  *)
(* run while the others stand still.  Which part runs is chosen at the     *)
(* start, and only the part that runs is owed fairness.                    *)
(***************************************************************************)
EXTENDS AutoJoin, BeaconTransmitter, MeshControl

VARIABLE part  \* the part that runs

nodeVars == <<joinVars, beaconVars, meshVars, part>>

NodeInit == JoinInit /\ BeaconInit /\ Init /\ part \in {"join", "beacon", "control"}

JoinRuns == part = "join" /\ JoinNext /\ UNCHANGED <<beaconVars, meshVars, part>>
BeaconRuns == part = "beacon" /\ BeaconNext /\ UNCHANGED <<joinVars, meshVars, part>>
ControlRuns == part = "control" /\ Next /\ UNCHANGED <<joinVars, beaconVars, part>>

NodeNext == JoinRuns \/ BeaconRuns \/ ControlRuns

\* Progress and FairChannel, BeaconFairness, and the fairness of FairSpec.
JoinFair ==
    \A j \in Joiners :
        /\ WF_joinVars(part = "join" /\ Handler(j))
        /\ SF_joinVars(part = "join" /\ \E p \in Kin : AddScannedPeer(j, p))
        /\ SF_joinVars(part = "join" /\ TakesAcceptance(j))
        /\ \A p \in Kin \ Refusers :
            /\ SF_joinVars(part = "join" /\ Heard(j, p))
            /\ SF_joinVars(part = "join" /\ AnswersInTime(p, j))
BeaconFair == WF_beaconVars(part = "beacon" /\ Loop) /\ WF_beaconVars(part = "beacon" /\ Elapse)
ControlFair ==
    /\ WF_meshVars(part = "control" /\ Tick)
    /\ WF_meshVars(part = "control" /\ MonitorPeerCount)
    /\ WF_meshVars(part = "control" /\ Poll)

NodeSpec == NodeInit /\ [][NodeNext]_nodeVars /\ JoinFair /\ BeaconFair /\ ControlFair
=============================================================================
