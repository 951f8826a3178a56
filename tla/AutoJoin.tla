------------------------------ MODULE AutoJoin ------------------------------
(***************************************************************************)
(* Joining a mesh over the radio: the state machine of                     *)
(* internal/autojoin/join.go on the nodes that join, and the answer of     *)
(* cmd/conspiracyd/frame_handler.go on the nodes that are members.         *)
(*                                                                         *)
(* The radio is a broadcast channel that loses frames and delivers them    *)
(* late.  Neither JOIN_REQ nor JOIN_ACK names the node it is for: any      *)
(* member that hears a request answers it, and any joiner that waits takes *)
(* any answer for its own.  A JOIN_ACK is known here by the member that    *)
(* sent it and the joiner that asked, which the frame itself does not say. *)
(*                                                                         *)
(* Simplifications: the strength of a beacon is arbitrary, so the          *)
(* strongest of the scanned peers may be any of them; a scan keeps a peer  *)
(* once; the answers of members differ only in the member and the status,  *)
(* which is not zero from Refusers.                                        *)
(***************************************************************************)
EXTENDS Naturals, FiniteSets

CONSTANTS
    Joiners,
    Peers,          \* members of meshes
    Kin,            \* those with the joiners' MESH_KEY
    Refusers,       \* external: members whose JOIN_ACK has a status not zero
    NoPeer,
    MaxAttempts,    \* maxAttempts
    MeshJoinFails,  \* may the 802.11s join fail?
    MaxInAir        \* bound: answers on their way to a joiner, the rest is lost

ASSUME JoinAssumption ==
    /\ Kin \subseteq Peers /\ Refusers \subseteq Peers
    /\ NoPeer \notin Peers
    /\ MaxAttempts \in Nat \ {0}
    /\ MeshJoinFails \in BOOLEAN
    /\ MaxInAir \in Nat \ {0}

VARIABLES
    state,         \* state
    busy,          \* the handler a step is in: "no", "scan", "send", "await"
    scannedPeers,  \* scannedPeers
    joinAttempts,  \* joinAttempts
    cancelled,     \* the context of Run
    running,       \* has Run not returned?
    mesh,          \* the member whose mesh was joined
    asking,        \* requests a member has heard and not handled
    air,           \* external: answers on their way to each joiner
    requests       \* history: calls of sendJoinRequest since the last scan

fsmVars == <<state, busy, scannedPeers, joinAttempts, running, mesh, requests>>
joinVars == <<fsmVars, cancelled, asking, air>>

JoinTypeOK ==
    /\ state \in [Joiners -> {"INIT", "SCANNING", "JOINING", "CONNECTED", "FAILED"}]
    /\ busy \in [Joiners -> {"no", "scan", "send", "await"}]
    /\ scannedPeers \in [Joiners -> SUBSET Kin]
    /\ joinAttempts \in [Joiners -> 0..MaxAttempts]
    /\ cancelled \in [Joiners -> BOOLEAN]
    /\ running \in [Joiners -> BOOLEAN]
    /\ mesh \in [Joiners -> Peers \cup {NoPeer}]
    /\ asking \in [Peers -> SUBSET Joiners]
    /\ air \in [Joiners -> SUBSET (Peers \X Joiners)]
    /\ requests \in [Joiners -> 0..MaxAttempts]

\* NewFSM.
JoinInit ==
    /\ state = [j \in Joiners |-> "INIT"]
    /\ busy = [j \in Joiners |-> "no"]
    /\ scannedPeers = [j \in Joiners |-> {}]
    /\ joinAttempts = [j \in Joiners |-> 0]
    /\ cancelled = [j \in Joiners |-> FALSE]
    /\ running = [j \in Joiners |-> TRUE]
    /\ mesh = [j \in Joiners |-> NoPeer]
    /\ asking = [p \in Peers |-> {}]
    /\ air = [j \in Joiners |-> {}]
    /\ requests = [j \in Joiners |-> 0]

\* executeStep calls a handler only before the context is done.
Step(j, s) == running[j] /\ busy[j] = "no" /\ state[j] = s /\ ~cancelled[j]

\* The handler j is in, and the state it belongs to.
In(j, handler) == running[j] /\ busy[j] = handler

-----------------------------------------------------------------------------
(* Scanning *)

HandleInit(j) ==
    /\ Step(j, "INIT")
    /\ state' = [state EXCEPT ![j] = "SCANNING"]
    /\ UNCHANGED <<busy, scannedPeers, joinAttempts, running, mesh, requests, cancelled, asking, air>>

HandleScanning(j) ==
    /\ Step(j, "SCANNING")
    /\ scannedPeers' = [scannedPeers EXCEPT ![j] = {}]
    /\ busy' = [busy EXCEPT ![j] = "scan"]
    /\ UNCHANGED <<state, joinAttempts, running, mesh, requests, cancelled, asking, air>>

\* receiveAndProcessBeacon: a beacon of another key does not decrypt.
AddScannedPeer(j, p) ==
    /\ In(j, "scan")
    /\ p \in Kin
    /\ scannedPeers' = [scannedPeers EXCEPT ![j] = @ \cup {p}]
    /\ UNCHANGED <<state, busy, joinAttempts, running, mesh, requests, cancelled, asking, air>>

\* The scan's time is up: without a peer it is repeated.  A cancellation during
\* the last reception is noticed only by the next step.
TransitionAfterScan(j) ==
    /\ In(j, "scan")
    /\ busy' = [busy EXCEPT ![j] = "no"]
    /\ IF scannedPeers[j] = {}
       THEN UNCHANGED <<state, joinAttempts, requests>>
       ELSE /\ state' = [state EXCEPT ![j] = "JOINING"]
            /\ joinAttempts' = [joinAttempts EXCEPT ![j] = 0]
            /\ requests' = [requests EXCEPT ![j] = 0]
    /\ UNCHANGED <<scannedPeers, running, mesh, cancelled, asking, air>>

-----------------------------------------------------------------------------
(* Joining *)

\* What handleJoinRequestFailure, handleJoinAckTimeout and a refusal have in
\* common.
AttemptFailed(j) ==
    /\ busy' = [busy EXCEPT ![j] = "no"]
    /\ joinAttempts' = [joinAttempts EXCEPT ![j] = @ + 1]
    /\ state' = [state EXCEPT ![j] = IF joinAttempts[j] + 1 >= MaxAttempts THEN "FAILED" ELSE @]
    /\ UNCHANGED <<scannedPeers, running, mesh>>

\* Without a peer to ask the machine gives up at once.
HandleJoining(j) ==
    /\ Step(j, "JOINING")
    /\ IF scannedPeers[j] = {}
       THEN state' = [state EXCEPT ![j] = "FAILED"] /\ UNCHANGED <<busy, requests>>
       ELSE /\ busy' = [busy EXCEPT ![j] = "send"]
            /\ requests' = [requests EXCEPT ![j] = @ + 1]
            /\ UNCHANGED state
    /\ UNCHANGED <<scannedPeers, joinAttempts, running, mesh, cancelled, asking, air>>

\* sendJoinRequest: any members may hear the request, of any mesh.
SendJoinRequest(j, heard) ==
    /\ In(j, "send")
    /\ busy' = [busy EXCEPT ![j] = "await"]
    /\ asking' = [p \in Peers |-> IF p \in heard THEN asking[p] \cup {j} ELSE asking[p]]
    /\ UNCHANGED <<state, scannedPeers, joinAttempts, running, mesh, requests, cancelled, air>>

\* No nonce, or the radio refuses the frame.
HandleJoinRequestFailure(j) ==
    /\ In(j, "send")
    /\ AttemptFailed(j)
    /\ UNCHANGED <<requests, cancelled, asking, air>>

\* Mutant: a timeout is not counted as an attempt.
HandleJoinAckTimeoutFree(j) ==
    /\ In(j, "await")
    /\ busy' = [busy EXCEPT ![j] = "no"]
    /\ UNCHANGED <<state, scannedPeers, joinAttempts, running, mesh, requests, cancelled, asking, air>>

\* awaitJoinAck gives up after 30 seconds, or because the context is done.
HandleJoinAckTimeout(j) ==
    /\ In(j, "await")
    /\ AttemptFailed(j)
    /\ UNCHANGED <<requests, cancelled, asking, air>>

\* awaitJoinAck takes the first JOIN_ACK it receives.
Takes(j, ack) ==
    /\ In(j, "await")
    /\ ack \in air[j]
    /\ air' = [air EXCEPT ![j] = @ \ {ack}]
    /\ UNCHANGED <<requests, cancelled, asking>>

Refused(j, ack) == Takes(j, ack) /\ ack[1] \in Refusers /\ AttemptFailed(j)

Joined(j, ack) ==
    /\ Takes(j, ack) /\ ack[1] \notin Refusers
    /\ busy' = [busy EXCEPT ![j] = "no"]
    /\ state' = [state EXCEPT ![j] = "CONNECTED"]
    /\ mesh' = [mesh EXCEPT ![j] = ack[1]]
    /\ UNCHANGED <<scannedPeers, joinAttempts, running>>

\* triggerMeshJoin fails: step, and with it Run, returns the error.
MeshJoinFailed(j, ack) ==
    /\ MeshJoinFails
    /\ Takes(j, ack) /\ ack[1] \notin Refusers
    /\ busy' = [busy EXCEPT ![j] = "no"]
    /\ running' = [running EXCEPT ![j] = FALSE]
    /\ UNCHANGED <<state, scannedPeers, joinAttempts, mesh>>

-----------------------------------------------------------------------------
(* Failure and the end *)

\* Mutant: giving up is final.
HandleFailedForever(j) == Step(j, "FAILED") /\ UNCHANGED joinVars

\* After the backoff of 60 * 2^joinAttempts seconds, at most 600.
HandleFailed(j) ==
    /\ Step(j, "FAILED")
    /\ state' = [state EXCEPT ![j] = "SCANNING"]
    /\ joinAttempts' = [joinAttempts EXCEPT ![j] = 0]
    /\ UNCHANGED <<busy, scannedPeers, running, mesh, requests, cancelled, asking, air>>

Cancel(j) ==
    /\ running[j] /\ ~cancelled[j]
    /\ cancelled' = [cancelled EXCEPT ![j] = TRUE]
    /\ UNCHANGED <<fsmVars, asking, air>>

\* Mutant: the wait in CONNECTED does not look at the context.
RunReturnsUnlessConnected(j) ==
    /\ running[j] /\ cancelled[j] /\ busy[j] \in {"no", "scan"} /\ state[j] # "CONNECTED"
    /\ running' = [running EXCEPT ![j] = FALSE]
    /\ busy' = [busy EXCEPT ![j] = "no"]
    /\ UNCHANGED <<state, scannedPeers, joinAttempts, mesh, requests, cancelled, asking, air>>

\* Every state returns the context's error before its next step; a scan and
\* the waits in handleConnected and handleFailed do at once.
RunReturns(j) ==
    /\ running[j] /\ cancelled[j] /\ busy[j] \in {"no", "scan"}
    /\ running' = [running EXCEPT ![j] = FALSE]
    /\ busy' = [busy EXCEPT ![j] = "no"]
    /\ UNCHANGED <<state, scannedPeers, joinAttempts, mesh, requests, cancelled, asking, air>>

-----------------------------------------------------------------------------
(* Members and the channel *)

\* handleJOIN_REQ answers every request it hears; the answer reaches whoever
\* hears it, and Send may fail, which is hears = {}.
HandleJoinReq(p, j, hears) ==
    /\ j \in asking[p]
    /\ \A k \in hears : Cardinality(air[k]) < MaxInAir
    /\ asking' = [asking EXCEPT ![p] = @ \ {j}]
    /\ air' = [k \in Joiners |-> IF k \in hears THEN air[k] \cup {<<p, j>>} ELSE air[k]]
    /\ UNCHANGED <<fsmVars, cancelled>>

\* A joiner that is not waiting for it passes over an answer.
PassOver(j, ack) ==
    /\ ack \in air[j] /\ busy[j] # "await"
    /\ air' = [air EXCEPT ![j] = @ \ {ack}]
    /\ UNCHANGED <<fsmVars, cancelled, asking>>

-----------------------------------------------------------------------------

Handler(j) ==
    \/ HandleInit(j) \/ HandleScanning(j) \/ TransitionAfterScan(j)
    \/ HandleJoining(j)
    \/ \E heard \in SUBSET Peers : SendJoinRequest(j, heard)
    \/ HandleJoinRequestFailure(j) \/ HandleJoinAckTimeout(j)
    \/ HandleFailed(j) \/ RunReturns(j)

Receives(j) ==
    \/ \E p \in Peers : AddScannedPeer(j, p)
    \/ \E ack \in air[j] : Refused(j, ack) \/ Joined(j, ack) \/ MeshJoinFailed(j, ack) \/ PassOver(j, ack)

JoinNext ==
    \/ \E j \in Joiners : Handler(j) \/ Receives(j) \/ Cancel(j)
    \/ \E p \in Peers, j \in Joiners, hears \in SUBSET Joiners : HandleJoinReq(p, j, hears)

JoinSpec == JoinInit /\ [][JoinNext]_joinVars

\* The machine always goes on: scans and waits have a deadline and the radio's
\* calls return.
Progress == \A j \in Joiners : WF_joinVars(Handler(j))

\* The channel loses frames but not all of them: a beacon, a request or an
\* answer of a member that accepts gets through if it is sent for ever.
Heard(j, p) == \E heard \in SUBSET Peers : p \in heard /\ SendJoinRequest(j, heard)
AnswersInTime(p, j) ==
    \E hears \in SUBSET Joiners : j \in hears /\ busy[j] = "await" /\ HandleJoinReq(p, j, hears)
TakesAcceptance(j) ==
    \E ack \in air[j] : Joined(j, ack) \/ MeshJoinFailed(j, ack)
FairChannel ==
    \A j \in Joiners :
        /\ SF_joinVars(\E p \in Kin : AddScannedPeer(j, p))
        /\ SF_joinVars(TakesAcceptance(j))
        /\ \A p \in Kin \ Refusers : SF_joinVars(Heard(j, p)) /\ SF_joinVars(AnswersInTime(p, j))

JoinFairSpec == JoinSpec /\ Progress /\ FairChannel

-----------------------------------------------------------------------------
(* Properties *)

\* A JOIN_REQ is sent only for a peer found by the last scan, and no more of
\* them than attempts are allowed before the next scan: a timeout, a refusal
\* and a failed transmission all count.
RequestsBounded ==
    \A j \in Joiners :
        /\ state[j] = "JOINING" => scannedPeers[j] # {}
        /\ state[j] = "JOINING" /\ running[j] =>
                requests[j] = joinAttempts[j] + (IF busy[j] = "no" THEN 0 ELSE 1)
        /\ requests[j] <= MaxAttempts

\* The machine gives up only after every allowed request, so that its backoff
\* is always the longest.
GivesUpLate ==
    \A j \in Joiners : state[j] = "FAILED" => requests[j] = MaxAttempts /\ joinAttempts[j] = MaxAttempts

\* With a member of the mesh that accepts, a joiner that scans, asks or has given
\* up for now ends up connected, unless its context is cancelled or the mesh join
\* fails.
EventuallyConnected ==
    \A j \in Joiners :
        state[j] \in {"SCANNING", "JOINING", "FAILED"} ~>
            (state[j] = "CONNECTED" \/ cancelled[j] \/ ~running[j])

\* Run returns after the cancellation of its context, in whatever state.
CancelEnds == \A j \in Joiners : cancelled[j] ~> ~running[j]

=============================================================================
