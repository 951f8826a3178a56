----------------------------- MODULE BridgeNode ------------------------------
(***************************************************************************)
(* Bridge nodes that hear each other (internal/lora/bridge.go), each with  *)
(* its zone manager.                                                       *)
(*                                                                         *)
(* In a node three goroutines share state: the scan loop of Run, the       *)
(* receiver that calls ProcessFrame for one frame after the other, and     *)
(* whoever tells the zone manager of peers.  The current frequency and the *)
(* stored list have locks for a single access, the zone manager has none;  *)
(* each of its fields is read in one step here.                            *)
(*                                                                         *)
(* setFrequency records the frequency and does not tune the radio, so      *)
(* copies go out where the node is and the bridges of one primary hear     *)
(* each other.  A copy in the air may be heard by each of them or lost,    *)
(* late and more than once.  Only beacons are forwarded, and what they say *)
(* is left out but for the TTL.                                            *)
(***************************************************************************)
EXTENDS ZoneManager

CONSTANTS
    Nodes,        \* bridge nodes
    Beacons,      \* beacons, each sent once by a node that is no bridge
    NoBeacon,     \* no beacon
    InitialTTL,   \* 2 in transmitBeacon
    MaxCount,     \* bound: peers counted on a frequency
    MaxRestarts   \* bound: daemon restarts

ASSUME BridgeAssumption ==
    /\ IsFiniteSet(Nodes)
    /\ NoBeacon \notin Beacons
    /\ InitialTTL \in Nat
    /\ MaxCount \in Nat
    /\ MaxRestarts \in Nat

VARIABLES
    zm,           \* the zone manager
    currentFreq,  \* BridgeNode.currentFreq
    bridgeFreqs,  \* BridgeNode.bridgeFreqs
    seenFrames,   \* the beacons added to the Bloom filter
    scan,         \* the scan loop: where it stands, and the list it goes by
    job,          \* the receiver: where it stands in which beacon
    air,          \* copies of beacons on the air
    sent,         \* history: what a node has sent to which frequency since its start
    twice,        \* history: a node has sent a beacon to a frequency twice
    entered,      \* history: how often bridging has begun since the start, up to twice
    scanned,      \* history: has the scan loop gone by the zone's list since?
    restarts

zoneVars == <<zm, entered, scanned>>
scanVars == <<bridgeFreqs, scan>>
jobVars  == <<seenFrames, job, air, sent, twice>>
vars == <<currentFreq, zoneVars, scanVars, jobVars, restarts>>

Copies == [beacon : Beacons, ttl : 0..InitialTTL, hops : Nat]

Targets == UNION {[places -> Frequencies] : places \in SUBSET (1..Cardinality(Frequencies))}

Jobs == [pc : {"idle", "forward", "retune", "send"}, beacon : Beacons \cup {NoBeacon},
         ttl : Nat, hops : Nat, todo : Targets, saved : Frequencies]
Scannings == [pc : {"waiting", "list", "cycle"}, list : Seq(Frequencies) \ {<<>>}]

NoJob == [pc |-> "idle", beacon |-> NoBeacon, ttl |-> 0, hops |-> 0, todo |-> <<>>, saved |-> Primary]
NoScan == [pc |-> "waiting", list |-> <<Primary>>]

TypeOK ==
    /\ zm \in [Nodes -> ZoneStates]
    /\ currentFreq \in [Nodes -> Frequencies]
    /\ bridgeFreqs \in [Nodes -> Lists]
    /\ seenFrames \in [Nodes -> SUBSET Beacons]
    /\ scan \in [Nodes -> Scannings]
    /\ job \in [Nodes -> Jobs]
    /\ air \subseteq Copies
    /\ sent \in [Nodes -> SUBSET (Beacons \X Frequencies)]
    /\ twice \in BOOLEAN
    /\ entered \in [Nodes -> 0..2]
    /\ scanned \in [Nodes -> BOOLEAN]
    /\ restarts \in Nat

Init ==
    /\ zm = [b \in Nodes |-> NewZoneManager]
    /\ currentFreq = [b \in Nodes |-> Primary]
    /\ bridgeFreqs = [b \in Nodes |-> <<>>]
    /\ seenFrames = [b \in Nodes |-> {}]
    /\ scan = [b \in Nodes |-> NoScan]
    /\ job = [b \in Nodes |-> NoJob]
    /\ air = [beacon : Beacons, ttl : {InitialTTL}, hops : {0}]
    /\ sent = [b \in Nodes |-> {}]
    /\ twice = FALSE
    /\ entered = [b \in Nodes |-> 0]
    /\ scanned = [b \in Nodes |-> FALSE]
    /\ restarts = 0

-----------------------------------------------------------------------------
(* The zone manager is told of peers *)

ZoneBecomes(b, zone) ==
    /\ zm' = [zm EXCEPT ![b] = zone]
    /\ LET begins == zone.isBridge /\ ~zm[b].isBridge
       IN  /\ entered' = [entered EXCEPT ![b] = IF begins /\ @ < 2 THEN @ + 1 ELSE @]
           /\ scanned' = [scanned EXCEPT ![b] = @ /\ ~begins]
    /\ UNCHANGED <<currentFreq, scanVars, jobVars, restarts>>

HearPeer(b, f) ==
    /\ zm[b].count[f] < MaxCount
    /\ \E zone \in UpdatePeerFrequency(zm[b], f) : ZoneBecomes(b, zone)

PeerTimesOut(b, f) ==
    /\ zm[b].count[f] > 0
    /\ \E zone \in RemovePeer(zm[b], f) : ZoneBecomes(b, zone)

-----------------------------------------------------------------------------
(* The scan loop *)

Scans(b, s) == scan' = [scan EXCEPT ![b] = s]

\* updateBridgeFrequencies finds the node not bridging; the stored list stays.
NotBridging(b) ==
    /\ scan[b].pc = "waiting"
    /\ ~zm[b].isBridge
    /\ Scans(b, [pc |-> "cycle", list |-> <<Primary>>])
    /\ UNCHANGED <<currentFreq, zoneVars, bridgeFreqs, jobVars, restarts>>

Bridging(b) ==
    /\ scan[b].pc = "waiting"
    /\ zm[b].isBridge
    /\ Scans(b, [scan[b] EXCEPT !.pc = "list"])
    /\ UNCHANGED <<currentFreq, zoneVars, bridgeFreqs, jobVars, restarts>>

\* Mutant: the stored list is replaced only when the new one is longer.
UpdateBridgeFrequenciesGrowing(b) ==
    LET list == IF zm[b].isBridge THEN zm[b].freqs ELSE <<>>
    IN  /\ scan[b].pc = "list"
        /\ Scans(b, [pc |-> "cycle", list |-> <<Primary>> \o list])
        /\ bridgeFreqs' = [bridgeFreqs EXCEPT ![b] = IF Len(list) > Len(@) THEN list ELSE @]
        /\ scanned' = [scanned EXCEPT ![b] = @ \/ zm[b].isBridge]
        /\ UNCHANGED <<currentFreq, zm, entered, jobVars, restarts>>

\* GetBridgeFrequencies looks again whether the node is bridging; the stored
\* list is replaced only by one of another length.
UpdateBridgeFrequencies(b) ==
    LET list == IF zm[b].isBridge THEN zm[b].freqs ELSE <<>>
    IN  /\ scan[b].pc = "list"
        /\ Scans(b, [pc |-> "cycle", list |-> <<Primary>> \o list])
        /\ bridgeFreqs' = [bridgeFreqs EXCEPT ![b] = IF Len(list) # Len(@) THEN list ELSE @]
        /\ scanned' = [scanned EXCEPT ![b] = @ \/ zm[b].isBridge]
        /\ UNCHANGED <<currentFreq, zm, entered, jobVars, restarts>>

\* The place of a frequency in the list, the first one if it is not there.
IndexOf(list, f) == IF f \in ToSet(list) THEN CHOOSE n \in DOMAIN list : list[n] = f ELSE 1

Following(list, f) == list[(IndexOf(list, f) % Len(list)) + 1]

\* Mutant: a list of one frequency leaves things as they are.
CycleFrequencyUnlessAlone(b) ==
    /\ scan[b].pc = "cycle"
    /\ currentFreq' = [currentFreq EXCEPT ![b] =
                         IF Len(scan[b].list) = 1 THEN @ ELSE Following(scan[b].list, @)]
    /\ Scans(b, NoScan)
    /\ UNCHANGED <<zoneVars, bridgeFreqs, jobVars, restarts>>

\* cycleFrequency goes on to the next frequency of the list.  Its read of the
\* current one, an access of its own, is one step with the write: what is set
\* in between is overwritten as well.
CycleFrequency(b) ==
    /\ scan[b].pc = "cycle"
    /\ currentFreq' = [currentFreq EXCEPT ![b] = Following(scan[b].list, @)]
    /\ Scans(b, NoScan)
    /\ UNCHANGED <<zoneVars, bridgeFreqs, jobVars, restarts>>

-----------------------------------------------------------------------------
(* The receiver *)

Becomes(b, j) == job' = [job EXCEPT ![b] = j]

\* Mutant: the beacon is not marked as seen.
ProcessFrameUnmarked(b, copy) ==
    /\ job[b].pc = "idle"
    /\ copy \in air
    /\ zm[b].isBridge
    /\ copy.beacon \notin seenFrames[b]
    /\ copy.ttl > 0
    /\ Becomes(b, [NoJob EXCEPT !.pc = "forward", !.beacon = copy.beacon, !.ttl = copy.ttl, !.hops = copy.hops])
    /\ UNCHANGED <<currentFreq, zoneVars, scanVars, seenFrames, air, sent, twice, restarts>>

\* ProcessFrame, of a beacon a bridge has to forward: it is not seen yet and has
\* hops left.  All others change nothing, nor does one the filter takes for seen
\* by mistake: that is a beacon this step is not taken for.
ProcessFrame(b, copy) ==
    /\ job[b].pc = "idle"
    /\ copy \in air
    /\ zm[b].isBridge
    /\ copy.beacon \notin seenFrames[b]
    /\ copy.ttl > 0
    /\ seenFrames' = [seenFrames EXCEPT ![b] = @ \cup {copy.beacon}]
    /\ Becomes(b, [NoJob EXCEPT !.pc = "forward", !.beacon = copy.beacon, !.ttl = copy.ttl, !.hops = copy.hops])
    /\ UNCHANGED <<currentFreq, zoneVars, scanVars, air, sent, twice, restarts>>

\* The frequencies to forward to, each at its place in the list.
TargetFreqs(b) ==
    LET list == <<Primary>> \o bridgeFreqs[b]
    IN  [n \in {m \in DOMAIN list : list[m] # currentFreq[b]} |-> list[n]]

\* forwardFrame up to its loop: the node may have stopped bridging meanwhile,
\* or not know another frequency.
ForwardFrame(b) ==
    /\ job[b].pc = "forward"
    /\ Becomes(b, IF ~zm[b].isBridge \/ TargetFreqs(b) = <<>> THEN NoJob
                  ELSE [job[b] EXCEPT !.pc = "retune", !.ttl = @ - 1, !.todo = TargetFreqs(b)])
    /\ UNCHANGED <<currentFreq, zoneVars, scanVars, seenFrames, air, sent, twice, restarts>>

First(n, numbers) == n \in numbers /\ \A m \in numbers : n <= m

\* forwardToFrequency up to the send, for the first frequency that is left.
Retune(b, n) ==
    /\ job[b].pc = "retune"
    /\ First(n, DOMAIN job[b].todo)
    /\ Becomes(b, [job[b] EXCEPT !.pc = "send", !.saved = currentFreq[b]])
    /\ currentFreq' = [currentFreq EXCEPT ![b] = job[b].todo[n]]
    /\ UNCHANGED <<zoneVars, scanVars, seenFrames, air, sent, twice, restarts>>

Copy(b) == [beacon |-> job[b].beacon, ttl |-> job[b].ttl, hops |-> job[b].hops + 1]

\* The rest of forwardToFrequency, whether the send succeeds or fails, after
\* which the copy may be on the air as well; and on to the next frequency.
Restore(b, n) ==
    /\ job[b].pc = "send"
    /\ First(n, DOMAIN job[b].todo)
    /\ air' = air \cup {Copy(b)}
    /\ currentFreq' = [currentFreq EXCEPT ![b] = job[b].saved]
    /\ Becomes(b, IF DOMAIN job[b].todo = {n} THEN NoJob
                  ELSE [job[b] EXCEPT !.pc = "retune", !.todo = Restrict(@, DOMAIN @ \ {n}), !.saved = Primary])
    /\ LET event == <<job[b].beacon, job[b].todo[n]>>
       IN  /\ sent' = [sent EXCEPT ![b] = @ \cup {event}]
           /\ twice' = (twice \/ event \in sent[b])
    /\ UNCHANGED <<zoneVars, scanVars, seenFrames, restarts>>

-----------------------------------------------------------------------------

\* The daemon is started anew, with nothing remembered.
Restart(b) ==
    /\ restarts < MaxRestarts
    /\ zm' = [zm EXCEPT ![b] = NewZoneManager]
    /\ currentFreq' = [currentFreq EXCEPT ![b] = Primary]
    /\ bridgeFreqs' = [bridgeFreqs EXCEPT ![b] = <<>>]
    /\ seenFrames' = [seenFrames EXCEPT ![b] = {}]
    /\ Scans(b, NoScan)
    /\ Becomes(b, NoJob)
    /\ sent' = [sent EXCEPT ![b] = {}]
    /\ entered' = [entered EXCEPT ![b] = 0]
    /\ scanned' = [scanned EXCEPT ![b] = FALSE]
    /\ restarts' = restarts + 1
    /\ UNCHANGED <<air, twice>>

ScanLoop(b) ==
    \/ NotBridging(b)
    \/ Bridging(b)
    \/ UpdateBridgeFrequencies(b)
    \/ CycleFrequency(b)

Forwarding(b) ==
    \/ ForwardFrame(b)
    \/ \E n \in DOMAIN job[b].todo : Retune(b, n) \/ Restore(b, n)

Next ==
    \E b \in Nodes :
        \/ \E f \in Frequencies : HearPeer(b, f) \/ PeerTimesOut(b, f)
        \/ ScanLoop(b)
        \/ \E copy \in air : ProcessFrame(b, copy)
        \/ Forwarding(b)
        \/ Restart(b)

Spec == Init /\ [][Next]_vars

\* The ticker of the scan loop and the radio keep going.  Nothing has to be
\* heard and no peer has to appear or leave.
Fairness == \A b \in Nodes : WF_vars(ScanLoop(b)) /\ WF_vars(Forwarding(b))

FairSpec == Spec /\ Fairness

-----------------------------------------------------------------------------
(* Properties *)

\* A beacon floods no further than its TTL and no node sends it to a frequency
\* twice between two starts, although all bridges of a primary hear each
\* other's copies; a restart makes a node forget what it has seen, and still no
\* copy takes more hops.
StormBounded == ~twice /\ \A copy \in air : copy.hops <= InitialTTL

\* While bridging goes on, the list frames are forwarded by is the one the zone
\* manager has made, once a scan has come by; but for a node that has bridged
\* before, a new list of the length of the old one is not taken.
StoredListIsZoneList ==
    \A b \in Nodes : zm[b].isBridge /\ scanned[b] =>
        \/ bridgeFreqs[b] = zm[b].freqs
        \/ entered[b] = 2 /\ Len(bridgeFreqs[b]) = Len(zm[b].freqs)

\* A node that has stopped bridging is back on its primary frequency in the end,
\* although a frame being forwarded puts back the frequency it has saved over
\* what the scan loop has set meanwhile.
HomeAgain == \A b \in Nodes : <>[](~ShouldBridge(zm[b])) => <>[](currentFreq[b] = Primary)

=============================================================================
