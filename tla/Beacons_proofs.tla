--------------------------- MODULE Beacons_proofs ---------------------------
(***************************************************************************)
(* Proofs about beacons: the bridge nodes that pass them on, for any       *)
(* number of nodes, frequencies and beacons and any initial TTL, and the   *)
(* transmitter that sends them, for any window, budget, interval and       *)
(* lengths of a Send.                                                      *)
(***************************************************************************)
EXTENDS BridgeNode, BeaconTransmitter, FiniteSetTheorems, TLAPS

-----------------------------------------------------------------------------
(* Lists of frequencies *)

LEMMA ListFacts ==
    ASSUME NEW list \in Lists
    PROVE  /\ list \in Seq(Others)
           /\ \A m, n \in DOMAIN list : list[m] = list[n] => m = n
           /\ Len(list) < Cardinality(Frequencies)
<1>1. PICK s \in SUBSET Others : list \in SetToSeqs(s)
  BY DEF Lists, SetToAllKPermutations
<1>2. /\ IsFiniteSet(Others) /\ Cardinality(Others) = Cardinality(Frequencies) - 1
      /\ Cardinality(Frequencies) \in Nat
  BY ZoneAssumption, FS_RemoveElement, FS_CardinalityType DEF Others
<1>3. Cardinality(s) \in Nat /\ Cardinality(s) <= Cardinality(Others)
  BY <1>2, FS_Subset, FS_CardinalityType
<1>4. /\ list \in [1..Cardinality(s) -> s]
      /\ \A m, n \in 1..Cardinality(s) : m # n => list[m] # list[n]
  BY <1>1 DEF SetToSeqs
<1>5. list \in Seq(Others) /\ Len(list) = Cardinality(s) /\ DOMAIN list = 1..Cardinality(s)
  BY <1>3, <1>4
<1> QED
  BY <1>2, <1>3, <1>4, <1>5

LEMMA EmptyList == <<>> \in Lists
<1>1. <<>> \in SetToSeqs({})
  BY FS_EmptySet DEF SetToSeqs
<1> QED
  BY <1>1 DEF Lists, SetToAllKPermutations

LEMMA HeardLists ==
    ASSUME NEW zone \in ZoneStates
    PROVE  SetToSeqs(Heard(zone)) \subseteq Lists
  BY DEF Heard, Lists, SetToAllKPermutations

\* The primary frequency and a list of others has no frequency twice.
LEMMA ChainFacts ==
    ASSUME NEW list \in Lists
    PROVE  /\ <<Primary>> \o list \in Seq(Frequencies) \ {<<>>}
           /\ DOMAIN (<<Primary>> \o list) \subseteq 1..Cardinality(Frequencies)
           /\ \A m, n \in DOMAIN (<<Primary>> \o list) :
                  (<<Primary>> \o list)[m] = (<<Primary>> \o list)[n] => m = n
<1> DEFINE chain == <<Primary>> \o list
<1>1. /\ list \in Seq(Frequencies) /\ Len(list) \in Nat
      /\ \A n \in 1..Len(list) : list[n] \in Frequencies /\ list[n] # Primary
      /\ \A m, n \in 1..Len(list) : list[m] = list[n] => m = n
      /\ Len(list) < Cardinality(Frequencies)
  BY ListFacts DEF Others
<1>2. chain \in Seq(Frequencies) /\ Len(chain) = 1 + Len(list)
  BY <1>1, ZoneAssumption
<1>3. chain[1] = Primary /\ \A n \in 2..1 + Len(list) : chain[n] = list[n - 1]
  BY <1>1, ZoneAssumption
<1>4. Cardinality(Frequencies) \in Nat
  BY ZoneAssumption, FS_CardinalityType
<1>5. \A m, n \in DOMAIN chain : chain[m] = chain[n] => m = n
  <2> SUFFICES ASSUME NEW m \in 1..1 + Len(list), NEW n \in 1..1 + Len(list), chain[m] = chain[n]
               PROVE  m = n
    BY <1>2
  <2>1. CASE m = 1
    BY <2>1, <1>1, <1>3
  <2>2. CASE n = 1
    BY <2>2, <1>1, <1>3
  <2>3. CASE m # 1 /\ n # 1
    BY <2>3, <1>1, <1>3
  <2> QED
    BY <2>1, <2>2, <2>3
<1> QED
  BY <1>1, <1>2, <1>4, <1>5

LEMMA FollowingIsListed ==
    ASSUME NEW list \in Seq(Frequencies) \ {<<>>}, NEW f
    PROVE  Following(list, f) \in Frequencies
<1>1. Len(list) \in Nat \ {0} /\ DOMAIN list = 1..Len(list)
  OBVIOUS
<1>2. IndexOf(list, f) \in 1..Len(list)
  <2>1. CASE f \in ToSet(list)
    <3>1. \E n \in DOMAIN list : list[n] = f
      BY <2>1 DEF ToSet
    <3> QED
      BY <2>1, <3>1, <1>1 DEF IndexOf
  <2>2. CASE f \notin ToSet(list)
    BY <2>2, <1>1 DEF IndexOf
  <2> QED
    BY <2>1, <2>2
<1>3. (IndexOf(list, f) % Len(list)) + 1 \in 1..Len(list)
  BY <1>1, <1>2
<1> QED
  BY <1>1, <1>3 DEF Following

LEMMA TargetFacts ==
    ASSUME NEW b \in Nodes, bridgeFreqs[b] \in Lists
    PROVE  /\ TargetFreqs(b) \in Targets
           /\ \A m, n \in DOMAIN TargetFreqs(b) : TargetFreqs(b)[m] = TargetFreqs(b)[n] => m = n
<1> DEFINE chain == <<Primary>> \o bridgeFreqs[b]
           places == {m \in DOMAIN chain : chain[m] # currentFreq[b]}
<1>1. /\ chain \in Seq(Frequencies)
      /\ DOMAIN chain \subseteq 1..Cardinality(Frequencies)
      /\ \A m, n \in DOMAIN chain : chain[m] = chain[n] => m = n
  BY ChainFacts
<1>2. \A n \in DOMAIN chain : chain[n] \in Frequencies
  BY <1>1
<1> HIDE DEF chain
<1>3. TargetFreqs(b) = [n \in places |-> chain[n]]
  BY DEF TargetFreqs, chain
<1>4. places \in SUBSET (1..Cardinality(Frequencies)) /\ TargetFreqs(b) \in [places -> Frequencies]
  BY <1>1, <1>2, <1>3
<1>5. TargetFreqs(b) \in Targets
  BY <1>4 DEF Targets
<1> QED
  BY <1>1, <1>3, <1>5

LEMMA EmptyTargets == <<>> \in Targets
  BY DEF Targets

LEMMA TargetsLeft ==
    ASSUME NEW targets \in Targets, NEW n \in DOMAIN targets
    PROVE  /\ targets[n] \in Frequencies
           /\ Restrict(targets, DOMAIN targets \ {n}) \in Targets
<1>1. PICK places \in SUBSET (1..Cardinality(Frequencies)) : targets \in [places -> Frequencies]
  BY DEF Targets
<1>2. Restrict(targets, DOMAIN targets \ {n}) \in [places \ {n} -> Frequencies]
  BY <1>1 DEF Restrict
<1>3. places \ {n} \in SUBSET (1..Cardinality(Frequencies))
  OBVIOUS
<1> QED
  BY <1>1, <1>2, <1>3 DEF Targets

LEMMA FirstScan == NoScan \in Scannings
  BY ZoneAssumption DEF NoScan, Scannings

LEMMA FirstJob == NoJob \in Jobs
  BY EmptyTargets, ZoneAssumption DEF NoJob, Jobs

-----------------------------------------------------------------------------
(* The zone manager *)

\* The list stays as it is while bridging goes on.
LEMMA StatusFacts ==
    ASSUME NEW zone \in ZoneStates, NEW next \in UpdateBridgeStatus(zone)
    PROVE  /\ next \in ZoneStates
           /\ zone.isBridge /\ next.isBridge => next.freqs = zone.freqs
<1>1. CASE ShouldBridge(zone) /\ ~zone.isBridge
  <2>1. PICK list \in SetToSeqs(Heard(zone)) : next = Enter(zone, list)
    BY <1>1 DEF UpdateBridgeStatus
  <2>2. list \in Lists
    BY HeardLists
  <2> QED
    BY <1>1, <2>1, <2>2 DEF Enter, ZoneStates
<1>2. CASE ~ShouldBridge(zone) /\ zone.isBridge
  <2>1. next = Exit(zone)
    BY <1>2 DEF UpdateBridgeStatus
  <2> QED
    BY <2>1, EmptyList DEF Exit, ZoneStates
<1>3. CASE ShouldBridge(zone) <=> zone.isBridge
  BY <1>3 DEF UpdateBridgeStatus
<1> QED
  BY <1>1, <1>2, <1>3

LEMMA ZoneFacts ==
    ASSUME NEW zone \in ZoneStates, NEW f \in Frequencies,
           NEW next \in UpdatePeerFrequency(zone, f) \cup RemovePeer(zone, f)
    PROVE  /\ next \in ZoneStates
           /\ zone.isBridge /\ next.isBridge => next.freqs = zone.freqs
<1> DEFINE more == [zone EXCEPT !.count[f] = @ + 1]
           less == [zone EXCEPT !.count[f] = @ - 1]
<1>1. more \in ZoneStates /\ more.isBridge = zone.isBridge /\ more.freqs = zone.freqs
  BY DEF ZoneStates
<1>2. zone.count[f] > 0 =>
          less \in ZoneStates /\ less.isBridge = zone.isBridge /\ less.freqs = zone.freqs
  BY DEF ZoneStates
<1>3. CASE next \in UpdateBridgeStatus(more)
  <2> HIDE DEF more
  <2> QED
    BY <1>1, <1>3, StatusFacts
<1>4. CASE zone.count[f] > 0 /\ next \in UpdateBridgeStatus(less)
  <2> HIDE DEF less
  <2> QED
    BY <1>2, <1>4, StatusFacts
<1>5. CASE next = zone
  BY <1>5
<1> QED
  BY <1>3, <1>4, <1>5 DEF UpdatePeerFrequency, RemovePeer

\* What HearPeer and PeerTimesOut do.
LEMMA PeerStep ==
    ASSUME TypeOK, NEW b \in Nodes, NEW f \in Frequencies, HearPeer(b, f) \/ PeerTimesOut(b, f)
    PROVE  \E zone \in ZoneStates :
               /\ zm[b].isBridge /\ zone.isBridge => zone.freqs = zm[b].freqs
               /\ ZoneBecomes(b, zone)
<1>1. zm[b] \in ZoneStates
  BY DEF TypeOK
<1>2. PICK zone \in UpdatePeerFrequency(zm[b], f) \cup RemovePeer(zm[b], f) : ZoneBecomes(b, zone)
  BY DEF HearPeer, PeerTimesOut
<1>3. zone \in ZoneStates /\ (zm[b].isBridge /\ zone.isBridge => zone.freqs = zm[b].freqs)
  BY <1>1, ZoneFacts
<1> QED
  BY <1>2, <1>3

-----------------------------------------------------------------------------
(* Types *)

\* A copy that has gone some way has so much less to go, also while it is being
\* forwarded.
Going(j) ==
    /\ j.pc = "forward" =>
           /\ j.beacon \in Beacons
           /\ j.ttl > 0
           /\ j.ttl + j.hops = InitialTTL
    /\ j.pc \in {"retune", "send"} =>
           /\ j.beacon \in Beacons
           /\ j.ttl + j.hops + 1 = InitialTTL

FloodInv ==
    /\ \A copy \in air : copy.ttl + copy.hops = InitialTTL
    /\ \A b \in Nodes : Going(job[b])

LEMMA InitTypeOK == Init => TypeOK
<1> SUFFICES ASSUME Init PROVE TypeOK
  OBVIOUS
<1>1. NewZoneManager \in ZoneStates
  BY EmptyList DEF NewZoneManager, ZoneStates
<1>2. NoJob \in Jobs /\ NoScan \in Scannings
  BY FirstJob, FirstScan
<1>3. air \in SUBSET Copies
  BY BridgeAssumption DEF Init, Copies
<1>4. /\ zm \in [Nodes -> ZoneStates]
      /\ currentFreq \in [Nodes -> Frequencies]
      /\ bridgeFreqs \in [Nodes -> Lists]
  BY <1>1, EmptyList, ZoneAssumption DEF Init
<1>5. scan \in [Nodes -> Scannings] /\ job \in [Nodes -> Jobs]
  BY <1>2 DEF Init
<1>6. /\ seenFrames \in [Nodes -> SUBSET Beacons]
      /\ sent \in [Nodes -> SUBSET (Beacons \X Frequencies)]
      /\ entered \in [Nodes -> 0..2]
      /\ restarts \in Nat
  BY DEF Init
<1>7. twice \in BOOLEAN /\ scanned \in [Nodes -> BOOLEAN]
  BY Zenon DEF Init
<1> QED
  BY <1>3, <1>4, <1>5, <1>6, <1>7 DEF TypeOK

LEMMA TypeStep == TypeOK /\ FloodInv /\ [Next]_vars => TypeOK'
<1> SUFFICES ASSUME TypeOK, FloodInv, [Next]_vars
             PROVE  TypeOK'
  OBVIOUS
<1>1. CASE UNCHANGED vars
  BY <1>1 DEF vars, zoneVars, scanVars, jobVars, TypeOK
<1>2. ASSUME NEW b \in Nodes, NEW f \in Frequencies, HearPeer(b, f) \/ PeerTimesOut(b, f)
      PROVE  TypeOK'
  <2>1. PICK zone \in ZoneStates : ZoneBecomes(b, zone)
    BY <1>2, PeerStep
  <2>2. entered' \in [Nodes -> 0..2] /\ scanned' \in [Nodes -> BOOLEAN]
    <3>1. entered' \in [Nodes -> 0..2]
      BY <2>1 DEF ZoneBecomes, TypeOK
    <3>2. scanned' \in [Nodes -> BOOLEAN]
      BY <2>1, Zenon DEF ZoneBecomes, TypeOK
    <3> QED
      BY <3>1, <3>2
  <2>3. zm' \in [Nodes -> ZoneStates]
    BY <2>1 DEF ZoneBecomes, TypeOK
  <2> QED
    BY <2>1, <2>2, <2>3 DEF ZoneBecomes, scanVars, jobVars, TypeOK
<1>3. ASSUME NEW b \in Nodes, ScanLoop(b)
      PROVE  TypeOK'
  <2>1. NoScan \in Scannings /\ [pc |-> "cycle", list |-> <<Primary>>] \in Scannings
    BY ZoneAssumption DEF NoScan, Scannings
  <2>2. CASE NotBridging(b)
    BY <2>1, <2>2 DEF NotBridging, Scans, zoneVars, jobVars, TypeOK
  <2>3. CASE Bridging(b)
    BY <2>3 DEF Bridging, Scans, Scannings, zoneVars, jobVars, TypeOK
  <2>4. CASE UpdateBridgeFrequencies(b)
    <3> DEFINE list == IF zm[b].isBridge THEN zm[b].freqs ELSE <<>>
    <3>1. list \in Lists
      BY EmptyList DEF TypeOK, ZoneStates
    <3>2. [pc |-> "cycle", list |-> <<Primary>> \o list] \in Scannings
      BY <3>1, ChainFacts DEF Scannings
    <3>3. /\ scan' = [scan EXCEPT ![b] = [pc |-> "cycle", list |-> <<Primary>> \o list]]
          /\ bridgeFreqs' = [bridgeFreqs EXCEPT ![b] = IF Len(list) # Len(@) THEN list ELSE @]
          /\ scanned' = [scanned EXCEPT ![b] = @ \/ zm[b].isBridge]
          /\ UNCHANGED <<currentFreq, zm, entered, jobVars, restarts>>
      BY <2>4, Zenon DEF UpdateBridgeFrequencies, Scans
    <3> HIDE DEF list
    <3>4. scan' \in [Nodes -> Scannings] /\ bridgeFreqs' \in [Nodes -> Lists]
      BY <3>1, <3>2, <3>3 DEF TypeOK
    <3>5. scanned' \in [Nodes -> BOOLEAN]
      <4>1. (scanned[b] \/ zm[b].isBridge) \in BOOLEAN
        OBVIOUS
      <4> QED
        BY <3>3, <4>1, Zenon DEF TypeOK
    <3> QED
      BY <3>3, <3>4, <3>5 DEF jobVars, TypeOK
  <2>5. CASE CycleFrequency(b)
    <3>1. Following(scan[b].list, currentFreq[b]) \in Frequencies
      BY FollowingIsListed DEF TypeOK, Scannings
    <3> QED
      BY <2>1, <2>5, <3>1 DEF CycleFrequency, Scans, zoneVars, jobVars, TypeOK
  <2> QED
    BY <1>3, <2>2, <2>3, <2>4, <2>5 DEF ScanLoop
<1>4. NoJob \in Jobs
  BY FirstJob
<1>5. ASSUME NEW b \in Nodes, NEW copy \in air, ProcessFrame(b, copy)
      PROVE  TypeOK'
  <2>1. /\ copy.beacon \in Beacons /\ copy.ttl \in Nat /\ copy.hops \in Nat
    BY BridgeAssumption DEF TypeOK, Copies
  <2>2. [NoJob EXCEPT !.pc = "forward", !.beacon = copy.beacon, !.ttl = copy.ttl, !.hops = copy.hops] \in Jobs
    BY <1>4, <2>1 DEF Jobs
  <2> QED
    BY <1>5, <2>1, <2>2 DEF ProcessFrame, Becomes, zoneVars, scanVars, TypeOK
<1>6. ASSUME NEW b \in Nodes, ForwardFrame(b)
      PROVE  TypeOK'
  <2> DEFINE j == job[b]
             next == [j EXCEPT !.pc = "retune", !.ttl = @ - 1, !.todo = TargetFreqs(b)]
  <2>1. job[b].pc = "forward" /\ job[b] \in Jobs /\ job[b].ttl > 0
    BY <1>6 DEF ForwardFrame, TypeOK, FloodInv, Going, Jobs
  <2>2. TargetFreqs(b) \in Targets
    BY TargetFacts DEF TypeOK
  <2>3. next \in Jobs
    <3>1. j \in Jobs /\ j.ttl - 1 \in Nat
      BY <2>1 DEF Jobs
    <3> HIDE DEF j
    <3> QED
      BY <2>2, <3>1 DEF Jobs
  <2>4. job' = [job EXCEPT ![b] = NoJob] \/ job' = [job EXCEPT ![b] = next]
    BY <1>6 DEF ForwardFrame, Becomes
  <2>5. job' \in [Nodes -> Jobs]
    BY <1>4, <2>3, <2>4 DEF TypeOK
  <2> QED
    BY <1>6, <2>5 DEF ForwardFrame, zoneVars, scanVars, TypeOK
<1>7. ASSUME NEW b \in Nodes, NEW n \in DOMAIN job[b].todo, Retune(b, n)
      PROVE  TypeOK'
  <2>1. job[b] \in Jobs /\ job[b].todo[n] \in Frequencies /\ currentFreq[b] \in Frequencies
    BY TargetsLeft DEF TypeOK, Jobs
  <2>2. [job[b] EXCEPT !.pc = "send", !.saved = currentFreq[b]] \in Jobs
    BY <2>1 DEF Jobs
  <2> QED
    BY <1>7, <2>1, <2>2 DEF Retune, Becomes, zoneVars, scanVars, TypeOK
<1>8. ASSUME NEW b \in Nodes, NEW n \in DOMAIN job[b].todo, Restore(b, n)
      PROVE  TypeOK'
  <2> DEFINE rest == Restrict(job[b].todo, DOMAIN job[b].todo \ {n})
             next == [job[b] EXCEPT !.pc = "retune", !.todo = Restrict(@, DOMAIN @ \ {n}), !.saved = Primary]
             event == <<job[b].beacon, job[b].todo[n]>>
  <2>1. job[b] \in Jobs /\ job[b].todo[n] \in Frequencies /\ job[b].pc = "send"
    BY <1>8, TargetsLeft DEF Restore, TypeOK, Jobs
  <2>2. job[b].beacon \in Beacons /\ job[b].ttl \in 0..InitialTTL /\ job[b].hops \in Nat
    BY <2>1, BridgeAssumption DEF FloodInv, Going, Jobs
  <2>3. rest \in Targets
    BY <2>1, TargetsLeft DEF Jobs
  <2>4. next \in Jobs
    BY <2>1, <2>3, ZoneAssumption DEF Jobs
  <2>5. job' = [job EXCEPT ![b] = NoJob] \/ job' = [job EXCEPT ![b] = next]
    BY <1>8 DEF Restore, Becomes
  <2>6. job' \in [Nodes -> Jobs]
    <3> HIDE DEF next
    <3> QED
      BY <1>4, <2>4, <2>5 DEF TypeOK
  <2>7. Copy(b) \in Copies
    BY <2>2 DEF Copy, Copies
  <2>8. event \in Beacons \X Frequencies
    BY <2>1, <2>2
  <2>9. /\ air' = air \cup {Copy(b)}
        /\ currentFreq' = [currentFreq EXCEPT ![b] = job[b].saved]
        /\ sent' = [sent EXCEPT ![b] = @ \cup {event}]
        /\ UNCHANGED <<zoneVars, scanVars, seenFrames, restarts>>
    BY <1>8 DEF Restore
  <2>10. twice' \in BOOLEAN
    <3>1. twice' = (twice \/ event \in sent[b])
      BY <1>8 DEF Restore
    <3> QED
      BY <3>1, Zenon
  <2>11. sent' \in [Nodes -> SUBSET (Beacons \X Frequencies)]
    <3> HIDE DEF event
    <3> QED
      BY <2>8, <2>9 DEF TypeOK
  <2>12. currentFreq' \in [Nodes -> Frequencies] /\ air' \subseteq Copies
    BY <2>1, <2>7, <2>9 DEF TypeOK, Jobs
  <2> QED
    BY <2>6, <2>9, <2>10, <2>11, <2>12 DEF zoneVars, scanVars, TypeOK
<1>9. ASSUME NEW b \in Nodes, Restart(b)
      PROVE  TypeOK'
  <2>1. NewZoneManager \in ZoneStates
    BY EmptyList DEF NewZoneManager, ZoneStates
  <2>2. NoScan \in Scannings
    BY FirstScan
  <2> QED
    BY <1>4, <1>9, <2>1, <2>2, EmptyList, ZoneAssumption DEF Restart, Scans, Becomes, TypeOK
<1> QED
  BY <1>1, <1>2, <1>3, <1>5, <1>6, <1>7, <1>8, <1>9 DEF Next, Forwarding

LEMMA FloodStep == TypeOK /\ FloodInv /\ [Next]_vars => FloodInv'
<1> SUFFICES ASSUME TypeOK, FloodInv, [Next]_vars
             PROVE  FloodInv'
  OBVIOUS
<1>2. \A c \in Nodes : job[c] \in Jobs /\ Going(job[c])
  BY DEF TypeOK, FloodInv
<1>3. CASE UNCHANGED <<job, air>>
  BY <1>2, <1>3 DEF FloodInv
<1>4. Going(NoJob)
  BY DEF NoJob, Going
<1>5. ASSUME NEW c \in Nodes, NEW copy \in air, ProcessFrame(c, copy)
      PROVE  UNCHANGED air /\ \A b \in Nodes : Going(job'[b])
  <2> DEFINE next == [NoJob EXCEPT !.pc = "forward", !.beacon = copy.beacon, !.ttl = copy.ttl, !.hops = copy.hops]
  <2>1. copy.beacon \in Beacons /\ copy.ttl > 0 /\ copy.ttl + copy.hops = InitialTTL
    BY <1>5 DEF ProcessFrame, FloodInv, TypeOK, Copies
  <2>2. Going(next)
    BY <2>1 DEF NoJob, Going
  <2>3. job' = [job EXCEPT ![c] = next] /\ UNCHANGED air
    BY <1>5 DEF ProcessFrame, Becomes
  <2> HIDE DEF next
  <2>4. \A b \in Nodes : job'[b] \in {job[b], next}
    BY <2>3 DEF TypeOK
  <2> QED
    BY <1>2, <2>2, <2>3, <2>4
<1>6. ASSUME NEW c \in Nodes, ForwardFrame(c)
      PROVE  UNCHANGED air /\ \A b \in Nodes : Going(job'[b])
  <2> DEFINE j == job[c]
             next == [j EXCEPT !.pc = "retune", !.ttl = @ - 1, !.todo = TargetFreqs(c)]
  <2>1. j \in Jobs /\ Going(j) /\ j.pc = "forward"
    BY <1>2, <1>6 DEF ForwardFrame
  <2>2. Going(next)
    <3> HIDE DEF j
    <3> QED
      BY <2>1, BridgeAssumption DEF Jobs, Going
  <2>3. /\ job' = [job EXCEPT ![c] = NoJob] \/ job' = [job EXCEPT ![c] = next]
        /\ UNCHANGED air
    BY <1>6 DEF ForwardFrame, Becomes
  <2> HIDE DEF next
  <2>4. \A b \in Nodes : job'[b] \in {job[b], NoJob, next}
    BY <2>3 DEF TypeOK
  <2> QED
    BY <1>2, <1>4, <2>2, <2>3, <2>4
<1>7. ASSUME NEW c \in Nodes, NEW n \in DOMAIN job[c].todo, Retune(c, n)
      PROVE  UNCHANGED air /\ \A b \in Nodes : Going(job'[b])
  <2> DEFINE j == job[c]
             next == [j EXCEPT !.pc = "send", !.saved = currentFreq[c]]
  <2>1. j \in Jobs /\ Going(j) /\ j.pc = "retune"
    BY <1>2, <1>7 DEF Retune
  <2>2. Going(next)
    <3> HIDE DEF j
    <3> QED
      BY <2>1 DEF Jobs, Going
  <2>3. job' = [job EXCEPT ![c] = next] /\ UNCHANGED air
    BY <1>7 DEF Retune, Becomes
  <2> HIDE DEF next
  <2>4. \A b \in Nodes : job'[b] \in {job[b], next}
    BY <2>3 DEF TypeOK
  <2> QED
    BY <1>2, <2>2, <2>3, <2>4
<1>8. ASSUME NEW c \in Nodes, NEW n \in DOMAIN job[c].todo, Restore(c, n)
      PROVE  /\ \A copy \in air' : copy.ttl + copy.hops = InitialTTL
             /\ \A b \in Nodes : Going(job'[b])
  <2> DEFINE j == job[c]
             next == [j EXCEPT !.pc = "retune", !.todo = Restrict(@, DOMAIN @ \ {n}), !.saved = Primary]
  <2>1. j \in Jobs /\ Going(j) /\ j.pc = "send"
    BY <1>2, <1>8 DEF Restore
  <2>2. Going(next)
    <3> HIDE DEF j
    <3> QED
      BY <2>1 DEF Jobs, Going
  <2>3. /\ job' = [job EXCEPT ![c] = NoJob] \/ job' = [job EXCEPT ![c] = next]
        /\ air' = air \cup {Copy(c)}
    BY <1>8 DEF Restore, Becomes
  <2>4. Copy(c).ttl + Copy(c).hops = InitialTTL
    BY <2>1, BridgeAssumption DEF Copy, Jobs, Going
  <2> HIDE DEF next
  <2>5. \A b \in Nodes : job'[b] \in {job[b], NoJob, next}
    BY <2>3 DEF TypeOK
  <2> QED
    BY <1>2, <1>4, <2>2, <2>3, <2>4, <2>5 DEF FloodInv
<1>9. ASSUME NEW c \in Nodes, Restart(c)
      PROVE  UNCHANGED air /\ \A b \in Nodes : Going(job'[b])
  <2>1. UNCHANGED air /\ job' = [job EXCEPT ![c] = NoJob]
    BY <1>9 DEF Restart, Becomes
  <2>2. \A b \in Nodes : job'[b] \in {job[b], NoJob}
    BY <2>1 DEF TypeOK
  <2> QED
    BY <1>2, <1>4, <2>1, <2>2
<1>10. CASE UNCHANGED vars
  BY <1>3, <1>10 DEF vars, jobVars
<1>11. ASSUME NEW c \in Nodes, ScanLoop(c) \/ \E f \in Frequencies : HearPeer(c, f) \/ PeerTimesOut(c, f)
       PROVE  UNCHANGED <<job, air>>
  BY <1>11 DEF ScanLoop, NotBridging, Bridging, UpdateBridgeFrequencies, CycleFrequency,
               HearPeer, PeerTimesOut, ZoneBecomes, jobVars
<1> QED
  BY <1>3, <1>5, <1>6, <1>7, <1>8, <1>9, <1>10, <1>11 DEF Next, Forwarding, FloodInv

\* Every variable keeps its type (the state of BridgeNode and ZoneManager): the
\* lists hold no frequency twice and never the primary one.
THEOREM TypeCorrect == Spec => [](TypeOK /\ FloodInv)
<1>1. Init => FloodInv
  BY BridgeAssumption DEF Init, FloodInv, NoJob, Going
<1> QED
  BY <1>1, InitTypeOK, TypeStep, FloodStep, PTL DEF Spec

-----------------------------------------------------------------------------
(* Nothing is sent twice *)

\* What a node has sent is marked as seen, and what it has still to send, in
\* the job j, it has not sent.
Unsent(j, seen, events) ==
    /\ \A event \in events : event[1] \in seen
    /\ j.pc # "idle" => j.beacon \in seen
    /\ j.pc = "forward" => \A event \in events : event[1] # j.beacon
    /\ j.pc \in {"retune", "send"} =>
           /\ \A m, n \in DOMAIN j.todo : j.todo[m] = j.todo[n] => m = n
           /\ \A n \in DOMAIN j.todo : <<j.beacon, j.todo[n]>> \notin events

OnceInv == ~twice /\ \A b \in Nodes : Unsent(job[b], seenFrames[b], sent[b])

LEMMA OnceStep == TypeOK /\ OnceInv /\ [Next]_vars => OnceInv'
<1> SUFFICES ASSUME TypeOK, OnceInv, [Next]_vars
             PROVE  OnceInv'
  OBVIOUS
<1>1. \A b \in Nodes : job[b] \in Jobs /\ Unsent(job[b], seenFrames[b], sent[b])
  BY DEF TypeOK, OnceInv
<1>2. CASE UNCHANGED <<job, seenFrames, sent, twice>>
  BY <1>2 DEF OnceInv
<1>3. ASSUME NEW b \in Nodes, NEW copy \in air, ProcessFrame(b, copy)
      PROVE  OnceInv'
  <2> DEFINE next == [NoJob EXCEPT !.pc = "forward", !.beacon = copy.beacon, !.ttl = copy.ttl, !.hops = copy.hops]
             seen == seenFrames[b] \cup {copy.beacon}
  <2>1. /\ job' = [job EXCEPT ![b] = next]
        /\ seenFrames' = [seenFrames EXCEPT ![b] = seen]
        /\ UNCHANGED <<sent, twice>>
        /\ copy.beacon \notin seenFrames[b]
    BY <1>3 DEF ProcessFrame, Becomes
  <2>2. Unsent(next, seen, sent[b])
    BY <1>1, <2>1 DEF Unsent, NoJob
  <2> HIDE DEF next, seen
  <2>3. \A c \in Nodes : \/ c = b /\ job'[c] = next /\ seenFrames'[c] = seen /\ sent'[c] = sent[b]
                         \/ job'[c] = job[c] /\ seenFrames'[c] = seenFrames[c] /\ sent'[c] = sent[c]
    BY <2>1 DEF TypeOK
  <2> QED
    BY <1>1, <2>1, <2>2, <2>3 DEF OnceInv
<1>4. ASSUME NEW b \in Nodes, ForwardFrame(b)
      PROVE  OnceInv'
  <2> DEFINE j == job[b]
             next == [j EXCEPT !.pc = "retune", !.ttl = @ - 1, !.todo = TargetFreqs(b)]
  <2>1. /\ job' = [job EXCEPT ![b] = NoJob] \/ job' = [job EXCEPT ![b] = next]
        /\ UNCHANGED <<seenFrames, sent, twice>>
        /\ j.pc = "forward"
    BY <1>4 DEF ForwardFrame, Becomes
  <2>2. Unsent(NoJob, seenFrames[b], sent[b])
    BY <1>1 DEF Unsent, NoJob
  <2>3. \A m, n \in DOMAIN TargetFreqs(b) : TargetFreqs(b)[m] = TargetFreqs(b)[n] => m = n
    BY TargetFacts DEF TypeOK
  <2>4. j \in Jobs /\ Unsent(j, seenFrames[b], sent[b])
    BY <1>1
  <2>5. Unsent(next, seenFrames[b], sent[b])
    <3> HIDE DEF j
    <3>1. next.pc = "retune" /\ next.beacon = j.beacon /\ next.todo = TargetFreqs(b)
      BY <2>4 DEF Jobs
    <3> HIDE DEF next
    <3> QED
      BY <2>1, <2>3, <2>4, <3>1 DEF Unsent
  <2> HIDE DEF next
  <2>6. \A c \in Nodes : job'[c] = job[c] \/ (c = b /\ job'[c] \in {NoJob, next})
    BY <2>1 DEF TypeOK
  <2> QED
    BY <1>1, <2>1, <2>2, <2>5, <2>6 DEF OnceInv
<1>5. ASSUME NEW b \in Nodes, NEW n \in DOMAIN job[b].todo, Retune(b, n)
      PROVE  OnceInv'
  <2> DEFINE j == job[b]
             next == [j EXCEPT !.pc = "send", !.saved = currentFreq[b]]
  <2>1. /\ job' = [job EXCEPT ![b] = next]
        /\ UNCHANGED <<seenFrames, sent, twice>>
        /\ j.pc = "retune"
    BY <1>5 DEF Retune, Becomes
  <2>2. j \in Jobs /\ Unsent(j, seenFrames[b], sent[b])
    BY <1>1
  <2>3. Unsent(next, seenFrames[b], sent[b])
    <3> HIDE DEF j
    <3>1. next.pc = "send" /\ next.beacon = j.beacon /\ next.todo = j.todo
      BY <2>2 DEF Jobs
    <3> HIDE DEF next
    <3> QED
      BY <2>1, <2>2, <3>1 DEF Unsent
  <2> HIDE DEF next
  <2>4. \A c \in Nodes : job'[c] = job[c] \/ (c = b /\ job'[c] = next)
    BY <2>1 DEF TypeOK
  <2> QED
    BY <1>1, <2>1, <2>3, <2>4 DEF OnceInv
<1>6. ASSUME NEW b \in Nodes, NEW n \in DOMAIN job[b].todo, Restore(b, n)
      PROVE  OnceInv'
  <2> DEFINE j == job[b]
             next == [j EXCEPT !.pc = "retune", !.todo = Restrict(@, DOMAIN @ \ {n}), !.saved = Primary]
             event == <<j.beacon, j.todo[n]>>
             events == sent[b] \cup {event}
  <2>1. /\ job' = [job EXCEPT ![b] = NoJob] \/ job' = [job EXCEPT ![b] = next]
        /\ sent' = [sent EXCEPT ![b] = events]
        /\ twice' = (twice \/ event \in sent[b])
        /\ UNCHANGED seenFrames
        /\ j.pc = "send"
    BY <1>6, Zenon DEF Restore, Becomes
  <2>2. j \in Jobs /\ Unsent(j, seenFrames[b], sent[b])
    BY <1>1
  <2>3. event \notin sent[b]
    BY <2>1, <2>2 DEF Unsent
  <2>4. Unsent(NoJob, seenFrames[b], events) /\ Unsent(next, seenFrames[b], events)
    <3>1. n \in DOMAIN j.todo
      OBVIOUS
    <3> HIDE DEF j
    <3>2. \A e \in events : e[1] \in seenFrames[b]
      BY <2>1, <2>2 DEF Unsent
    <3>3. /\ next.pc = "retune" /\ next.beacon = j.beacon
          /\ next.todo = [m \in DOMAIN j.todo \ {n} |-> j.todo[m]]
      BY <2>2 DEF Jobs, Restrict
    <3>4. DOMAIN next.todo = DOMAIN j.todo \ {n} /\ \A m \in DOMAIN next.todo : next.todo[m] = j.todo[m]
      BY <3>3
    <3>5. /\ \A m, k \in DOMAIN j.todo : j.todo[m] = j.todo[k] => m = k
          /\ \A m \in DOMAIN j.todo : <<j.beacon, j.todo[m]>> \notin sent[b]
          /\ j.beacon \in seenFrames[b]
      BY <2>1, <2>2 DEF Unsent
    <3> HIDE DEF next
    <3>6. \A m \in DOMAIN next.todo : <<next.beacon, next.todo[m]>> \notin events
      BY <3>1, <3>3, <3>4, <3>5
    <3> HIDE DEF events
    <3> QED
      BY <3>2, <3>3, <3>4, <3>5, <3>6 DEF Unsent, NoJob
  <2>5. ~twice'
    BY <2>1, <2>3 DEF OnceInv
  <2> HIDE DEF next, events
  <2>6. \A c \in Nodes : \/ c = b /\ job'[c] \in {NoJob, next} /\ sent'[c] = events
                         \/ job'[c] = job[c] /\ sent'[c] = sent[c]
    BY <2>1 DEF TypeOK
  <2> QED
    BY <1>1, <2>1, <2>4, <2>5, <2>6 DEF OnceInv
<1>7. ASSUME NEW b \in Nodes, Restart(b)
      PROVE  OnceInv'
  <2>1. /\ job' = [job EXCEPT ![b] = NoJob]
        /\ seenFrames' = [seenFrames EXCEPT ![b] = {}]
        /\ sent' = [sent EXCEPT ![b] = {}]
        /\ UNCHANGED twice
    BY <1>7 DEF Restart, Becomes
  <2>2. Unsent(NoJob, {}, {})
    BY DEF Unsent, NoJob
  <2>3. \A c \in Nodes : \/ job'[c] = NoJob /\ seenFrames'[c] = {} /\ sent'[c] = {}
                         \/ job'[c] = job[c] /\ seenFrames'[c] = seenFrames[c] /\ sent'[c] = sent[c]
    BY <2>1 DEF TypeOK
  <2> QED
    BY <1>1, <2>1, <2>2, <2>3 DEF OnceInv
<1>8. CASE UNCHANGED vars
  BY <1>2, <1>8 DEF vars, jobVars
<1>9. ASSUME NEW b \in Nodes, ScanLoop(b) \/ \E f \in Frequencies : HearPeer(b, f) \/ PeerTimesOut(b, f)
      PROVE  UNCHANGED <<job, seenFrames, sent, twice>>
  BY <1>9 DEF ScanLoop, NotBridging, Bridging, UpdateBridgeFrequencies, CycleFrequency,
              HearPeer, PeerTimesOut, ZoneBecomes, jobVars
<1> QED
  BY <1>2, <1>3, <1>4, <1>5, <1>6, <1>7, <1>8, <1>9 DEF Next, Forwarding

\* A beacon takes no more hops than its TTL allows and no node sends it to a
\* frequency twice between two starts (ProcessFrame, forwardFrame), for any
\* number of bridges that hear each other late, out of order and repeatedly.
THEOREM FloodEnds == Spec => []StormBounded
<1>1. Init => OnceInv
  BY DEF Init, OnceInv, Unsent, NoJob
<1>2. TypeOK /\ FloodInv /\ OnceInv => StormBounded
  <2> SUFFICES ASSUME TypeOK, FloodInv, OnceInv
               PROVE  \A copy \in air : copy.hops <= InitialTTL
    BY DEF StormBounded, OnceInv
  <2> QED
    BY BridgeAssumption DEF TypeOK, FloodInv, Copies
<1> QED
  BY <1>1, <1>2, TypeCorrect, OnceStep, PTL DEF Spec

-----------------------------------------------------------------------------
(* The stored list *)

\* The first time a node bridges it has nothing stored, or the list of that
\* time, whatever the scan loop is about to do.
ListsInv ==
    \A b \in Nodes :
        /\ entered[b] = 0 => ~zm[b].isBridge /\ bridgeFreqs[b] = <<>>
        /\ entered[b] = 1 /\ zm[b].isBridge => bridgeFreqs[b] \in {<<>>, zm[b].freqs}

ListInv == ListsInv /\ StoredListIsZoneList

LEMMA ListStep == TypeOK /\ ListInv /\ [Next]_vars => ListInv'
<1> SUFFICES ASSUME TypeOK, ListInv, [Next]_vars
             PROVE  ListInv'
  OBVIOUS
<1> USE DEF ListInv, ListsInv, StoredListIsZoneList
<1>1. CASE UNCHANGED <<zm, bridgeFreqs, entered, scanned>>
  BY <1>1
<1>2. ASSUME NEW b \in Nodes, NEW f \in Frequencies, HearPeer(b, f) \/ PeerTimesOut(b, f)
      PROVE  ListInv'
  <2>1. PICK zone \in ZoneStates :
            /\ zm[b].isBridge /\ zone.isBridge => zone.freqs = zm[b].freqs
            /\ ZoneBecomes(b, zone)
    BY <1>2, PeerStep
  <2> DEFINE begins == zone.isBridge /\ ~zm[b].isBridge
  <2>2. /\ zm' = [zm EXCEPT ![b] = zone]
        /\ entered' = [entered EXCEPT ![b] = IF begins /\ @ < 2 THEN @ + 1 ELSE @]
        /\ scanned' = [scanned EXCEPT ![b] = @ /\ ~begins]
        /\ UNCHANGED bridgeFreqs
    BY <2>1, Zenon DEF ZoneBecomes, scanVars
  <2>3. \A c \in Nodes \ {b} : zm'[c] = zm[c] /\ entered'[c] = entered[c] /\ scanned'[c] = scanned[c]
    BY <2>2 DEF TypeOK
  <2>4. zm'[b] = zone /\ (scanned'[b] <=> scanned[b] /\ ~begins)
    BY <2>2, Zenon DEF TypeOK
  <2>5. entered'[b] = IF begins /\ entered[b] < 2 THEN entered[b] + 1 ELSE entered[b]
    BY <2>2 DEF TypeOK
  <2>6. entered[b] \in 0..2
    BY DEF TypeOK
  <2> QED
    BY <2>1, <2>2, <2>3, <2>4, <2>5, <2>6
<1>3. ASSUME NEW b \in Nodes, UpdateBridgeFrequencies(b)
      PROVE  ListInv'
  <2> DEFINE list == IF zm[b].isBridge THEN zm[b].freqs ELSE <<>>
  <2>1. /\ bridgeFreqs' = [bridgeFreqs EXCEPT ![b] = IF Len(list) # Len(@) THEN list ELSE @]
        /\ scanned' = [scanned EXCEPT ![b] = @ \/ zm[b].isBridge]
        /\ UNCHANGED <<zm, entered>>
    BY <1>3, Zenon DEF UpdateBridgeFrequencies
  <2>2. \A c \in Nodes \ {b} : bridgeFreqs'[c] = bridgeFreqs[c] /\ scanned'[c] = scanned[c]
    BY <2>1 DEF TypeOK
  <2>3. /\ bridgeFreqs'[b] = IF Len(list) # Len(bridgeFreqs[b]) THEN list ELSE bridgeFreqs[b]
        /\ entered[b] \in 0..2
    BY <2>1 DEF TypeOK
  <2>4. list \in Seq(Others) /\ bridgeFreqs[b] \in Seq(Others)
    BY ListFacts, EmptyList DEF TypeOK, ZoneStates
  <2>5. CASE zm[b].isBridge
    BY <2>1, <2>2, <2>3, <2>4, <2>5
  <2>6. CASE ~zm[b].isBridge
    BY <2>1, <2>2, <2>3, <2>4, <2>6
  <2> QED
    BY <2>5, <2>6
<1>4. ASSUME NEW b \in Nodes, Restart(b)
      PROVE  ListInv'
  <2>1. \A c \in Nodes \ {b} : /\ zm'[c] = zm[c] /\ bridgeFreqs'[c] = bridgeFreqs[c]
                               /\ entered'[c] = entered[c] /\ scanned'[c] = scanned[c]
    BY <1>4 DEF Restart, TypeOK
  <2>2. zm'[b] = NewZoneManager /\ bridgeFreqs'[b] = <<>> /\ entered'[b] = 0
    BY <1>4 DEF Restart, TypeOK
  <2> QED
    BY <2>1, <2>2 DEF NewZoneManager
<1>5. CASE UNCHANGED vars
  BY <1>1, <1>5 DEF vars, zoneVars, scanVars
<1>6. ASSUME NEW b \in Nodes, NotBridging(b) \/ Bridging(b) \/ CycleFrequency(b) \/ Forwarding(b)
      PROVE  UNCHANGED <<zm, bridgeFreqs, entered, scanned>>
  BY <1>6 DEF NotBridging, Bridging, CycleFrequency, Forwarding, ForwardFrame, Retune, Restore, zoneVars, scanVars
<1>7. ASSUME NEW b \in Nodes, NEW copy \in air, ProcessFrame(b, copy)
      PROVE  UNCHANGED <<zm, bridgeFreqs, entered, scanned>>
  BY <1>7 DEF ProcessFrame, zoneVars, scanVars
<1> QED
  BY <1>1, <1>2, <1>3, <1>4, <1>5, <1>6, <1>7 DEF Next, ScanLoop

\* While a node bridges, frames are forwarded by the zone manager's list once a
\* scan has come by (updateBridgeFrequencies); but a node that has bridged
\* before may keep an older list of the same length.
THEOREM ListFollowsZone == Spec => []StoredListIsZoneList
<1>1. Init => ListInv
  BY DEF Init, ListInv, ListsInv, StoredListIsZoneList, NewZoneManager
<1> QED
  BY <1>1, TypeCorrect, ListStep, PTL DEF Spec, ListInv

-----------------------------------------------------------------------------
(* The beacon transmitter: counting                                        *)
(*                                                                         *)
(* The budget is a sum over the log, the property a number of time units   *)
(* on the air.  The two are compared by mapping each unit of a logged      *)
(* duration to how long ago it was.                                        *)

\* Mapping a finite set of numbers one up makes it no larger.
LEMMA ShiftedCount ==
    ASSUME NEW S \in SUBSET Nat, IsFiniteSet(S), NEW T, \A t \in T : \E n \in S : t = n + 1
    PROVE  IsFiniteSet(T) /\ Cardinality(T) <= Cardinality(S)
<1> DEFINE f == [n \in S |-> n + 1]
           image == {f[n] : n \in S}
<1>1. f \in Surjection(S, image)
  BY DEF Surjection
<1>2. IsFiniteSet(image) /\ Cardinality(image) <= Cardinality(S)
  BY <1>1, FS_Surjection
<1>3. T \in SUBSET image
  OBVIOUS
<1>4. IsFiniteSet(T) /\ Cardinality(T) <= Cardinality(image)
  BY <1>2, <1>3, FS_Subset
<1>5. Cardinality(T) \in Nat /\ Cardinality(image) \in Nat /\ Cardinality(S) \in Nat
  BY <1>2, <1>4, FS_CardinalityType
<1> QED
  BY <1>2, <1>4, <1>5

\* A union has at most as many elements as its parts.
LEMMA UnionCount ==
    ASSUME NEW S, IsFiniteSet(S), NEW T, IsFiniteSet(T)
    PROVE  IsFiniteSet(S \cup T) /\ Cardinality(S \cup T) <= Cardinality(S) + Cardinality(T)
<1>1. /\ IsFiniteSet(S \cup T)
      /\ Cardinality(S \cup T) = Cardinality(S) + Cardinality(T) - Cardinality(S \cap T)
  BY FS_Union
<1>2. IsFiniteSet(S \cap T)
  BY FS_Subset
<1>3. Cardinality(S) \in Nat /\ Cardinality(T) \in Nat /\ Cardinality(S \cap T) \in Nat
  BY <1>2, FS_CardinalityType
<1> QED
  BY <1>1, <1>3

\* The entry says that a beacon was on the air u units ago.
Covers(e, u) == e.age < Window /\ e.age < u + e.duration /\ u <= e.age

Logs == {log \in SUBSET [age : 0..Window, duration : SendTimes] : IsFiniteSet(log)}

\* Longest is the maximum it is meant to be.
LEMMA LongestFact == Longest \in Nat \ {0} /\ \A d \in SendTimes : d <= Longest
<1>1. \E d \in SendTimes : \A e \in SendTimes : e <= d
  BY BeaconAssumption
<1>2. Longest \in SendTimes /\ \A d \in SendTimes : d <= Longest
  BY <1>1 DEF Longest
<1> QED
  BY <1>2, BeaconAssumption

\* An entry of the log is not older than the window nor longer than a frame.
LEMMA EntryFacts ==
    ASSUME NEW e \in [age : 0..Window, duration : SendTimes]
    PROVE  e.age \in Nat /\ e.age <= Window /\ e.duration \in Nat \ {0} /\ e.duration <= Longest
<1>1. e.age \in 0..Window /\ e.duration \in SendTimes
  OBVIOUS
<1>2. Window \in Nat /\ SendTimes \subseteq Nat \ {0}
  BY BeaconAssumption
<1>3. e.age \in Nat /\ e.age <= Window
  BY <1>1, <1>2
<1>4. e.duration \in Nat \ {0}
  BY <1>1, <1>2, Zenon
<1>5. e.duration <= Longest
  BY <1>1, LongestFact, Zenon
<1> QED
  BY <1>3, <1>4, <1>5

\* The sum of the durations is a number, for a log of finitely many entries.
LEMMA LogIsFinite ==
    ASSUME NEW log \in Logs
    PROVE  IsFiniteSet(AirtimeUnits(log)) /\ CurrentTXTime(log) \in Nat
<1>1. IsFiniteSet(1..Longest)
  BY LongestFact, FS_Interval
<1>2. IsFiniteSet(log \X (1..Longest))
  BY <1>1, FS_Product DEF Logs
<1>3. AirtimeUnits(log) \in SUBSET (log \X (1..Longest))
  <2>1. ASSUME NEW p \in AirtimeUnits(log)
        PROVE  p \in log \X (1..Longest)
    <3>1. PICK e \in log : p \in {e} \X (1..e.duration)
      BY DEF AirtimeUnits
    <3>2. e.duration \in Nat /\ e.duration <= Longest
      BY EntryFacts DEF Logs
    <3> QED
      BY <3>1, <3>2, LongestFact
  <2> QED
    BY <2>1
<1>4. IsFiniteSet(AirtimeUnits(log))
  BY <1>2, <1>3, FS_Subset
<1> QED
  BY <1>4, FS_CardinalityType DEF CurrentTXTime

\* The total the budget is compared with is at least the number of units of
\* time that the log covers.
LEMMA LoggedCount ==
    ASSUME NEW log \in Logs, NEW S \in SUBSET Nat, \A u \in S : \E e \in log : Covers(e, u)
    PROVE  Cardinality(S) <= CurrentTXTime(log)
<1> DEFINE units == AirtimeUnits(log)
           f == [p \in units |-> (p[1].age + 1) - p[2]]
           image == {f[p] : p \in units}
<1>1. f \in Surjection(units, image)
  BY DEF Surjection
<1>2. IsFiniteSet(units) /\ Cardinality(units) \in Nat
  BY LogIsFinite DEF CurrentTXTime
<1>3. IsFiniteSet(image) /\ Cardinality(image) <= Cardinality(units)
  BY <1>1, <1>2, FS_Surjection
<1>4. S \in SUBSET image
  <2>1. ASSUME NEW u \in S
        PROVE  u \in image
    <3>1. PICK e \in log : Covers(e, u)
      OBVIOUS
    <3>2. u \in Nat /\ e.age \in Nat /\ e.duration \in Nat
      <4>1. e \in [age : 0..Window, duration : SendTimes]
        BY DEF Logs
      <4> QED
        BY <4>1, EntryFacts
    <3> DEFINE k == (e.age + 1) - u
    <3>3. k \in 1..e.duration /\ (e.age + 1) - k = u
      BY <3>1, <3>2 DEF Covers
    <3> HIDE DEF k
    <3>4. <<e, k>> \in units
      BY <3>3 DEF AirtimeUnits
    <3>5. f[<<e, k>>] = u
      BY <3>3, <3>4
    <3> QED
      BY <3>4, <3>5
  <2> QED
    BY <2>1
<1>5. IsFiniteSet(S) /\ Cardinality(S) <= Cardinality(image)
  BY <1>3, <1>4, FS_Subset
<1>6. Cardinality(S) \in Nat /\ Cardinality(image) \in Nat
  BY <1>3, <1>5, FS_CardinalityType
<1> QED
  BY <1>2, <1>3, <1>5, <1>6 DEF CurrentTXTime

-----------------------------------------------------------------------------
(* The beacon transmitter: types *)

\* The interval that follows from the peers lies between the configured one
\* and the greatest.
LEMMA AdaptiveInterval ==
    ASSUME NEW count \in PeerCounts
    PROVE  CappedAt((Interval * (100 + count)) \div 100, MaxInterval) \in Interval..MaxInterval
<1>0. Interval \in Nat /\ MaxInterval \in Nat /\ count \in Nat /\ Interval <= MaxInterval
  BY BeaconAssumption
<1> DEFINE more == Interval * count
<1>1. more \in Nat
  BY <1>0
<1>2. Interval * (100 + count) = 100 * Interval + more
  BY <1>0
<1> HIDE DEF more
<1>3. (100 * Interval + more) \div 100 \in Nat /\ (100 * Interval + more) \div 100 >= Interval
  BY <1>0, <1>1
<1> QED
  BY <1>0, <1>2, <1>3 DEF CappedAt

\* Pruning leaves a part of the log, without the entries that are too old.
LEMMA Pruned ==
    ASSUME NEW log \in Logs
    PROVE  PruneOldEntries(log) \in Logs
<1>1. PruneOldEntries(log) \in SUBSET log
  BY DEF PruneOldEntries
<1> QED
  BY <1>1, FS_Subset DEF Logs

\* Nothing is being sent but in a Send, and the ticker of a Run that goes on
\* has time left.
BeaconIdle ==
    /\ pc # "sending" => sending = 0
    /\ looping => untilTick > 0
BeaconTypes == BeaconTypeOK /\ BeaconIdle

LEMMA BeaconInitTypes == BeaconInit => BeaconTypes
<1>1. IsFiniteSet({})
  BY FS_EmptySet
<1> SUFFICES ASSUME BeaconInit PROVE BeaconTypes
  OBVIOUS
<1>2. Interval \in Nat \ {0} /\ MaxInterval \in Nat \ {0} /\ Interval <= MaxInterval
  BY BeaconAssumption
<1>3. interval \in Interval..MaxInterval /\ period \in Interval..MaxInterval /\ untilTick \in Nat
  BY <1>2 DEF BeaconInit
<1>4. sending \in 0..Longest /\ onAir \subseteq 1..Window
  BY LongestFact DEF BeaconInit
<1>5. txLog \subseteq [age : 0..Window, duration : SendTimes] /\ IsFiniteSet(txLog)
  BY <1>1 DEF BeaconInit
<1>6. {ticked, looping, done} \subseteq BOOLEAN /\ BeaconIdle
  BY DEF BeaconInit, BeaconIdle
<1> QED
  BY <1>3, <1>4, <1>5, <1>6 DEF BeaconInit, BeaconTypes, BeaconTypeOK

\* The log keeps its type when it records a frame and when its entries age.
LEMMA LogTypes ==
    ASSUME BeaconTypes
    PROVE  /\ txLog \in Logs
           /\ SendSucceeds => txLog' \in Logs
           /\ Elapse => txLog' \in Logs
<1>1. txLog \in Logs
  BY DEF BeaconTypes, BeaconTypeOK, Logs
<1>2. ASSUME SendSucceeds PROVE txLog' \in Logs
  <2> DEFINE entry == [age |-> CappedAt(sending, Window), duration |-> sending]
  <2>1. entry \in [age : 0..Window, duration : SendTimes]
    BY <1>2, BeaconAssumption DEF SendSucceeds, CappedAt
  <2>2. IsFiniteSet(txLog \cup {entry})
    BY <1>1, FS_AddElement DEF Logs
  <2>3. txLog \cup {entry} \in Logs
    BY <1>1, <2>1, <2>2 DEF Logs
  <2> QED
    BY <1>2, <2>3, Pruned DEF SendSucceeds
<1>3. ASSUME Elapse PROVE txLog' \in Logs
  <2> DEFINE f == [e \in txLog |-> [e EXCEPT !.age = CappedAt(@ + 1, Window)]]
  <2>1. txLog' = {f[e] : e \in txLog}
    BY <1>3 DEF Elapse
  <2>2. f \in Surjection(txLog, txLog')
    BY <2>1 DEF Surjection
  <2>3. IsFiniteSet(txLog')
    BY <1>1, <2>2, FS_Surjection DEF Logs
  <2>4. \A e \in txLog : f[e] \in [age : 0..Window, duration : SendTimes]
    BY <1>1, BeaconAssumption DEF Logs, CappedAt
  <2> QED
    BY <2>1, <2>3, <2>4 DEF Logs
<1> QED
  BY <1>1, <1>2, <1>3

LEMMA BeaconTypeStep == BeaconTypes /\ [BeaconNext]_beaconVars => BeaconTypes'
<1> SUFFICES ASSUME BeaconTypes, [BeaconNext]_beaconVars
             PROVE  BeaconTypes'
  OBVIOUS
<1>0. txLog \in Logs
  BY LogTypes
<1>a. Interval \in Nat \ {0} /\ MaxInterval \in Nat \ {0} /\ Interval <= MaxInterval /\ Window \in Nat \ {0}
  BY BeaconAssumption
<1> USE DEF BeaconTypes, BeaconTypeOK, BeaconIdle
<1>1. CASE Run
  <2>1. interval \in Nat /\ interval > 0
    BY <1>a
  <2>2. period' \in Interval..MaxInterval /\ untilTick' \in Nat /\ untilTick' > 0
    BY <1>1, <2>1 DEF Run
  <2>3. {ticked', looping', done'} \subseteq BOOLEAN
    BY <1>1 DEF Run
  <2> QED
    BY <1>1, <2>2, <2>3 DEF Run
<1>2. CASE Defer
  <2>1. txLog' \in Logs
    BY <1>2, <1>0, Pruned DEF Defer
  <2>2. interval' \in Interval..MaxInterval
    BY <1>2, <1>a DEF Defer, CappedAt
  <2> QED
    BY <1>2, <2>1, <2>2 DEF Defer, Logs
<1>3. CASE CanTransmit
  <2>1. txLog' \in Logs
    BY <1>3, <1>0, Pruned DEF CanTransmit
  <2> QED
    BY <1>3, <2>1 DEF CanTransmit, Logs
<1>4. CASE PrepareFails
  BY <1>4 DEF PrepareFails, loopVars
<1>5. CASE SendBegins
  BY <1>5 DEF SendBegins, loopVars
<1>6. CASE SendSucceeds
  <2>1. txLog' \in Logs
    BY <1>6, LogTypes
  <2> QED
    BY <1>6, <2>1, LongestFact DEF SendSucceeds, loopVars, Logs
<1>7. CASE SendFails
  <2>1. onAir' \subseteq onAir /\ sending' \in 0..Longest
    BY <1>7, LongestFact DEF SendFails
  <2> QED
    BY <1>7, <2>1 DEF SendFails, loopVars
<1>8. CASE LoopReturns
  BY <1>8 DEF LoopReturns
<1>9. CASE CancelRun
  BY <1>9 DEF CancelRun, loopVars
<1>10. ASSUME NEW count \in PeerCounts, UpdateBeaconPeerCount(count)
       PROVE  BeaconTypes'
  BY <1>10, AdaptiveInterval DEF UpdateBeaconPeerCount, loopVars
<1>11. CASE Elapse
  <2>1. txLog' \in Logs
    BY <1>11, LogTypes
  <2>2. sending' \in 0..Longest
    BY <1>11, LongestFact DEF Elapse
  <2>3. onAir' \subseteq 1..Window
    BY <1>11, <1>a DEF Elapse
  <2>4. untilTick' \in Nat /\ (looping => untilTick' > 0)
    <3>1. period \in Nat /\ period > 0 /\ untilTick \in Nat
      BY <1>a
    <3> QED
      BY <1>11, <3>1 DEF Elapse
  <2>5. ticked' \in BOOLEAN
    BY <1>11 DEF Elapse
  <2> QED
    BY <1>11, <2>1, <2>2, <2>3, <2>4, <2>5 DEF Elapse, Logs
<1>12. CASE UNCHANGED beaconVars
  BY <1>12 DEF beaconVars, loopVars
<1> QED
  BY <1>1, <1>2, <1>3, <1>4, <1>5, <1>6, <1>7, <1>8, <1>9, <1>10, <1>11, <1>12 DEF BeaconNext, Loop

\* Every variable of the transmitter keeps its type: the interval stays between
\* the configured one and ten minutes, however it is stretched, and the log
\* keeps whole frames.
THEOREM BeaconTypeCorrect == BeaconSpec => [](BeaconTypeOK /\ BeaconIdle)
<1>1. BeaconInit => BeaconTypes
  BY BeaconInitTypes
<1>2. BeaconTypes /\ [BeaconNext]_beaconVars => BeaconTypes'
  BY BeaconTypeStep
<1>3. BeaconSpec => []BeaconTypes
  BY <1>1, <1>2, PTL DEF BeaconSpec
<1> QED
  BY <1>3, PTL DEF BeaconTypes

-----------------------------------------------------------------------------
(* The beacon transmitter: the budget                                      *)
(*                                                                         *)
(* The log forgets a frame while its end is still in the window, so what   *)
(* is on the air is more than what the log covers, by units as old as the  *)
(* window less a frame.  While a new frame goes out, these leave the       *)
(* window as fast as its units enter.                                      *)

\* A unit on the air belongs to the frame being sent, is about to leave the
\* window, or is covered by the log.
LogInv ==
    \A u \in onAir : \/ u <= sending
                     \/ u + Longest > Window
                     \/ \E e \in txLog : Covers(e, u)

\* The units of earlier frames that are not about to leave the window.
Recent == {u \in onAir : sending < u /\ u + Longest <= Window + sending}

\* From the moment the window has let a frame pass, these stay within budget.
GrantInv == pc # "waiting" => Cardinality(Recent) < MaxTXTime

BudgetInv == LogInv /\ GrantInv /\ BudgetKept

\* Units of time are numbers, and finitely many are in the window.
LEMMA UnitFacts ==
    ASSUME BeaconTypes
    PROVE  /\ Window \in Nat \ {0} /\ MaxTXTime \in Nat \ {0} /\ Longest \in Nat \ {0}
           /\ sending \in Nat /\ sending <= Longest
           /\ onAir \subseteq 1..Window /\ IsFiniteSet(onAir) /\ Cardinality(onAir) \in Nat
           /\ IsFiniteSet(Recent) /\ Cardinality(Recent) \in Nat
<1>1. Window \in Nat \ {0} /\ MaxTXTime \in Nat \ {0}
  BY BeaconAssumption
<1>2. onAir \in SUBSET (1..Window) /\ sending \in 0..Longest
  BY DEF BeaconTypes, BeaconTypeOK
<1>3. IsFiniteSet(1..Window)
  BY <1>1, FS_Interval
<1>4. IsFiniteSet(onAir)
  BY <1>2, <1>3, FS_Subset
<1>5. Recent \in SUBSET onAir
  BY DEF Recent
<1>6. IsFiniteSet(Recent)
  BY <1>4, <1>5, FS_Subset
<1>7. Cardinality(onAir) \in Nat /\ Cardinality(Recent) \in Nat
  BY <1>4, <1>6, FS_CardinalityType
<1> QED
  BY <1>1, <1>2, <1>4, <1>6, <1>7, LongestFact

\* What is on the air is the frame being sent, what is about to leave the
\* window, and the recent units between the two: with as many of these as
\* GrantInv allows, the budget and one frame are not reached.
LEMMA GrantedIsKept == BeaconTypes /\ pc # "waiting" /\ GrantInv => BudgetKept
<1> SUFFICES ASSUME BeaconTypes, Cardinality(Recent) < MaxTXTime
             PROVE  BudgetKept
  BY DEF GrantInv
<1> DEFINE first == 1..sending
           last == ((Window + sending + 1) - Longest)..Window
<1>0. /\ Window \in Nat /\ MaxTXTime \in Nat /\ Longest \in Nat /\ sending \in Nat /\ sending <= Longest
      /\ onAir \subseteq 1..Window /\ IsFiniteSet(Recent) /\ Cardinality(Recent) \in Nat
  BY UnitFacts
<1>1. IsFiniteSet(first) /\ Cardinality(first) = sending
  <2>1. /\ IsFiniteSet(1..sending)
        /\ Cardinality(1..sending) = IF 1 > sending THEN 0 ELSE (sending - 1) + 1
    <3>1. 1 \in Int /\ sending \in Int
      BY <1>0
    <3> QED
      BY <3>1, FS_Interval
  <2> QED
    BY <1>0, <2>1
<1>2. IsFiniteSet(last) /\ Cardinality(last) = Longest - sending
  <2> DEFINE a == (Window + sending + 1) - Longest
  <2>1. a \in Int /\ Window \in Int
    BY <1>0
  <2>2. IsFiniteSet(a..Window) /\ Cardinality(a..Window) = IF a > Window THEN 0 ELSE (Window - a) + 1
    BY <2>1, FS_Interval
  <2> QED
    BY <1>0, <2>2
<1>3. onAir \in SUBSET ((first \cup last) \cup Recent)
  BY <1>0 DEF Recent
<1> HIDE DEF first, last
<1>4. IsFiniteSet(first \cup last) /\ Cardinality(first \cup last) <= Longest
  BY <1>0, <1>1, <1>2, UnionCount
<1>5. /\ IsFiniteSet((first \cup last) \cup Recent)
      /\ Cardinality((first \cup last) \cup Recent) <= Cardinality(first \cup last) + Cardinality(Recent)
  BY <1>0, <1>4, UnionCount
<1>6. IsFiniteSet(onAir) /\ Cardinality(onAir) <= Cardinality((first \cup last) \cup Recent)
  BY <1>3, <1>5, FS_Subset
<1>7. /\ Cardinality(onAir) \in Nat /\ Cardinality(first \cup last) \in Nat
      /\ Cardinality((first \cup last) \cup Recent) \in Nat
  BY <1>4, <1>5, <1>6, FS_CardinalityType
<1> QED
  BY <1>0, <1>4, <1>5, <1>6, <1>7 DEF BudgetKept

\* When the window lets a frame pass, the recent units are covered by its log.
LEMMA GrantWithinBudget ==
    ASSUME BeaconTypes, LogInv, CanTransmit
    PROVE  GrantInv'
<1>0. txLog \in Logs /\ PruneOldEntries(txLog) \in Logs
  BY LogTypes, Pruned
<1>1. sending = 0 /\ sending' = 0 /\ onAir' = onAir /\ onAir \subseteq 1..Window
  BY DEF CanTransmit, BeaconTypes, BeaconTypeOK, BeaconIdle
<1>2. Recent' \in SUBSET Nat
  <2>1. 1..Window \subseteq Nat /\ Recent' \subseteq onAir'
    BY UnitFacts DEF Recent
  <2> QED
    BY <1>1, <2>1
<1>3. \A u \in Recent' : \E e \in PruneOldEntries(txLog) : Covers(e, u)
  <2>1. ASSUME NEW u \in Recent'
        PROVE  \E e \in PruneOldEntries(txLog) : Covers(e, u)
    <3>1. u \in onAir /\ ~(u <= sending) /\ ~(u + Longest > Window)
      BY <1>1, UnitFacts DEF Recent
    <3>2. PICK e \in txLog : Covers(e, u)
      BY <3>1 DEF LogInv
    <3> QED
      BY <3>2 DEF Covers, PruneOldEntries
  <2> QED
    BY <2>1
<1>4. Cardinality(Recent') <= CurrentTXTime(PruneOldEntries(txLog))
  BY <1>0, <1>2, <1>3, LoggedCount
<1>5. CurrentTXTime(PruneOldEntries(txLog)) < MaxTXTime
  BY DEF CanTransmit
<1>6. CurrentTXTime(PruneOldEntries(txLog)) \in Nat /\ MaxTXTime \in Nat
  BY <1>0, LogIsFinite, UnitFacts
<1>7. IsFiniteSet(Recent')
  BY <1>1, UnitFacts, FS_Subset DEF Recent
<1>8. Cardinality(Recent') \in Nat
  BY <1>7, FS_CardinalityType
<1> QED
  BY <1>4, <1>5, <1>6, <1>8 DEF GrantInv

\* As time goes by a unit stays accounted for, and neither the recent units nor
\* those of a transmitter that waits become more.
LEMMA ElapseKeeps ==
    ASSUME BeaconTypes, BudgetInv, Elapse
    PROVE  LogInv' /\ GrantInv' /\ (pc = "waiting" => BudgetKept')
<1>0. /\ Window \in Nat \ {0} /\ MaxTXTime \in Nat \ {0} /\ Longest \in Nat \ {0}
      /\ sending \in Nat /\ onAir \subseteq 1..Window /\ IsFiniteSet(onAir) /\ Cardinality(onAir) \in Nat
      /\ IsFiniteSet(Recent) /\ Cardinality(Recent) \in Nat
  BY UnitFacts
<1>1. pc' = pc /\ sending' = IF pc = "sending" THEN sending + 1 ELSE sending
  BY DEF Elapse
<1>2. pc # "sending" => sending = 0
  BY DEF BeaconTypes, BeaconIdle
<1>3. \A u \in onAir' : \/ \E v \in onAir : u = v + 1 /\ v < Window
                        \/ pc = "sending" /\ u = 1
  BY <1>0 DEF Elapse
<1>4. LogInv'
  <2>1. ASSUME NEW u \in onAir', ~(u <= sending'), ~(u + Longest > Window)
        PROVE  \E e \in txLog' : Covers(e, u)
    <3>1. PICK v \in onAir : u = v + 1 /\ v < Window
      BY <2>1, <1>0, <1>1, <1>3
    <3>2. ~(v <= sending) /\ ~(v + Longest > Window)
      BY <2>1, <3>1, <1>0, <1>1, <1>2
    <3>3. PICK e \in txLog : Covers(e, v)
      BY <3>2 DEF BudgetInv, LogInv
    <3>4. e \in [age : 0..Window, duration : SendTimes]
      BY DEF BeaconTypes, BeaconTypeOK
    <3> DEFINE aged == [e EXCEPT !.age = CappedAt(@ + 1, Window)]
    <3>5. aged \in txLog' /\ aged.duration = e.duration /\ aged.age = CappedAt(e.age + 1, Window)
      BY <3>4 DEF Elapse
    <3>6. e.age \in Nat /\ e.duration \in Nat /\ e.duration <= Longest /\ v \in Nat
      <4>1. v \in Nat
        BY <1>0
      <4> QED
        BY <4>1, <3>4, EntryFacts
    <3>7. aged.age = e.age + 1 /\ aged.age < Window
      BY <3>1, <3>3, <3>5, <3>6, <2>1, <1>0 DEF Covers, CappedAt
    <3>8. Covers(aged, u)
      BY <3>1, <3>3, <3>5, <3>6, <3>7, <1>0 DEF Covers
    <3> QED
      BY <3>5, <3>8
  <2> QED
    BY <2>1 DEF LogInv
<1>5. GrantInv'
  <2>1. ASSUME NEW u \in Recent'
        PROVE  \E v \in Recent : u = v + 1
    <3>1. u \in onAir' /\ sending' < u /\ u + Longest <= Window + sending'
      BY <2>1 DEF Recent
    <3>2. PICK v \in onAir : u = v + 1 /\ v < Window
      BY <3>1, <1>0, <1>1, <1>3
    <3>3. sending < v /\ v + Longest <= Window + sending
      BY <3>1, <3>2, <1>0, <1>1, <1>2
    <3> QED
      BY <3>2, <3>3 DEF Recent
  <2>2. Recent \in SUBSET Nat
    <3>1. 1..Window \subseteq Nat /\ Recent \subseteq onAir
      BY <1>0 DEF Recent
    <3> QED
      BY <1>0, <3>1
  <2>3. IsFiniteSet(Recent') /\ Cardinality(Recent') <= Cardinality(Recent)
    BY <1>0, <2>1, <2>2, ShiftedCount
  <2>4. Cardinality(Recent') \in Nat
    BY <2>3, FS_CardinalityType
  <2> QED
    BY <1>0, <1>1, <2>3, <2>4 DEF BudgetInv, GrantInv
<1>6. ASSUME pc = "waiting" PROVE BudgetKept'
  <2>1. onAir \in SUBSET Nat /\ \A u \in onAir' : \E v \in onAir : u = v + 1
    BY <1>0, <1>3, <1>6
  <2>2. IsFiniteSet(onAir') /\ Cardinality(onAir') <= Cardinality(onAir)
    BY <1>0, <2>1, ShiftedCount
  <2>3. Cardinality(onAir') \in Nat
    BY <2>2, FS_CardinalityType
  <2> QED
    BY <1>0, <2>2, <2>3 DEF BudgetInv, BudgetKept
<1> QED
  BY <1>4, <1>5, <1>6

\* A finished frame is covered by the entry it leaves in the log.
LEMMA RecordedIsCovered ==
    ASSUME BeaconTypes, LogInv, SendSucceeds
    PROVE  LogInv'
<1> SUFFICES ASSUME NEW u \in onAir, ~(u + Longest > Window)
             PROVE  \E e \in txLog' : Covers(e, u)
  BY DEF LogInv, SendSucceeds
<1>0. /\ Window \in Nat \ {0} /\ Longest \in Nat \ {0} /\ sending \in Nat /\ sending <= Longest
      /\ u \in 1..Window
  BY UnitFacts
<1> DEFINE entry == [age |-> CappedAt(sending, Window), duration |-> sending]
<1>1. txLog' = {e \in txLog \cup {entry} : e.age < Window}
  BY DEF SendSucceeds, PruneOldEntries
<1>2. CASE u <= sending
  <2>1. entry.age = sending /\ entry.duration = sending /\ sending < Window
    BY <1>0, <1>2 DEF CappedAt
  <2>2. Covers(entry, u)
    BY <1>0, <1>2, <2>1 DEF Covers
  <2> QED
    BY <1>1, <2>1, <2>2
<1>3. CASE ~(u <= sending)
  <2>1. PICK e \in txLog : Covers(e, u)
    BY <1>3 DEF LogInv
  <2> QED
    BY <1>1, <2>1 DEF Covers
<1> QED
  BY <1>2, <1>3

LEMMA BudgetStep == BeaconTypes /\ BudgetInv /\ [BeaconNext]_beaconVars => BudgetInv'
<1> SUFFICES ASSUME BeaconTypes, BudgetInv, [BeaconNext]_beaconVars
             PROVE  BudgetInv'
  OBVIOUS
<1>0. BeaconTypes'
  BY BeaconTypeStep
<1>t. pc' # "waiting" /\ GrantInv' => BudgetKept'
  <2>1. (BeaconTypes /\ pc # "waiting" /\ GrantInv => BudgetKept)'
    BY GrantedIsKept, PTL
  <2> QED
    BY <1>0, <2>1
<1>1. ASSUME onAir' = onAir, sending' = sending, txLog' = txLog, pc' = "waiting" \/ pc' = pc \/ pc = "granted"
      PROVE  BudgetInv'
  BY <1>1 DEF BudgetInv, LogInv, GrantInv, Recent, BudgetKept
<1>2. CASE Defer
  <2>1. LogInv'
    BY <1>2 DEF BudgetInv, LogInv, Defer, PruneOldEntries, Covers
  <2> QED
    BY <1>2, <2>1 DEF BudgetInv, GrantInv, BudgetKept, Defer
<1>3. CASE CanTransmit
  <2>1. LogInv'
    BY <1>3 DEF BudgetInv, LogInv, CanTransmit, PruneOldEntries, Covers
  <2>2. GrantInv'
    BY <1>3, GrantWithinBudget DEF BudgetInv
  <2> QED
    BY <1>3, <2>1, <2>2 DEF BudgetInv, BudgetKept, CanTransmit
<1>4. CASE SendSucceeds
  <2>1. LogInv'
    BY <1>4, RecordedIsCovered DEF BudgetInv
  <2> QED
    BY <1>4, <2>1 DEF BudgetInv, GrantInv, BudgetKept, SendSucceeds
<1>5. CASE SendFails
  <2>0. /\ MaxTXTime \in Nat /\ Longest \in Nat /\ sending \in Nat /\ onAir \subseteq 1..Window
        /\ IsFiniteSet(onAir) /\ Cardinality(onAir) \in Nat
    BY UnitFacts
  <2>1. onAir' \in SUBSET onAir /\ \A u \in onAir' : ~(u <= sending)
    BY <1>5, <2>0 DEF SendFails
  <2>2. LogInv'
    BY <1>5, <2>1 DEF BudgetInv, LogInv, SendFails
  <2>3. IsFiniteSet(onAir') /\ Cardinality(onAir') <= Cardinality(onAir)
    BY <2>0, <2>1, FS_Subset
  <2>4. Cardinality(onAir') \in Nat
    BY <2>3, FS_CardinalityType
  <2>5. BudgetKept'
    BY <2>0, <2>3, <2>4 DEF BudgetInv, BudgetKept
  <2> QED
    BY <1>5, <2>2, <2>5 DEF BudgetInv, GrantInv, SendFails
<1>6. CASE Elapse
  <2>1. pc' = pc
    BY <1>6 DEF Elapse
  <2> QED
    BY <1>6, <1>t, <2>1, ElapseKeeps DEF BudgetInv
<1>7. CASE Run \/ PrepareFails \/ SendBegins \/ LoopReturns \/ CancelRun
  BY <1>1, <1>7 DEF Run, PrepareFails, SendBegins, LoopReturns, CancelRun
<1>8. ASSUME NEW count \in PeerCounts, UpdateBeaconPeerCount(count)
      PROVE  BudgetInv'
  BY <1>1, <1>8 DEF UpdateBeaconPeerCount
<1>9. CASE UNCHANGED beaconVars
  BY <1>1, <1>9 DEF beaconVars
<1> QED
  BY <1>2, <1>3, <1>4, <1>5, <1>6, <1>7, <1>8, <1>9 DEF BeaconNext, Loop

\* In no window of the duty cycle is the air used for the budget and a whole
\* frame more, for any budget, any window and frames of any length, although
\* the log drops frames whole and the budget is compared before one is added.
THEOREM BudgetHolds == BeaconSpec => []BudgetKept
<1>1. BeaconInit => BudgetInv
  <2> SUFFICES ASSUME BeaconInit PROVE BudgetInv
    OBVIOUS
  <2>1. onAir = {} /\ pc = "waiting"
    BY DEF BeaconInit
  <2>2. Cardinality(onAir) = 0
    BY <2>1, FS_EmptySet
  <2>3. Longest \in Nat \ {0} /\ MaxTXTime \in Nat \ {0}
    BY LongestFact, BeaconAssumption
  <2>4. BudgetKept
    BY <2>2, <2>3 DEF BudgetKept
  <2> QED
    BY <2>1, <2>4 DEF BudgetInv, LogInv, GrantInv
<1>2. BeaconTypes /\ BudgetInv /\ [BeaconNext]_beaconVars => BudgetInv'
  BY BudgetStep
<1>3. BeaconSpec => []BeaconTypes
  BY BeaconTypeCorrect, PTL DEF BeaconTypes
<1>4. BeaconSpec => []BudgetInv
  BY <1>1, <1>2, <1>3, PTL DEF BeaconSpec
<1>5. BudgetInv => BudgetKept
  BY DEF BudgetInv
<1> QED
  BY <1>4, <1>5, PTL

=============================================================================
