------------------------- MODULE MeshControl_proofs -------------------------
(***************************************************************************)
(* Proofs about the OGM limiters, for any number of originators and any    *)
(* rates, bursts and durations.  That the accepted OGMs obey the meter is  *)
(* not inductive: BalanceInv says what a limiter can still give out, the   *)
(* time it has not yet been paid for included, and that this and what it   *)
(* has given out never exceed the rejoin burst together.  The hysteresis   *)
(* of the emission, for any thresholds, needs SwingInv: a count that would *)
(* switch the emission has been in the table since the last switch.        *)
(***************************************************************************)
EXTENDS MeshControl, TLAPS

\* What originator o may still get and what it got fit in the burst.
BalanceInv ==
    \A o \in Originators :
        /\ level[o] = 0 \/ tokens[o] + accrued[o] + level[o] <= RejoinBurst
        /\ o \notin rateLimiters => level[o] = 0 /\ accrued[o] = 0

MeshInv == TypeOK /\ LimitersFollowMode /\ BalanceInv

-----------------------------------------------------------------------------

LEMMA InitMeshInv == Init => MeshInv
<1> SUFFICES ASSUME Init PROVE MeshInv
  OBVIOUS
<1>1. ScaleTypeOK
  BY DEF Init, ScaleInit, ScaleTypeOK
<1>2. StormTypeOK
  <2>1. /\ tokens \in [Originators -> 0..RejoinBurst]
        /\ accrued \in [Originators -> 0..RejoinBurst]
    BY StormAssumption DEF Init, StormInit
  <2>2. sinceCheck \in 0..RejoinDetectWindow /\ rejoinLeft \in 0..RejoinModeDuration
    BY StormAssumption DEF Init, StormInit
  <2> QED
    BY <2>1, <2>2 DEF Init, StormInit, StormTypeOK
<1>3. population \in 0..MaxPopulation
  BY PopulationAssumption DEF Init
<1>5. swung \in BOOLEAN
  BY DEF Init
<1>4. LimitersFollowMode /\ BalanceInv
  BY DEF Init, StormInit, LimitersFollowMode, BalanceInv
<1> QED
  BY <1>1, <1>2, <1>3, <1>4, <1>5 DEF MeshInv, TypeOK

\* A limiter is found with no more than its burst, and no more than it had and
\* has earned.
LEMMA RefilledBounds ==
    ASSUME MeshInv, NEW o \in Originators
    PROVE  /\ Refilled(o).max = Burst
           /\ Refilled(o).has \in 0..Burst
           /\ o \in rateLimiters => Refilled(o).has <= tokens[o] + accrued[o]
<1>1. Burst \in Nat /\ Burst <= RejoinBurst
  BY StormAssumption DEF Burst
<1>2. CASE o \in rateLimiters
  <2>1. maxTokens[o] = Burst
    BY <1>2 DEF MeshInv, LimitersFollowMode
  <2>2. tokens[o] \in Nat /\ accrued[o] \in Nat
    BY StormAssumption DEF MeshInv, TypeOK, StormTypeOK
  <2>3. Refilled(o).max = Burst /\ Refilled(o).has = AtMost(tokens[o] + accrued[o], Burst)
    BY <1>2, <2>1 DEF Refilled
  <2> QED
    BY <1>1, <2>2, <2>3 DEF AtMost
<1>3. CASE o \notin rateLimiters
  BY <1>1, <1>3 DEF Refilled
<1> QED
  BY <1>2, <1>3

\* Every step keeps the invariant.
LEMMA AllowOGMInv ==
    ASSUME MeshInv, NEW o \in Originators, ReceiveOGM(o)
    PROVE  MeshInv'
<1> DEFINE rl == Refilled(o)
           left == IF rl.has >= 1 THEN rl.has - 1 ELSE rl.has
           used == IF rl.has >= 1 THEN level[o] + 1 ELSE level[o]
<1>1. /\ rl.max = Burst
      /\ rl.has \in 0..Burst
      /\ o \in rateLimiters => rl.has <= tokens[o] + accrued[o]
  BY RefilledBounds
<1>2. /\ rateLimiters' = rateLimiters \cup {o}
      /\ maxTokens' = [maxTokens EXCEPT ![o] = rl.max]
      /\ tokens' = [tokens EXCEPT ![o] = left]
      /\ accrued' = [accrued EXCEPT ![o] = 0]
      /\ UNCHANGED <<scaleVars, countVars, modeVars, tableVars>>
  BY DEF ReceiveOGM, AllowOGM
<1>3. level' = [level EXCEPT ![o] = used]
  BY DEF ReceiveOGM, AllowOGM, MeshInv, TypeOK, StormTypeOK
<1>4. Burst \in {NormalBurst, RejoinBurst} /\ Burst \in Nat /\ Burst <= RejoinBurst
  BY StormAssumption DEF Burst
<1>5. level[o] \in Nat /\ tokens[o] \in Nat /\ accrued[o] \in Nat /\ RejoinBurst \in Nat
  BY StormAssumption DEF MeshInv, TypeOK, StormTypeOK
<1>6. left \in 0..Burst /\ used \in Nat
  BY <1>1, <1>4, <1>5
<1>7. used = 0 \/ left + used <= RejoinBurst
  <2>1. level[o] = 0 \/ (o \in rateLimiters /\ tokens[o] + accrued[o] + level[o] <= RejoinBurst)
    BY DEF MeshInv, BalanceInv
  <2> QED
    BY <1>1, <1>4, <1>5, <2>1
<1> HIDE DEF rl, left, used
<1>8. left \in 0..RejoinBurst
  BY <1>4, <1>5, <1>6
<1>9. TypeOK'
  BY <1>1, <1>2, <1>3, <1>4, <1>5, <1>6, <1>8
  DEF MeshInv, TypeOK, ScaleTypeOK, StormTypeOK, scaleVars, tableVars, countVars, modeVars
<1>10. LimitersFollowMode'
  BY <1>1, <1>2, <1>4, <1>6 DEF MeshInv, LimitersFollowMode, TypeOK, StormTypeOK, Burst, modeVars
<1>11. BalanceInv'
  BY <1>2, <1>3, <1>5, <1>6, <1>7 DEF MeshInv, BalanceInv, TypeOK, StormTypeOK
<1> QED
  BY <1>9, <1>10, <1>11 DEF MeshInv

LEMMA TickInv == ASSUME MeshInv, Tick PROVE MeshInv'
<1> USE StormAssumption
<1>1. TypeOK'
  BY DEF MeshInv, TypeOK, ScaleTypeOK, StormTypeOK, Tick, StormTick, AtMost, scaleVars, tableVars
<1>2. LimitersFollowMode'
  BY DEF MeshInv, LimitersFollowMode, Tick, StormTick, Burst
<1>3. BalanceInv'
  <2> SUFFICES ASSUME NEW o \in Originators
               PROVE  /\ level'[o] = 0 \/ tokens'[o] + accrued'[o] + level'[o] <= RejoinBurst
                      /\ o \notin rateLimiters' => level'[o] = 0 /\ accrued'[o] = 0
    BY DEF BalanceInv
  <2>1. /\ level[o] \in Nat /\ tokens[o] \in Nat /\ accrued[o] \in Nat
        /\ level[o] = 0 \/ tokens[o] + accrued[o] + level[o] <= RejoinBurst
        /\ o \notin rateLimiters => level[o] = 0 /\ accrued[o] = 0
    BY DEF MeshInv, BalanceInv, TypeOK, StormTypeOK
  <2>2. /\ tokens'[o] = tokens[o] /\ rateLimiters' = rateLimiters
        /\ level'[o] = IF level[o] > OGMRate THEN level[o] - OGMRate ELSE 0
        /\ accrued'[o] = IF o \in rateLimiters THEN AtMost(accrued[o] + OGMRate, RejoinBurst) ELSE 0
    BY DEF Tick, StormTick
  <2>3. accrued'[o] <= accrued[o] + OGMRate /\ accrued'[o] \in Nat
    BY <2>1, <2>2 DEF AtMost
  <2> QED
    BY <2>1, <2>2, <2>3
<1> QED
  BY <1>1, <1>2, <1>3 DEF MeshInv

LEMMA MonitorInv == ASSUME MeshInv, MonitorPeerCount PROVE MeshInv'
<1> USE StormAssumption
<1>1. /\ UNCHANGED <<rateLimiters, accrued, level, scaleVars, tableVars>>
      /\ peerCount' \in Nat /\ lastPeerCount' \in Nat /\ sinceCheck' \in 0..RejoinDetectWindow
  BY PopulationAssumption DEF MonitorPeerCount, UpdatePeerCount, MeshInv, TypeOK, StormTypeOK
<1>2. /\ tokens \in [Originators -> 0..RejoinBurst]
      /\ maxTokens \in [Originators -> {NormalBurst, RejoinBurst}]
      /\ accrued \in [Originators -> 0..RejoinBurst]
      /\ level \in [Originators -> Nat]
      /\ rateLimiters \subseteq Originators
      /\ NormalBurst \in 0..RejoinBurst
  BY DEF MeshInv, TypeOK, StormTypeOK
<1>3. CASE EnterRejoinMode /\ ~inRejoinMode
  <2>1. /\ tokens' = tokens /\ inRejoinMode' /\ rejoinLeft' = RejoinModeDuration
        /\ maxTokens' = [o \in Originators |-> IF o \in rateLimiters THEN RejoinBurst ELSE maxTokens[o]]
    BY <1>3 DEF EnterRejoinMode
  <2>2. LimitersFollowMode'
    <3> SUFFICES ASSUME NEW o \in rateLimiters' PROVE maxTokens'[o] = Burst' /\ tokens'[o] <= Burst'
      BY DEF LimitersFollowMode
    <3>1. Burst' = RejoinBurst /\ o \in rateLimiters /\ tokens[o] \in 0..RejoinBurst
      BY <1>1, <1>2, <2>1 DEF Burst
    <3> QED
      BY <1>2, <2>1, <3>1
  <2>3. TypeOK'
    BY <1>1, <1>2, <2>1, <1>3 DEF EnterRejoinMode, MeshInv, TypeOK, ScaleTypeOK, StormTypeOK, scaleVars, tableVars
  <2>4. BalanceInv'
    BY <1>1, <2>1 DEF MeshInv, BalanceInv
  <2> QED
    BY <2>2, <2>3, <2>4 DEF MeshInv
<1>4. CASE ExitRejoinMode
  <2>1. /\ inRejoinMode' = FALSE /\ rejoinLeft' = rejoinLeft
        /\ maxTokens' = [o \in Originators |-> IF o \in rateLimiters THEN NormalBurst ELSE maxTokens[o]]
        /\ tokens' = [o \in Originators |-> IF o \in rateLimiters THEN AtMost(tokens[o], NormalBurst) ELSE tokens[o]]
    BY <1>4 DEF ExitRejoinMode
  <2>2. \A o \in Originators :
            /\ tokens'[o] \in 0..RejoinBurst /\ tokens'[o] <= tokens[o]
            /\ o \in rateLimiters => tokens'[o] <= NormalBurst
    BY <1>2, <2>1 DEF AtMost
  <2>3. LimitersFollowMode'
    BY <1>1, <1>2, <2>1, <2>2 DEF LimitersFollowMode, Burst
  <2>4. tokens' \in [Originators -> 0..RejoinBurst]
    BY <2>1, <2>2
  <2>5. TypeOK'
    BY <1>1, <1>2, <2>1, <2>4 DEF MeshInv, TypeOK, ScaleTypeOK, StormTypeOK, scaleVars, tableVars
  <2>6. BalanceInv'
    <3> SUFFICES ASSUME NEW o \in Originators
                 PROVE  /\ level'[o] = 0 \/ tokens'[o] + accrued'[o] + level'[o] <= RejoinBurst
                        /\ o \notin rateLimiters' => level'[o] = 0 /\ accrued'[o] = 0
      BY DEF BalanceInv
    <3>1. /\ level[o] = 0 \/ tokens[o] + accrued[o] + level[o] <= RejoinBurst
          /\ o \notin rateLimiters => level[o] = 0 /\ accrued[o] = 0
      BY DEF MeshInv, BalanceInv
    <3>2. tokens[o] \in Nat /\ tokens'[o] \in Nat /\ accrued[o] \in Nat /\ level[o] \in Nat
      BY <1>2, <2>2
    <3> QED
      BY <1>1, <2>2, <3>1, <3>2
  <2> QED
    BY <2>3, <2>5, <2>6 DEF MeshInv
<1>5. CASE UNCHANGED <<modeVars, maxTokens, tokens>>
  <2>1. TypeOK'
    BY <1>1, <1>5 DEF MeshInv, TypeOK, ScaleTypeOK, StormTypeOK, scaleVars, tableVars, modeVars
  <2>2. LimitersFollowMode' /\ BalanceInv'
    BY <1>1, <1>5 DEF MeshInv, LimitersFollowMode, BalanceInv, Burst, modeVars
  <2> QED
    BY <2>1, <2>2 DEF MeshInv
<1> QED
  BY <1>3, <1>4, <1>5 DEF MonitorPeerCount, UpdatePeerCount

\* The mesh and the scale limiter leave the OGM limiters alone.
LEMMA OthersInv == ASSUME MeshInv, Change \/ Poll \/ UNCHANGED meshVars PROVE MeshInv'
<1> USE DEF MeshInv, TypeOK, StormTypeOK, ScaleTypeOK, LimitersFollowMode, BalanceInv, Burst,
            meshVars, tableVars, scaleVars, stormVars, bucketVars, countVars, modeVars
<1>1. CASE Change
  <2>1. swung' \in BOOLEAN
    BY <1>1, Zenon DEF Change
  <2>2. population' \in 0..MaxPopulation /\ UNCHANGED <<scaleVars, stormVars>>
    BY <1>1 DEF Change
  <2> QED
    BY <2>1, <2>2
<1>2. CASE Poll
  <2>1. UNCHANGED <<stormVars, population>>
    BY <1>2 DEF Poll
  <2>2. originatorCount' \in Nat
    <3>1. population \in Nat /\ originatorCount \in Nat
      BY PopulationAssumption
    <3>2. originatorCount' = population \/ originatorCount' = originatorCount
      BY <1>2 DEF Poll, PollOriginatorCount, EnforceScaleLimits
    <3> QED
      BY <3>1, <3>2
  <2>3. polling' \in BOOLEAN
    BY <1>2, Zenon DEF Poll, PollOriginatorCount, EnforceScaleLimits
  <2>4. ogmEmissionActive' \in BOOLEAN
    BY <1>2, Zenon DEF Poll, PollOriginatorCount, EnforceScaleLimits
  <2>5. swung' \in BOOLEAN
    <3>1. swung' = swung \/ swung' = CallsForSwitch(population)'
      BY <1>2, Zenon DEF Poll
    <3>2. swung' = swung \/ swung' = (population' >= OriginatorWarnThreshold)
          \/ swung' = (population' <= OriginatorHysteresisRecovery)
      BY <3>1, Zenon DEF CallsForSwitch
    <3>3. (population' >= OriginatorWarnThreshold) \in BOOLEAN
      OBVIOUS
    <3>4. (population' <= OriginatorHysteresisRecovery) \in BOOLEAN
      OBVIOUS
    <3> QED
      BY <3>2, <3>3, <3>4, Zenon
  <2> QED
    BY <2>1, <2>2, <2>3, <2>4, <2>5
<1>3. CASE UNCHANGED meshVars
  BY <1>3
<1> QED
  BY <1>1, <1>2, <1>3

LEMMA Invariant == Spec => []MeshInv
<1>1. MeshInv /\ [Next]_meshVars => MeshInv'
  BY AllowOGMInv, TickInv, MonitorInv, OthersInv DEF Next
<1> QED
  BY <1>1, InitMeshInv, PTL DEF Spec

-----------------------------------------------------------------------------
(* Theorems *)

\* Counts, buckets and modes keep their types.
THEOREM TypeCorrect == Spec => []TypeOK
<1>1. MeshInv => TypeOK
  BY DEF MeshInv
<1> QED
  BY <1>1, Invariant, PTL

\* Every limiter has the burst of the mode it is in, and no more tokens.
THEOREM ModeReachesAll == Spec => []LimitersFollowMode
<1>1. MeshInv => LimitersFollowMode
  BY DEF MeshInv
<1> QED
  BY <1>1, Invariant, PTL

\* The OGMs accepted from each originator obey a meter of the rejoin burst,
\* whatever the mode does meanwhile.
THEOREM OGMsObeyMeter == Spec => OGMsMetered
<1>1. Init => \A o \in Originators : Meter(o)!Init
  BY DEF Init, StormInit, Meter!Init
<1>2. MeshInv /\ [Next]_meshVars => [\A o \in Originators : Meter(o)!Next \/ UNCHANGED level[o]]_level
  <2> SUFFICES ASSUME MeshInv, [Next]_meshVars, NEW o \in Originators
               PROVE  Meter(o)!Next \/ UNCHANGED level[o]
    OBVIOUS
  <2>1. ASSUME NEW p \in Originators, ReceiveOGM(p)
        PROVE  Meter(o)!Next \/ UNCHANGED level[o]
    <3>1. CASE p = o /\ Refilled(o).has >= 1
      <4>1. level'[o] = level[o] + 1
        BY <2>1, <3>1 DEF ReceiveOGM, AllowOGM, MeshInv, TypeOK, StormTypeOK
      <4>2. level[o] + 1 <= RejoinBurst
        <5>1. /\ Refilled(o).has \in 0..Burst
              /\ o \in rateLimiters => Refilled(o).has <= tokens[o] + accrued[o]
          BY RefilledBounds
        <5>2. Burst \in Nat /\ Burst <= RejoinBurst /\ RejoinBurst \in Nat
          BY StormAssumption DEF Burst
        <5>3. level[o] \in Nat /\ tokens[o] \in Nat /\ accrued[o] \in Nat
          BY StormAssumption DEF MeshInv, TypeOK, StormTypeOK
        <5>4. level[o] = 0 \/ (o \in rateLimiters /\ tokens[o] + accrued[o] + level[o] <= RejoinBurst)
          BY DEF MeshInv, BalanceInv
        <5> QED
          BY <3>1, <5>1, <5>2, <5>3, <5>4
      <4>3. 1 \in 1..RejoinBurst
        BY <4>2, StormAssumption DEF MeshInv, TypeOK, StormTypeOK
      <4> QED
        BY <4>1, <4>2, <4>3 DEF Meter!Next, Meter!Emit
    <3>2. CASE ~(p = o /\ Refilled(o).has >= 1)
      BY <2>1, <3>2 DEF ReceiveOGM, AllowOGM, MeshInv, TypeOK, StormTypeOK
    <3> QED
      BY <3>1, <3>2
  <2>2. CASE Tick
    BY <2>2 DEF Tick, StormTick, Meter!Next, Meter!Leak
  <2>3. CASE Change \/ Poll \/ MonitorPeerCount \/ UNCHANGED meshVars
    BY <2>3 DEF Change, Poll, MonitorPeerCount, UpdatePeerCount, meshVars, stormVars, bucketVars
  <2> QED
    BY <2>1, <2>2, <2>3 DEF Next
<1> QED
  BY <1>1, <1>2, Invariant, PTL DEF Spec, OGMsMetered

\* A count or a table that calls for a switch has done so since the last one.
SwingInv == CallsForSwitch(population) \/ CallsForSwitch(originatorCount) => swung

\* The other steps touch neither the table nor the scale limiter.
LEMMA SwingStep == MeshInv /\ SwingInv /\ [Next]_meshVars => SwingInv'
<1> SUFFICES ASSUME MeshInv, SwingInv, [Next]_meshVars PROVE SwingInv'
  OBVIOUS
<1>1. CASE Change
  BY <1>1 DEF Change, SwingInv, CallsForSwitch, scaleVars
<1>2. CASE Poll
  <2>1. CASE PollOriginatorCount(population)
    BY <1>2, <2>1 DEF Poll, PollOriginatorCount, SwingInv, CallsForSwitch
  <2>2. CASE EnforceScaleLimits /\ ogmEmissionActive' = ogmEmissionActive
    <3>1. UNCHANGED <<originatorCount, ogmEmissionActive, population>>
      BY <1>2, <2>2 DEF Poll, EnforceScaleLimits
    <3>2. swung' = swung
      BY <1>2, <2>2, Zenon DEF Poll
    <3> QED
      BY <3>1, <3>2 DEF SwingInv, CallsForSwitch
  <2>3. CASE EnforceScaleLimits /\ ogmEmissionActive' # ogmEmissionActive
    <3>1. originatorCount \in Nat /\ originatorCount' = originatorCount
      BY <2>3 DEF EnforceScaleLimits, MeshInv, TypeOK, ScaleTypeOK
    <3>2. ~CallsForSwitch(originatorCount)'
      BY <2>3, <3>1, ScaleAssumption
         DEF EnforceScaleLimits, CallsForSwitch, MeshInv, TypeOK, ScaleTypeOK
    <3>3. swung' = CallsForSwitch(population)'
      BY <1>2, <2>3 DEF Poll
    <3> QED
      BY <3>2, <3>3 DEF SwingInv
  <2> QED
    BY <1>2, <2>1, <2>2, <2>3 DEF Poll
<1>3. CASE Tick \/ MonitorPeerCount \/ (\E o \in Originators : ReceiveOGM(o)) \/ UNCHANGED meshVars
  <2>1. UNCHANGED <<scaleVars, tableVars>>
    BY <1>3 DEF Tick, MonitorPeerCount, ReceiveOGM, meshVars
  <2> QED
    BY <2>1 DEF SwingInv, CallsForSwitch, scaleVars, tableVars
<1> QED
  BY <1>1, <1>2, <1>3 DEF Next

\* The emission is switched only after the mesh has swung across both
\* thresholds since the last switch.
THEOREM SwitchNeedsSwing == Spec => Hysteresis
<1>1. Init => SwingInv
  BY ScaleAssumption DEF Init, ScaleInit, SwingInv, CallsForSwitch
<1>2. MeshInv /\ SwingInv /\ [Next]_meshVars => [ogmEmissionActive' # ogmEmissionActive => swung]_meshVars
  <2> SUFFICES ASSUME MeshInv, SwingInv, Next, ogmEmissionActive' # ogmEmissionActive
               PROVE  swung
    OBVIOUS
  <2>1. EnforceScaleLimits
    BY DEF Next, Change, Poll, PollOriginatorCount, MonitorPeerCount, ReceiveOGM, Tick, scaleVars
  <2>2. CallsForSwitch(originatorCount)
    <3>1. originatorCount \in Nat /\ ogmEmissionActive \in BOOLEAN
      BY DEF MeshInv, TypeOK, ScaleTypeOK
    <3>2. CASE ogmEmissionActive = TRUE
      BY <2>1, <3>1, <3>2, ScaleAssumption DEF EnforceScaleLimits, CallsForSwitch
    <3>3. CASE ogmEmissionActive = FALSE
      BY <2>1, <3>1, <3>3, ScaleAssumption DEF EnforceScaleLimits, CallsForSwitch
    <3> QED
      BY <3>1, <3>2, <3>3
  <2> QED
    BY <2>2 DEF SwingInv
<1> QED
  BY <1>1, <1>2, SwingStep, Invariant, PTL DEF Spec, Hysteresis

=============================================================================
