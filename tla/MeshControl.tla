---------------------------- MODULE MeshControl -----------------------------
(***************************************************************************)
(* A batman-adv node whose originator table grows and shrinks: the scale   *)
(* limiter polls the table, the storm mitigation watches the same number   *)
(* of peers (MonitorPeerCount) and limits the OGMs of each originator.     *)
(***************************************************************************)
EXTENDS ScaleLimiter, StormMitigator

CONSTANT MaxPopulation  \* bound: originators in the kernel's table

ASSUME PopulationAssumption == MaxPopulation \in Nat

VARIABLES
    population,  \* external: originators in the kernel's table
    swung        \* history: has the table called for a switch of the emission
                 \* since the last one?

tableVars == <<population, swung>>
meshVars == <<scaleVars, stormVars, tableVars>>

TypeOK == ScaleTypeOK /\ StormTypeOK /\ population \in 0..MaxPopulation /\ swung \in BOOLEAN

Init == ScaleInit /\ StormInit /\ population = 0 /\ swung = FALSE

\* A table of n originators calls for a switch of the emission as it is now.
CallsForSwitch(n) ==
    IF ogmEmissionActive THEN n >= OriginatorWarnThreshold ELSE n <= OriginatorHysteresisRecovery

\* The mesh changes, a partition at a time.
Change ==
    /\ population' \in 0..MaxPopulation
    /\ swung' = (swung \/ CallsForSwitch(population'))
    /\ UNCHANGED <<scaleVars, stormVars>>

Poll ==
    /\ UNCHANGED <<stormVars, population>>
    /\ PollOriginatorCount(population) \/ EnforceScaleLimits
    /\ swung' = IF ogmEmissionActive' = ogmEmissionActive THEN swung ELSE CallsForSwitch(population)'

MonitorPeerCount == UpdatePeerCount(population) /\ UNCHANGED <<scaleVars, tableVars>>

ReceiveOGM(o) == AllowOGM(o) /\ UNCHANGED <<scaleVars, tableVars>>

Tick == StormTick /\ UNCHANGED <<scaleVars, tableVars>>

Next == Change \/ Poll \/ MonitorPeerCount \/ Tick \/ \E o \in Originators : ReceiveOGM(o)

Spec == Init /\ [][Next]_meshVars

\* Time passes, and the tickers of MonitorPeerCount and of the scale limiter's
\* Run fire; the table can be read now and then.
FairSpec == Spec /\ WF_meshVars(Tick) /\ WF_meshVars(MonitorPeerCount) /\ WF_meshVars(Poll)

-----------------------------------------------------------------------------
(* Properties *)

\* Whatever the mode and its changes do to the buckets, the OGMs accepted from
\* one originator obey a leaky-bucket meter of the rejoin burst: no change of
\* mode hands out tokens twice.
Meter(o) == INSTANCE DutyCycleMeter WITH Capacity <- RejoinBurst, Rate <- OGMRate, level <- level[o]
OGMsMetered ==
    /\ \A o \in Originators : Meter(o)!Init
    /\ [][\A o \in Originators : Meter(o)!Next \/ UNCHANGED level[o]]_level

\* Every limiter, made before or after the last change of mode, has the burst of
\* the mode, and holds no more tokens than that.
LimitersFollowMode ==
    \A o \in rateLimiters : maxTokens[o] = Burst /\ tokens[o] <= Burst

\* The rejoin mode ends.
RejoinEnds == inRejoinMode ~> ~inRejoinMode

\* Once the mesh stays at or above the warning threshold, the emission ends up
\* off for good, and on once it stays at or below the recovery one: no poll in
\* flight leaves the switch behind the table.
EmissionSettles ==
    /\ <>[](population >= OriginatorWarnThreshold) => <>[]~ogmEmissionActive
    /\ <>[](population <= OriginatorHysteresisRecovery) => <>[]ogmEmissionActive

\* Between two switches of the emission the mesh itself swings from one threshold
\* to the other.  A count read before the last switch and enforced late, or one
\* between the thresholds, never makes the emission flap.
Hysteresis == [][ogmEmissionActive' # ogmEmissionActive => swung]_meshVars

=============================================================================
