---------------------------- MODULE ScaleLimiter ----------------------------
(***************************************************************************)
(* The scale limiter of internal/batman/scale_limit.go: a poll of the      *)
(* kernel's originator table, and the switch of the node's own OGM         *)
(* emission, with hysteresis.  The poll stores the count and enforces the  *)
(* limits under two separate locks.  Guidance logs are left out.           *)
(***************************************************************************)
EXTENDS Naturals

CONSTANTS
    OriginatorWarnThreshold,
    OriginatorHysteresisRecovery

ASSUME ScaleAssumption ==
    /\ OriginatorWarnThreshold \in Nat
    /\ OriginatorHysteresisRecovery \in Nat
    /\ OriginatorHysteresisRecovery < OriginatorWarnThreshold

VARIABLES
    originatorCount,    \* originatorCount
    ogmEmissionActive,  \* ogmEmissionActive
    polling             \* between the two halves of pollOriginatorCount?

scaleVars == <<originatorCount, ogmEmissionActive, polling>>

ScaleTypeOK ==
    /\ originatorCount \in Nat
    /\ ogmEmissionActive \in BOOLEAN
    /\ polling \in BOOLEAN

\* NewScaleLimiter.
ScaleInit ==
    /\ originatorCount = 0
    /\ ogmEmissionActive = TRUE
    /\ polling = FALSE

\* pollOriginatorCount reads the table; a table it cannot read changes nothing.
PollOriginatorCount(table) ==
    /\ ~polling
    /\ originatorCount' = table
    /\ polling' = TRUE
    /\ UNCHANGED ogmEmissionActive

\* Mutant: recovery at the threshold that disables.
EnforceScaleLimitsFlapping ==
    /\ polling /\ polling' = FALSE
    /\ ogmEmissionActive' = (originatorCount < OriginatorWarnThreshold)
    /\ UNCHANGED originatorCount

\* Mutant: the threshold itself does not disable.
EnforceScaleLimitsLate ==
    /\ polling /\ polling' = FALSE
    /\ ogmEmissionActive' =
        \/ originatorCount <= OriginatorHysteresisRecovery
        \/ ogmEmissionActive /\ originatorCount <= OriginatorWarnThreshold
    /\ UNCHANGED originatorCount

\* enforceScaleLimits; switching cannot fail, as it only logs so far.
EnforceScaleLimits ==
    /\ polling /\ polling' = FALSE
    /\ ogmEmissionActive' =
        \/ originatorCount <= OriginatorHysteresisRecovery
        \/ ogmEmissionActive /\ originatorCount < OriginatorWarnThreshold
    /\ UNCHANGED originatorCount

=============================================================================
