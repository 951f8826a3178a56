--------------------------- MODULE StormMitigator ---------------------------
(***************************************************************************)
(* The OGM storm mitigation of internal/batman/storm_mitigation.go: when   *)
(* the number of peers jumps, as after the rejoin of a partition, the      *)
(* token bucket of each originator gets a larger burst for a while.        *)
(*                                                                         *)
(* Every operation holds the mutex throughout and is one action.  Time is  *)
(* counted in ticks, up to the span after which more of it changes         *)
(* nothing; a bucket is refilled when it is next used, from the time that  *)
(* has passed by then.  Left out: churn statistics and jitter, Reset (for  *)
(* tests), GetStats.                                                       *)
(***************************************************************************)
EXTENDS Naturals

CONSTANTS
    Originators,
    NormalBurst,        \* normalBurst
    RejoinBurst,        \* rejoinBurst
    OGMRate,            \* normalOGMRate and rejoinOGMRate, per tick
    Baseline,           \* lowest count that can be exceeded: 10
    RejoinDetectWindow, \* rejoinDetectWindow
    RejoinModeDuration  \* rejoinModeDuration

ASSUME StormAssumption ==
    /\ NormalBurst \in Nat /\ RejoinBurst \in Nat
    /\ NormalBurst <= RejoinBurst
    /\ OGMRate \in Nat /\ Baseline \in Nat
    /\ RejoinDetectWindow \in Nat /\ RejoinModeDuration \in Nat \ {0}

VARIABLES
    rateLimiters,   \* originators that have a limiter
    tokens,         \* tokens of each limiter
    maxTokens,      \* maxTokens of each limiter
    accrued,        \* what the time since lastRefill earns
    peerCount,      \* peerCount
    lastPeerCount,  \* lastPeerCount
    sinceCheck,     \* time since lastPeerCheckTime
    inRejoinMode,   \* inRejoinMode
    rejoinLeft,     \* time until rejoinModeExpiry
    level           \* history: OGMs accepted and not yet earned back

bucketVars == <<rateLimiters, tokens, maxTokens, accrued, level>>
countVars == <<peerCount, lastPeerCount, sinceCheck>>
modeVars == <<inRejoinMode, rejoinLeft>>
stormVars == <<bucketVars, countVars, modeVars>>

StormTypeOK ==
    /\ rateLimiters \subseteq Originators
    /\ tokens \in [Originators -> 0..RejoinBurst]
    /\ maxTokens \in [Originators -> {NormalBurst, RejoinBurst}]
    /\ accrued \in [Originators -> 0..RejoinBurst]
    /\ peerCount \in Nat /\ lastPeerCount \in Nat
    /\ sinceCheck \in 0..RejoinDetectWindow
    /\ inRejoinMode \in BOOLEAN
    /\ rejoinLeft \in 0..RejoinModeDuration
    /\ level \in [Originators -> Nat]

\* NewStormMitigator.
StormInit ==
    /\ rateLimiters = {}
    /\ tokens = [o \in Originators |-> 0]
    /\ maxTokens = [o \in Originators |-> NormalBurst]
    /\ accrued = [o \in Originators |-> 0]
    /\ peerCount = 0 /\ lastPeerCount = 0 /\ sinceCheck = 0
    /\ inRejoinMode = FALSE /\ rejoinLeft = 0
    /\ level = [o \in Originators |-> 0]

AtMost(n, cap) == IF n > cap THEN cap ELSE n

\* What a new limiter may hold.
Burst == IF inRejoinMode THEN RejoinBurst ELSE NormalBurst

-----------------------------------------------------------------------------
(* The mode *)

\* More than half again as many as before, soon after the last check.
RejoinDetected(count) ==
    /\ sinceCheck < RejoinDetectWindow
    /\ lastPeerCount >= Baseline
    /\ 2 * (count - lastPeerCount) > lastPeerCount

\* Mutant: the mode fills the buckets.
EnterRejoinModeFills ==
    /\ inRejoinMode' = TRUE
    /\ rejoinLeft' = RejoinModeDuration
    /\ maxTokens' = [o \in Originators |-> IF o \in rateLimiters THEN RejoinBurst ELSE maxTokens[o]]
    /\ tokens' = [o \in Originators |-> IF o \in rateLimiters THEN RejoinBurst ELSE tokens[o]]

\* The burst grows at once, the tokens with time.
EnterRejoinMode ==
    /\ inRejoinMode' = TRUE
    /\ rejoinLeft' = RejoinModeDuration
    /\ maxTokens' = [o \in Originators |-> IF o \in rateLimiters THEN RejoinBurst ELSE maxTokens[o]]
    /\ UNCHANGED tokens

ExitRejoinMode ==
    /\ inRejoinMode' = FALSE
    /\ maxTokens' = [o \in Originators |-> IF o \in rateLimiters THEN NormalBurst ELSE maxTokens[o]]
    /\ tokens' = [o \in Originators |-> IF o \in rateLimiters THEN AtMost(tokens[o], NormalBurst) ELSE tokens[o]]
    /\ UNCHANGED rejoinLeft

\* Mutant: the mode is prolonged by every jump.
UpdatePeerCountProlongs(count) ==
    /\ IF lastPeerCount >= Baseline
       THEN EnterRejoinMode
       ELSE IF inRejoinMode /\ rejoinLeft = 0
            THEN ExitRejoinMode
            ELSE UNCHANGED <<modeVars, maxTokens, tokens>>
    /\ lastPeerCount' = peerCount
    /\ peerCount' = count
    /\ sinceCheck' = 0
    /\ UNCHANGED <<rateLimiters, accrued, level>>

\* The new count is compared with lastPeerCount, which is the count before the
\* one the last update brought.
UpdatePeerCount(count) ==
    /\ IF RejoinDetected(count) /\ ~inRejoinMode
       THEN EnterRejoinMode
       ELSE IF inRejoinMode /\ rejoinLeft = 0
            THEN ExitRejoinMode
            ELSE UNCHANGED <<modeVars, maxTokens, tokens>>
    /\ lastPeerCount' = peerCount
    /\ peerCount' = count
    /\ sinceCheck' = 0
    /\ UNCHANGED <<rateLimiters, accrued, level>>

-----------------------------------------------------------------------------
(* The limiters *)

\* The limiter of o as AllowOGM finds it, made and refilled.
Refilled(o) ==
    IF o \in rateLimiters
    THEN [max |-> maxTokens[o], has |-> AtMost(tokens[o] + accrued[o], maxTokens[o])]
    ELSE [max |-> Burst, has |-> Burst]

\* AllowOGM, which accepts an OGM if there is a token for it.
AllowOGM(o) ==
    LET rl == Refilled(o)
        accepted == rl.has >= 1
    IN  /\ rateLimiters' = rateLimiters \cup {o}
        /\ maxTokens' = [maxTokens EXCEPT ![o] = rl.max]
        /\ tokens' = [tokens EXCEPT ![o] = IF accepted THEN rl.has - 1 ELSE rl.has]
        /\ accrued' = [accrued EXCEPT ![o] = 0]
        /\ level' = IF accepted THEN [level EXCEPT ![o] = @ + 1] ELSE level
        /\ UNCHANGED <<countVars, modeVars>>

\* Time passes.
StormTick ==
    /\ accrued' = [o \in Originators |->
                    IF o \in rateLimiters THEN AtMost(accrued[o] + OGMRate, RejoinBurst) ELSE 0]
    /\ level' = [o \in Originators |-> IF level[o] > OGMRate THEN level[o] - OGMRate ELSE 0]
    /\ sinceCheck' = AtMost(sinceCheck + 1, RejoinDetectWindow)
    /\ rejoinLeft' = IF rejoinLeft > 0 THEN rejoinLeft - 1 ELSE 0
    /\ UNCHANGED <<rateLimiters, tokens, maxTokens, peerCount, lastPeerCount, inRejoinMode>>

=============================================================================
