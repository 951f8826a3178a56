-------------------------- MODULE BeaconTransmitter --------------------------
(***************************************************************************)
(* The periodic beacon of one node and its duty-cycle window               *)
(* (internal/lora/beacon.go).                                              *)
(*                                                                         *)
(* Time goes in units, and goes on between any two steps of the loop.  The *)
(* window is the log of start times (kept here as ages) and durations the  *)
(* code keeps.  What a beacon says and how it is encrypted is left out; a  *)
(* nonce that cannot be made and an encryption that fails are one failure. *)
(* The radio may take any of SendTimes, and may fail at any moment of it.  *)
(***************************************************************************)
EXTENDS Naturals, FiniteSets

CONSTANTS
    Interval,     \* BeaconConfig.Interval: 60 s
    MaxInterval,  \* 10 min
    Window,       \* length of the rolling window: 1 h
    MaxTXTime,    \* airtime allowed in it
    SendTimes,    \* how long a Send may take
    PeerCounts    \* what UpdatePeerCount is called with

ASSUME BeaconAssumption ==
    /\ {Interval, MaxInterval, Window, MaxTXTime} \subseteq Nat \ {0}
    /\ Interval <= MaxInterval
    /\ SendTimes \subseteq Nat \ {0}
    /\ \E d \in SendTimes : \A e \in SendTimes : e <= d
    /\ PeerCounts \subseteq Nat

VARIABLES
    interval,  \* BeaconTransmitter.interval
    period,    \* period of the ticker Run has made
    untilTick, \* time until the ticker fires
    ticked,    \* is there a tick in the ticker's channel?
    looping,   \* is Run in its loop?
    done,      \* is the context of Run done?
    pc,        \* where the loop stands in transmitBeacon
    txLog,     \* DutyCycleWindow.txLog and txDurations: when a beacon began, and for
               \* how long it was sent; no two begin at once, so it is a set
    sending,   \* how long the Send under way has taken so far
    outcome,   \* history: how the last attempt ended
    onAir      \* history: how long ago, up to Window, a beacon was being sent

loopVars == <<period, untilTick, ticked, looping>>
beaconVars == <<interval, loopVars, done, pc, txLog, sending, outcome, onAir>>

Longest == CHOOSE d \in SendTimes : \A e \in SendTimes : e <= d

BeaconTypeOK ==
    /\ interval \in Interval..MaxInterval
    /\ period \in Interval..MaxInterval
    /\ untilTick \in Nat
    /\ {ticked, looping, done} \subseteq BOOLEAN
    /\ pc \in {"waiting", "granted", "sending"}
    /\ txLog \subseteq [age : 0..Window, duration : SendTimes]
    /\ IsFiniteSet(txLog)
    /\ sending \in 0..Longest
    /\ outcome \in {"none", "deferred", "failed", "sent"}
    /\ onAir \subseteq 1..Window

BeaconInit ==
    /\ interval = Interval
    /\ period = Interval
    /\ untilTick = 0
    /\ ticked = FALSE
    /\ looping = FALSE
    /\ done = FALSE
    /\ pc = "waiting"
    /\ txLog = {}
    /\ sending = 0
    /\ outcome = "none"
    /\ onAir = {}

CappedAt(n, limit) == IF n < limit THEN n ELSE limit

-----------------------------------------------------------------------------
(* The duty-cycle window *)

\* Mutant: entries are never removed.
PruneOldEntriesNever(log) == log

\* pruneOldEntries
PruneOldEntries(log) == {e \in log : e.age < Window}

\* currentTXTime: the sum of the durations, counted unit by unit.
AirtimeUnits(log) == UNION {{e} \X (1..e.duration) : e \in log}
CurrentTXTime(log) == Cardinality(AirtimeUnits(log))

-----------------------------------------------------------------------------
(* Run and transmitBeacon *)

\* Run makes a ticker of the interval as it is now, and keeps it.
Run ==
    /\ ~looping
    /\ looping' = TRUE
    /\ done' = FALSE
    /\ period' = interval
    /\ untilTick' = interval
    /\ ticked' = FALSE
    /\ UNCHANGED <<interval, pc, txLog, sending, outcome, onAir>>

\* transmitBeacon takes a tick and finds the window full: adaptiveBackoff
\* doubles the interval.  The select may do so with the context done.
Defer ==
    /\ looping /\ ticked /\ pc = "waiting"
    /\ txLog' = PruneOldEntries(txLog)
    /\ CurrentTXTime(txLog') >= MaxTXTime
    /\ ticked' = FALSE
    /\ interval' = CappedAt(2 * interval, MaxInterval)
    /\ outcome' = "deferred"
    /\ UNCHANGED <<period, untilTick, looping, done, pc, sending, onAir>>

\* CanTransmit lets the beacon pass.
CanTransmit ==
    /\ looping /\ ticked /\ pc = "waiting"
    /\ txLog' = PruneOldEntries(txLog)
    /\ CurrentTXTime(txLog') < MaxTXTime
    /\ ticked' = FALSE
    /\ pc' = "granted"
    /\ UNCHANGED <<interval, period, untilTick, looping, done, sending, outcome, onAir>>

\* No nonce, or no ciphertext.
PrepareFails ==
    /\ pc = "granted"
    /\ pc' = "waiting"
    /\ outcome' = "failed"
    /\ UNCHANGED <<interval, loopVars, done, txLog, sending, onAir>>

SendBegins ==
    /\ pc = "granted"
    /\ pc' = "sending"
    /\ UNCHANGED <<interval, loopVars, done, txLog, sending, outcome, onAir>>

\* Mutant: the sent beacon is not recorded.
SendSucceedsUnrecorded ==
    /\ pc = "sending"
    /\ sending \in SendTimes
    /\ txLog' = PruneOldEntries(txLog)
    /\ sending' = 0
    /\ pc' = "waiting"
    /\ outcome' = "sent"
    /\ UNCHANGED <<interval, loopVars, done, onAir>>

\* Send returns, and RecordTX logs its start and how long it took.
SendSucceeds ==
    /\ pc = "sending"
    /\ sending \in SendTimes
    /\ txLog' = PruneOldEntries(txLog \cup {[age |-> CappedAt(sending, Window), duration |-> sending]})
    /\ sending' = 0
    /\ pc' = "waiting"
    /\ outcome' = "sent"
    /\ UNCHANGED <<interval, loopVars, done, onAir>>

\* Send returns an error, at once or later: nothing is recorded, and the
\* history forgets what may have been on the air.
SendFails ==
    /\ pc = "sending"
    /\ sending' = 0
    /\ pc' = "waiting"
    /\ outcome' = "failed"
    /\ onAir' = {age \in onAir : age > sending}
    /\ UNCHANGED <<interval, loopVars, done, txLog>>

CancelRun ==
    /\ looping /\ ~done
    /\ done' = TRUE
    /\ UNCHANGED <<interval, loopVars, pc, txLog, sending, outcome, onAir>>

LoopReturns ==
    /\ looping /\ done /\ pc = "waiting"
    /\ looping' = FALSE
    /\ ticked' = FALSE
    /\ untilTick' = 0
    /\ UNCHANGED <<interval, period, done, pc, txLog, sending, outcome, onAir>>

-----------------------------------------------------------------------------
(* The other steps *)

\* calculateAdaptiveInterval: a tenth more for ten peers, up to 10 minutes.
UpdateBeaconPeerCount(count) ==
    /\ interval' = CappedAt((Interval * (100 + count)) \div 100, MaxInterval)
    /\ UNCHANGED <<loopVars, done, pc, txLog, sending, outcome, onAir>>

\* The ticker drops a tick nobody has taken.
Elapse ==
    /\ pc = "sending" => sending < Longest
    /\ txLog' = {[e EXCEPT !.age = CappedAt(@ + 1, Window)] : e \in txLog}
    /\ sending' = IF pc = "sending" THEN sending + 1 ELSE sending
    /\ onAir' = {age + 1 : age \in onAir \ {Window}} \cup (IF pc = "sending" THEN {1} ELSE {})
    /\ ticked' = (ticked \/ (looping /\ untilTick = 1))
    /\ untilTick' = IF ~looping THEN 0 ELSE IF untilTick = 1 THEN period ELSE untilTick - 1
    /\ UNCHANGED <<interval, period, looping, done, pc, outcome>>

Loop ==
    \/ Defer
    \/ CanTransmit
    \/ PrepareFails
    \/ SendBegins
    \/ SendSucceeds
    \/ SendFails
    \/ LoopReturns

BeaconNext ==
    \/ Run
    \/ Loop
    \/ CancelRun
    \/ \E count \in PeerCounts : UpdateBeaconPeerCount(count)
    \/ Elapse

BeaconSpec == BeaconInit /\ [][BeaconNext]_beaconVars

\* The loop goes on and time passes.  Sends may fail for ever, nobody has to
\* start or to cancel, and peers may come and go all the time.
BeaconFairness == WF_beaconVars(Loop) /\ WF_beaconVars(Elapse)

BeaconFairSpec == BeaconSpec /\ BeaconFairness

-----------------------------------------------------------------------------
(* Properties *)

\* In no window of the length of Window, wherever it begins, are beacons on the
\* air for longer than the budget.  So docs/lora-mesh-design.md has it: a frame
\* that does not fit into what is left is deferred.
BudgetObeyed == Cardinality(onAir) <= MaxTXTime

\* What CanTransmit gives instead: the budget and less than one frame.  The log
\* counts a frame whole while its start is in the window and not at all from
\* then on, and the budget is compared before the frame is added.  Only frames
\* whose Send succeeded are meant: the log does not know of others.
BudgetKept == Cardinality(onAir) < MaxTXTime + Longest

\* A transmitter that defers does not defer for ever: the frames that filled
\* the window leave it while the ticker goes on, however the interval is
\* stretched meanwhile, and unless Run has been told to stop.
DeferredResumes == outcome = "deferred" ~> (outcome # "deferred" \/ done \/ ~looping)

=============================================================================
