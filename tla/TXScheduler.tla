----------------------------- MODULE TXScheduler -----------------------------
(***************************************************************************)
(* The transmit scheduler of the LoRa control plane                        *)
(* (internal/lora/scheduler.go): three bounded priority queues filled by   *)
(* any number of goroutines through Enqueue, one worker goroutine that     *)
(* takes a frame, waits for airtime in a token bucket, listens and sends,  *)
(* and Close.                                                              *)
(*                                                                         *)
(* A frame is its time on air; 0 stands for a payload Calculate rejects.   *)
(* Each non-blocking select of the worker and of Enqueue is a step of its  *)
(* own, because goroutines move between them.                              *)
(*                                                                         *)
(* Time is counted in ticks in which the bucket earns RefillRate whole     *)
(* units.  Instead of lastRefill the model keeps what has been earned      *)
(* since: refill credits it and starts again from zero.  Fractions of a    *)
(* unit, which refill truncates and forgets, are left out.                 *)
(***************************************************************************)
EXTENDS Naturals, Sequences, FiniteSets

CONSTANTS
    Producers,     \* goroutines that call Enqueue
    Airtimes,      \* times on air of the frames they offer
    QueueSize,     \* length of each queue
    Capacity,      \* TokenBucket.capacity
    RefillRate,    \* TokenBucket.refillRate, per tick
    MaxOffered     \* bound: number of calls of Enqueue

ASSUME SchedulerAssumption ==
    /\ Airtimes \subseteq Nat
    /\ QueueSize \in Nat \ {0}
    /\ Capacity \in Nat
    /\ RefillRate \in Nat
    /\ MaxOffered \in Nat

PriorityHigh == 0
PriorityMedium == 1
PriorityLow == 2
Priorities == {PriorityHigh, PriorityMedium, PriorityLow}

\* The refill rate NewTXScheduler computes: a division of two durations of the
\* same unit, in integers.
ConstructorRefillRate(capacity, hour) == capacity \div hour

VARIABLES
    queues,      \* the three channels
    tokens,      \* TokenBucket.tokens
    earned,      \* what the time since TokenBucket.lastRefill has earned
    pc,          \* where the worker stands in run
    req,         \* the frame the worker holds
    producerPc,  \* where each producer stands in Enqueue
    producerToA, \* the frame each producer is offering
    cancelled,   \* has ctx been cancelled?
    closer,      \* where the caller of Close stands
    txTotal,     \* frames recorded as sent, per priority
    txDrops,     \* frames recorded as dropped, per priority
    offered,     \* history: calls of Enqueue, per priority
    level,       \* history: airtime sent with success and not yet leaked
    bypass       \* history: frames of lower priority sent while one waits

queueVars == <<queues, producerPc, producerToA, offered>>
bucketVars == <<tokens, earned>>
workerVars == <<pc, req>>
closeVars == <<cancelled, closer>>
statVars == <<txTotal, txDrops>>
vars == <<queueVars, bucketVars, workerVars, closeVars, statVars, level, bypass>>

NoReq == [prio |-> PriorityLow, toa |-> 0]

WorkerLocations ==
    {"top", "high", "medium", "low", "wait", "transmit", "consume", "metric", "done"}

TypeOK ==
    /\ queues \in [Priorities -> Seq(Nat)]
    /\ tokens \in 0..Capacity
    /\ earned \in 0..Capacity
    /\ pc \in WorkerLocations
    /\ req \in [prio : Priorities, toa : Nat]
    /\ producerPc \in [Producers -> {"idle", "evict", "retry"}]
    /\ producerToA \in [Producers -> Nat]
    /\ cancelled \in BOOLEAN
    /\ closer \in {"open", "closing", "closed"}
    /\ txTotal \in [Priorities -> Nat]
    /\ txDrops \in [Priorities -> Nat]
    /\ offered \in [Priorities -> Nat]
    /\ level \in Nat
    /\ bypass \in [Priorities -> Nat]

\* NewTXScheduler: a full bucket, empty queues, the worker started.
Init ==
    /\ queues = [p \in Priorities |-> <<>>]
    /\ tokens = Capacity
    /\ earned = 0
    /\ pc = "top"
    /\ req = NoReq
    /\ producerPc = [r \in Producers |-> "idle"]
    /\ producerToA = [r \in Producers |-> 0]
    /\ cancelled = FALSE
    /\ closer = "open"
    /\ txTotal = [p \in Priorities |-> 0]
    /\ txDrops = [p \in Priorities |-> 0]
    /\ offered = [p \in Priorities |-> 0]
    /\ level = 0
    /\ bypass = [p \in Priorities |-> 0]

-----------------------------------------------------------------------------
(* The token bucket *)

AtMost(n, cap) == IF n > cap THEN cap ELSE n

\* Mutant: elapsed time earns nothing.
RefilledNever == tokens

\* The balance after refill.
Refilled == AtMost(tokens + earned, Capacity)

\* refill, then take amount out, never below zero.
Refill(amount) ==
    /\ tokens' = IF Refilled > amount THEN Refilled - amount ELSE 0
    /\ earned' = 0

\* Time passes.  More than a full bucket cannot be earned.
Tick ==
    /\ earned' = AtMost(earned + RefillRate, Capacity)
    /\ level' = IF level > RefillRate THEN level - RefillRate ELSE 0
    /\ UNCHANGED <<queueVars, tokens, workerVars, closeVars, statVars, bypass>>

\* GetStats, from any goroutine: Utilization refills the bucket.
GetStats ==
    /\ Refill(0)
    /\ UNCHANGED <<queueVars, workerVars, closeVars, statVars, level, bypass>>

-----------------------------------------------------------------------------
(* Enqueue *)

Full(p) == Len(queues[p]) >= QueueSize

\* Put a frame in, or count it as dropped.
Push(p, toa) == queues' = [queues EXCEPT ![p] = Append(@, toa)]
RecordDrop(p) == txDrops' = [txDrops EXCEPT ![p] = @ + 1]

OfferedSoFar == offered[PriorityHigh] + offered[PriorityMedium] + offered[PriorityLow]

\* The first attempt: queue the frame, drop it, or, for a MEDIUM frame, go and
\* take a LOW one out.
Enqueue(r, p, toa) ==
    /\ producerPc[r] = "idle"
    /\ OfferedSoFar < MaxOffered
    /\ offered' = [offered EXCEPT ![p] = @ + 1]
    /\ \/ /\ ~Full(p)
          /\ Push(p, toa)
          /\ UNCHANGED <<producerPc, producerToA, txDrops>>
       \/ /\ Full(p)
          /\ p # PriorityMedium
          /\ RecordDrop(p)
          /\ UNCHANGED <<queues, producerPc, producerToA>>
       \/ /\ Full(p)
          /\ p = PriorityMedium
          /\ producerPc' = [producerPc EXCEPT ![r] = "evict"]
          /\ producerToA' = [producerToA EXCEPT ![r] = toa]
          /\ UNCHANGED <<queues, txDrops>>
    /\ UNCHANGED <<bucketVars, workerVars, closeVars, txTotal, level, bypass>>

\* Mutant: the evicted frame is not counted.
EvictLowUncounted(r) ==
    /\ producerPc[r] = "evict"
    /\ producerPc' = [producerPc EXCEPT ![r] = "retry"]
    /\ queues' = [queues EXCEPT ![PriorityLow] = IF @ = <<>> THEN @ ELSE Tail(@)]
    /\ UNCHANGED <<producerToA, offered, bucketVars, workerVars, closeVars, statVars, level,
                   bypass>>

\* "Try to drop one LOW priority frame to make room".
EvictLow(r) ==
    /\ producerPc[r] = "evict"
    /\ producerPc' = [producerPc EXCEPT ![r] = "retry"]
    /\ \/ /\ queues[PriorityLow] # <<>>
          /\ queues' = [queues EXCEPT ![PriorityLow] = Tail(@)]
          /\ RecordDrop(PriorityLow)
       \/ /\ queues[PriorityLow] = <<>>
          /\ UNCHANGED <<queues, txDrops>>
    /\ UNCHANGED <<producerToA, offered, bucketVars, workerVars, closeVars, txTotal, level,
                   bypass>>

\* "Try enqueue again".
RetryMedium(r) ==
    /\ producerPc[r] = "retry"
    /\ producerPc' = [producerPc EXCEPT ![r] = "idle"]
    /\ producerToA' = [producerToA EXCEPT ![r] = 0]
    /\ \/ /\ ~Full(PriorityMedium)
          /\ Push(PriorityMedium, producerToA[r])
          /\ UNCHANGED txDrops
       \/ /\ Full(PriorityMedium)
          /\ RecordDrop(PriorityMedium)
          /\ UNCHANGED queues
    /\ UNCHANGED <<offered, bucketVars, workerVars, closeVars, txTotal, level, bypass>>

-----------------------------------------------------------------------------
(* The worker: taking a frame *)

\* The head of the loop: leave if the context is cancelled.
LoopTop ==
    /\ pc = "top"
    /\ pc' = IF cancelled THEN "done" ELSE "high"
    /\ UNCHANGED <<queueVars, bucketVars, req, closeVars, statVars, level, bypass>>

\* Receive the oldest frame of priority p; nobody has passed that queue by.
Take(p) ==
    /\ queues[p] # <<>>
    /\ queues' = [queues EXCEPT ![p] = Tail(@)]
    /\ req' = [prio |-> p, toa |-> Head(queues[p])]
    /\ pc' = "wait"
    /\ bypass' = [bypass EXCEPT ![p] = 0]

\* A non-blocking receive from queue p, going on to the next queue if empty.
TryTake(p, here, next) ==
    /\ pc = here
    /\ \/ Take(p)
       \/ /\ queues[p] = <<>>
          /\ pc' = next
          /\ UNCHANGED <<queues, req, bypass>>
    /\ UNCHANGED <<producerPc, producerToA, offered, bucketVars, closeVars, statVars, level>>

\* Mutant: the queues are visited in the wrong order.
TryHighLast == TryTake(PriorityLow, "high", "medium")

TryHigh == TryTake(PriorityHigh, "high", "medium")
TryMedium == TryTake(PriorityMedium, "medium", "low")

\* The last select blocks: a LOW frame, the cancellation, or ten milliseconds
\* with neither.
TryLow ==
    /\ pc = "low"
    /\ \/ Take(PriorityLow)
       \/ /\ cancelled
          /\ pc' = "done"
          /\ UNCHANGED <<queues, req, bypass>>
       \/ /\ ~cancelled
          /\ queues[PriorityLow] = <<>>
          /\ pc' = "top"
          /\ UNCHANGED <<queues, req, bypass>>
    /\ UNCHANGED <<producerPc, producerToA, offered, bucketVars, closeVars, statVars, level>>

-----------------------------------------------------------------------------
(* The worker: sending the frame it holds *)

\* Let the held frame go and continue at l.
Release(l) == pc' = l /\ req' = NoReq

\* Calculate rejects the payload.
RejectFrame ==
    /\ pc = "wait"
    /\ req.toa = 0
    /\ RecordDrop(req.prio)
    /\ Release("top")
    /\ UNCHANGED <<queueVars, bucketVars, closeVars, txTotal, level, bypass>>

\* Mutant: any positive balance grants the frame.
WaitGrantedOnAny ==
    /\ pc = "wait"
    /\ req.toa > 0
    /\ Refilled > 0
    /\ Refill(0)
    /\ pc' = "transmit"
    /\ UNCHANGED <<queueVars, req, closeVars, statVars, level, bypass>>

\* TokenBucket.Wait finds enough tokens, even if the context is cancelled.
WaitGranted ==
    /\ pc = "wait"
    /\ req.toa > 0
    /\ Refilled >= req.toa
    /\ Refill(0)
    /\ pc' = "transmit"
    /\ UNCHANGED <<queueVars, req, closeVars, statVars, level, bypass>>

\* Too few tokens: look again 100 milliseconds later.
WaitPolls ==
    /\ pc = "wait"
    /\ req.toa > 0
    /\ Refilled < req.toa
    /\ ~cancelled
    /\ Refill(0)
    /\ UNCHANGED <<queueVars, workerVars, closeVars, statVars, level, bypass>>

\* Too few tokens and the context cancelled: the frame is dropped.
WaitInterrupted ==
    /\ pc = "wait"
    /\ req.toa > 0
    /\ Refilled < req.toa
    /\ cancelled
    /\ Refill(0)
    /\ RecordDrop(req.prio)
    /\ Release("top")
    /\ UNCHANGED <<queueVars, closeVars, txTotal, level, bypass>>

\* A frame goes out: every waiting frame of a higher priority has been passed
\* by once more.
OnAir ==
    bypass' = [p \in Priorities |->
                    IF p < req.prio /\ queues[p] # <<>> THEN bypass[p] + 1 ELSE bypass[p]]

\* Listen-before-talk finds the channel clear (or is not supported) and the
\* radio sends the frame.
SendSucceeds ==
    /\ pc = "transmit"
    /\ OnAir
    /\ level' = level + req.toa
    /\ pc' = "consume"
    /\ UNCHANGED <<queueVars, bucketVars, req, closeVars, statVars>>

\* Listen-before-talk fails or the radio refuses: nothing went out, nothing is
\* charged, the frame is dropped.
TransmitFails ==
    /\ pc = "transmit"
    /\ RecordDrop(req.prio)
    /\ Release("metric")
    /\ UNCHANGED <<queueVars, bucketVars, closeVars, txTotal, level, bypass>>

\* The radio sends the frame and then fails to see that it did, as when the
\* register read of waitForTxDone fails: the frame counts as dropped.  Its
\* airtime is never charged, so that the meter cannot hold for it.
SendFailsAfterAir ==
    /\ pc = "transmit"
    /\ OnAir
    /\ RecordDrop(req.prio)
    /\ Release("metric")
    /\ UNCHANGED <<queueVars, bucketVars, closeVars, txTotal, level>>

\* Mutant: a sent frame is not charged.
ConsumeNothing ==
    /\ pc = "consume"
    /\ Refill(0)
    /\ txTotal' = [txTotal EXCEPT ![req.prio] = @ + 1]
    /\ Release("metric")
    /\ UNCHANGED <<queueVars, closeVars, txDrops, level, bypass>>

\* TokenBucket.Consume after the send, and the frame recorded as sent.
Consume ==
    /\ pc = "consume"
    /\ Refill(req.toa)
    /\ txTotal' = [txTotal EXCEPT ![req.prio] = @ + 1]
    /\ Release("metric")
    /\ UNCHANGED <<queueVars, closeVars, txDrops, level, bypass>>

\* updateDutyCycleMetric ends the iteration; Utilization refills the bucket.
UpdateDutyCycleMetric ==
    /\ pc = "metric"
    /\ Refill(0)
    /\ pc' = "top"
    /\ UNCHANGED <<queueVars, req, closeVars, statVars, level, bypass>>

-----------------------------------------------------------------------------
(* Close *)

\* Mutant: Close waits without cancelling.
CloseUncancelled ==
    /\ closer = "open"
    /\ closer' = "closing"
    /\ UNCHANGED <<queueVars, bucketVars, workerVars, cancelled, statVars, level, bypass>>

\* Close cancels the context and starts waiting for the worker.
Close ==
    /\ closer = "open"
    /\ closer' = "closing"
    /\ cancelled' = TRUE
    /\ UNCHANGED <<queueVars, bucketVars, workerVars, statVars, level, bypass>>

\* Mutant: Close does not wait for the worker.
CloseReturnsAtOnce ==
    /\ closer = "closing"
    /\ closer' = "closed"
    /\ UNCHANGED <<queueVars, bucketVars, workerVars, cancelled, statVars, level, bypass>>

\* The worker has returned, and so does Close.
CloseReturns ==
    /\ closer = "closing"
    /\ pc = "done"
    /\ closer' = "closed"
    /\ UNCHANGED <<queueVars, bucketVars, workerVars, cancelled, statVars, level, bypass>>

-----------------------------------------------------------------------------

Worker ==
    \/ LoopTop
    \/ TryHigh
    \/ TryMedium
    \/ TryLow
    \/ RejectFrame
    \/ WaitGranted
    \/ WaitPolls
    \/ WaitInterrupted
    \/ SendSucceeds
    \/ TransmitFails
    \/ SendFailsAfterAir
    \/ Consume
    \/ UpdateDutyCycleMetric

Producer(r) ==
    \/ \E p \in Priorities, toa \in Airtimes : Enqueue(r, p, toa)
    \/ EvictLow(r)
    \/ RetryMedium(r)

Next ==
    \/ Worker
    \/ \E r \in Producers : Producer(r)
    \/ Close
    \/ CloseReturns
    \/ GetStats
    \/ Tick

Spec == Init /\ [][Next]_vars

\* The worker goroutine runs, the radio answers, time passes, and Close goes on
\* once the worker has returned.  Nobody is obliged to call Enqueue, GetStats
\* or Close.
Fairness ==
    /\ WF_vars(Worker)
    /\ WF_vars(Tick)
    /\ WF_vars(CloseReturns)

FairSpec == Spec /\ Fairness

-----------------------------------------------------------------------------
(* Properties *)

\* The airtime sent and not yet earned back stays within the capacity: the
\* limit the token bucket is there to enforce.
AirtimeBounded == level <= Capacity

\* The scheduler is a duty-cycle limiter: every send that
\* succeeds fits the meter.
Meter == INSTANCE DutyCycleMeter WITH Rate <- RefillRate
ImplementsMeter == Meter!Spec

\* What Wait granted is still there when Consume takes it, although the lock is
\* released in between, so that the clamp at zero never hides an overdraft.
NoOverdraft == pc \in {"transmit", "consume"} => Refilled >= req.toa

\* Frames of priority p the worker or a producer holds outside the queues.
InHand(p) ==
    (IF pc \in {"wait", "transmit", "consume"} /\ req.prio = p THEN 1 ELSE 0)
    + (IF p = PriorityMedium
       THEN Cardinality({r \in Producers : producerPc[r] # "idle"}) ELSE 0)

\* Every frame ever offered is queued, in someone's hands, recorded as sent or
\* recorded as dropped, in its own priority, exactly once.
FramesConserved ==
    \A p \in Priorities :
        offered[p] = Len(queues[p]) + InHand(p) + txTotal[p] + txDrops[p]

\* Between two frames of a priority, at most one frame of a lower priority is
\* sent while one is waiting: the frame the worker had already taken, or took
\* because it had looked at the higher queue a moment too early.
BoundedBypass == \A p \in Priorities : bypass[p] <= 1

\* Once Close has returned nothing is sent and no airtime is spent any more.
SilentAfterClose == [][closer = "closed" => level' <= level /\ txTotal' = txTotal]_vars

\* Close returns, however empty the bucket and however full the queues.
CloseTerminates == closer = "closing" ~> closer = "closed"

\* A waiting HIGH frame is eventually taken from its queue, unless the
\* scheduler is closed.
HighTaken == pc = "wait" /\ req.prio = PriorityHigh
HighServed == queues[PriorityHigh] # <<>> ~> HighTaken \/ cancelled

=============================================================================
