------------------------- MODULE TXScheduler_proofs -------------------------
(***************************************************************************)
(* Proofs about TXScheduler, for any number of producers, any airtimes,    *)
(* queue sizes, capacity and refill rate:                                  *)
(*   - TypeOK is an invariant;                                             *)
(*   - tokens granted by Wait are still there when Consume takes them;     *)
(*   - at most one frame of lower priority passes a waiting frame;         *)
(*   - every frame offered is accounted for, once;                         *)
(*   - nothing is sent after Close has returned;                           *)
(*   - if a failed send never reaches the air, the scheduler implements    *)
(*     the duty-cycle meter, so the airtime stays within the capacity.     *)
(***************************************************************************)
EXTENDS TXScheduler, SequenceTheorems, FiniteSetTheorems, TLAPS

-----------------------------------------------------------------------------
(* Types *)

\* A balance capped at the capacity stays between zero and the capacity.
LEMMA CappedRange ==
    ASSUME NEW n \in Nat PROVE AtMost(n, Capacity) \in 0..Capacity
  BY SchedulerAssumption DEF AtMost

\* Refill leaves a balance within the capacity and nothing earned.
LEMMA RefillType ==
    ASSUME TypeOK, NEW amount \in Nat, Refill(amount)
    PROVE  tokens' \in 0..Capacity /\ earned' \in 0..Capacity
<1>1. tokens + earned \in Nat
  BY SchedulerAssumption DEF TypeOK
<1>2. Refilled \in 0..Capacity
  BY <1>1, CappedRange DEF Refilled
<1> QED
  BY <1>2, SchedulerAssumption DEF Refill

\* The initial state has the declared types.
LEMMA InitTypeOK == Init => TypeOK
<1> SUFFICES ASSUME Init PROVE TypeOK
  OBVIOUS
<1>1. queues \in [Priorities -> Seq(Nat)]
  BY DEF Init
<1>2. req \in [prio : Priorities, toa : Nat]
  BY DEF Init, NoReq, Priorities
<1>3. producerPc \in [Producers -> {"idle", "evict", "retry"}] /\ producerToA \in [Producers -> Nat]
  BY DEF Init
<1>4. /\ txTotal \in [Priorities -> Nat]
      /\ txDrops \in [Priorities -> Nat]
      /\ offered \in [Priorities -> Nat]
      /\ bypass \in [Priorities -> Nat]
  BY DEF Init
<1>5. tokens \in 0..Capacity /\ earned \in 0..Capacity /\ level \in Nat
  BY SchedulerAssumption DEF Init
<1>6. /\ pc \in WorkerLocations
      /\ cancelled \in BOOLEAN
      /\ closer \in {"open", "closing", "closed"}
  BY DEF Init, WorkerLocations
<1> QED
  BY <1>1, <1>2, <1>3, <1>4, <1>5, <1>6 DEF TypeOK

\* The worker's steps keep the types.
LEMMA WorkerTypeOK == ASSUME TypeOK, Worker PROVE TypeOK'
<1> USE SchedulerAssumption DEF TypeOK, queueVars, bucketVars, workerVars, closeVars, statVars
<1>1. CASE LoopTop
  BY <1>1 DEF LoopTop, WorkerLocations
<1>2. ASSUME NEW p \in Priorities, Take(p)
      PROVE  /\ queues' \in [Priorities -> Seq(Nat)]
             /\ req' \in [prio : Priorities, toa : Nat]
             /\ pc' \in WorkerLocations
             /\ bypass' \in [Priorities -> Nat]
  <2>1. queues[p] \in Seq(Nat) /\ queues[p] # <<>>
    BY <1>2 DEF Take
  <2>2. Head(queues[p]) \in Nat /\ Tail(queues[p]) \in Seq(Nat)
    BY <2>1
  <2> QED
    BY <1>2, <2>2 DEF Take, WorkerLocations
<1>3. ASSUME NEW p \in Priorities, NEW here, NEW next \in WorkerLocations, TryTake(p, here, next)
      PROVE  TypeOK'
  BY <1>2, <1>3 DEF TryTake
<1>4. CASE TryHigh
  BY <1>3, <1>4 DEF TryHigh, Priorities, WorkerLocations
<1>5. CASE TryMedium
  BY <1>3, <1>5 DEF TryMedium, Priorities, WorkerLocations
<1>6. CASE TryLow
  <2>1. PriorityLow \in Priorities
    BY DEF Priorities
  <2>2. CASE Take(PriorityLow)
    BY <1>2, <1>6, <2>1, <2>2 DEF TryLow
  <2> QED
    BY <1>6, <2>2 DEF TryLow, WorkerLocations
<1>7. NoReq \in [prio : Priorities, toa : Nat]
  BY DEF NoReq, Priorities
<1>18. ASSUME NEW p \in Priorities, RecordDrop(p) PROVE txDrops' \in [Priorities -> Nat]
  BY <1>18 DEF RecordDrop
<1>19. req.prio \in Priorities /\ req.toa \in Nat
  OBVIOUS
<1>8. CASE RejectFrame
  BY <1>7, <1>8, <1>18, <1>19 DEF RejectFrame, Release, WorkerLocations
<1>9. CASE WaitGranted
  BY <1>9, RefillType DEF WaitGranted, WorkerLocations
<1>10. CASE WaitPolls
  BY <1>10, RefillType DEF WaitPolls
<1>11. CASE WaitInterrupted
  BY <1>7, <1>11, <1>18, <1>19, RefillType DEF WaitInterrupted, Release, WorkerLocations
<1>12. ASSUME OnAir PROVE bypass' \in [Priorities -> Nat]
  BY <1>12 DEF OnAir
<1>13. CASE SendSucceeds
  BY <1>12, <1>13 DEF SendSucceeds, WorkerLocations
<1>14. CASE TransmitFails
  BY <1>7, <1>14, <1>18, <1>19 DEF TransmitFails, Release, WorkerLocations
<1>15. CASE SendFailsAfterAir
  BY <1>7, <1>12, <1>15, <1>18, <1>19 DEF SendFailsAfterAir, Release, WorkerLocations
<1>16. CASE Consume
  <2>1. tokens' \in 0..Capacity /\ earned' \in 0..Capacity
    BY <1>16, <1>19, RefillType DEF Consume
  <2>2. txTotal' \in [Priorities -> Nat]
    BY <1>16, <1>19 DEF Consume
  <2> QED
    BY <1>7, <1>16, <2>1, <2>2 DEF Consume, Release, WorkerLocations
<1>17. CASE UpdateDutyCycleMetric
  BY <1>17, RefillType DEF UpdateDutyCycleMetric, WorkerLocations
<1> QED
  BY <1>1, <1>4, <1>5, <1>6, <1>8, <1>9, <1>10, <1>11, <1>13, <1>14, <1>15, <1>16, <1>17
     DEF Worker

\* The steps of Enqueue keep the types.
LEMMA ProducerTypeOK == ASSUME TypeOK, NEW r \in Producers, Producer(r) PROVE TypeOK'
<1> USE SchedulerAssumption DEF TypeOK, queueVars, bucketVars, workerVars, closeVars, statVars
<1>1. PriorityMedium \in Priorities /\ PriorityLow \in Priorities
  BY DEF Priorities
<1>2. ASSUME NEW p \in Priorities, NEW toa \in Nat, Push(p, toa)
      PROVE  queues' \in [Priorities -> Seq(Nat)]
  <2>1. Append(queues[p], toa) \in Seq(Nat)
    OBVIOUS
  <2> QED
    BY <1>2, <2>1 DEF Push
<1>3. ASSUME NEW p \in Priorities, RecordDrop(p) PROVE txDrops' \in [Priorities -> Nat]
  BY <1>3 DEF RecordDrop
<1>4. ASSUME NEW p \in Priorities, NEW toa \in Airtimes, Enqueue(r, p, toa) PROVE TypeOK'
  <2>1. toa \in Nat /\ offered' \in [Priorities -> Nat]
    BY <1>4 DEF Enqueue
  <2>2. /\ queues' \in [Priorities -> Seq(Nat)]
        /\ txDrops' \in [Priorities -> Nat]
        /\ producerPc' \in [Producers -> {"idle", "evict", "retry"}]
        /\ producerToA' \in [Producers -> Nat]
    <3>1. CASE ~Full(p)
      BY <1>2, <1>4, <2>1, <3>1 DEF Enqueue
    <3>2. CASE Full(p) /\ p # PriorityMedium
      BY <1>3, <1>4, <3>2 DEF Enqueue
    <3>3. CASE Full(p) /\ p = PriorityMedium
      BY <1>4, <2>1, <3>3 DEF Enqueue
    <3> QED
      BY <3>1, <3>2, <3>3
  <2> QED
    BY <1>4, <2>1, <2>2 DEF Enqueue
<1>5. CASE EvictLow(r)
  <2>1. queues[PriorityLow] # <<>> => Tail(queues[PriorityLow]) \in Seq(Nat)
    BY <1>1
  <2>2. queues' \in [Priorities -> Seq(Nat)] /\ txDrops' \in [Priorities -> Nat]
    BY <1>1, <1>3, <1>5, <2>1 DEF EvictLow
  <2> QED
    BY <1>5, <2>2 DEF EvictLow
<1>6. CASE RetryMedium(r)
  <2>1. producerToA[r] \in Nat
    OBVIOUS
  <2>2. queues' \in [Priorities -> Seq(Nat)] /\ txDrops' \in [Priorities -> Nat]
    <3>1. CASE ~Full(PriorityMedium)
      BY <1>1, <1>2, <1>6, <2>1, <3>1 DEF RetryMedium
    <3>2. CASE Full(PriorityMedium)
      BY <1>1, <1>3, <1>6, <3>2 DEF RetryMedium
    <3> QED
      BY <3>1, <3>2
  <2> QED
    BY <1>6, <2>2 DEF RetryMedium
<1> QED
  BY <1>4, <1>5, <1>6 DEF Producer

\* Every step keeps the types.
LEMMA NextTypeOK == TypeOK /\ [Next]_vars => TypeOK'
<1> SUFFICES ASSUME TypeOK, [Next]_vars PROVE TypeOK'
  OBVIOUS
<1> USE DEF queueVars, bucketVars, workerVars, closeVars, statVars
<1>1. CASE Close
  BY <1>1 DEF Close, TypeOK
<1>2. CASE CloseReturns
  BY <1>2 DEF CloseReturns, TypeOK
<1>3. CASE GetStats
  <2>1. tokens' \in 0..Capacity /\ earned' \in 0..Capacity
    BY <1>3, RefillType DEF GetStats
  <2> QED
    BY <1>3, <2>1 DEF GetStats, TypeOK
<1>4. CASE Tick
  <2>1. earned + RefillRate \in Nat
    BY SchedulerAssumption DEF TypeOK
  <2>2. earned' \in 0..Capacity
    BY <1>4, <2>1, CappedRange DEF Tick
  <2> QED
    BY <1>4, <2>2, SchedulerAssumption DEF Tick, TypeOK
<1>5. CASE UNCHANGED vars
  BY <1>5 DEF vars, TypeOK
<1> QED
  BY <1>1, <1>2, <1>3, <1>4, <1>5, WorkerTypeOK, ProducerTypeOK DEF Next

\* The queues, the bucket, the worker, the statistics and the history keep
\* their types; in particular the balance never leaves 0..Capacity.
THEOREM TypeCorrect == Spec => []TypeOK
  BY InitTypeOK, NextTypeOK, PTL DEF Spec

-----------------------------------------------------------------------------
(* The duty cycle *)

\* What the worker has put on the air and not paid for yet.
Owed == IF pc = "consume" THEN req.toa ELSE 0

\* The meter's reading and the balance together never exceed the capacity, but
\* for the frame between the send and its charge.
BalanceInv == level + Refilled <= Capacity + Owed

BucketInv ==
    /\ TypeOK
    /\ NoOverdraft

\* The worker only puts frames on the air that Wait has granted, and no other
\* goroutine takes tokens out, so a grant stays good until Consume.
LEMMA BucketStep == BucketInv /\ [Next]_vars => BucketInv'
<1> SUFFICES ASSUME BucketInv, [Next]_vars PROVE NoOverdraft'
  BY NextTypeOK DEF BucketInv
<1>0. TypeOK'
  BY NextTypeOK DEF BucketInv
<1> USE SchedulerAssumption DEF BucketInv, TypeOK, NoOverdraft, Refilled, AtMost, Refill,
        queueVars, bucketVars, workerVars, closeVars, statVars
<1>1. CASE Worker
  <2>1. CASE LoopTop \/ TryHigh \/ TryMedium \/ TryLow
    <3>1. pc' \notin {"transmit", "consume"}
      BY <2>1 DEF LoopTop, TryHigh, TryMedium, TryLow, TryTake, Take
    <3> QED
      BY <3>1
  <2>2. CASE WaitGranted
    BY <2>2 DEF WaitGranted
  <2>3. CASE SendSucceeds
    BY <2>3 DEF SendSucceeds
  <2>4. CASE RejectFrame \/ WaitPolls \/ WaitInterrupted
    BY <2>4 DEF RejectFrame, WaitPolls, WaitInterrupted, Release
  <2>5. CASE TransmitFails \/ SendFailsAfterAir \/ Consume \/ UpdateDutyCycleMetric
    BY <2>5 DEF TransmitFails, SendFailsAfterAir, Consume, UpdateDutyCycleMetric, Release
  <2> QED
    BY <1>1, <2>1, <2>2, <2>3, <2>4, <2>5 DEF Worker
<1>2. ASSUME NEW r \in Producers, Producer(r) PROVE NoOverdraft'
  BY <1>2 DEF Producer, Enqueue, EvictLow, RetryMedium
<1>3. CASE Close \/ CloseReturns
  BY <1>3 DEF Close, CloseReturns
<1>4. CASE GetStats
  BY <1>4 DEF GetStats
<1>5. CASE Tick
  BY <1>5 DEF Tick
<1>6. CASE UNCHANGED vars
  BY <1>6 DEF vars
<1> QED
  BY <1>1, <1>2, <1>3, <1>4, <1>5, <1>6 DEF Next

\* Consume always finds the tokens Wait saw, although Wait released the lock:
\* charging a sent frame never needs the clamp at zero.
THEOREM GrantKept == Spec => []NoOverdraft
<1>1. Init => BucketInv
  BY InitTypeOK DEF BucketInv, NoOverdraft, Init
<1>2. BucketInv => NoOverdraft
  BY DEF BucketInv
<1> QED
  BY <1>1, <1>2, BucketStep, PTL DEF Spec

\* Every step keeps the balance, and moves the meter only as the abstract limiter
\* allows.
LEMMA MeterStep ==
    ASSUME BucketInv, BalanceInv, [Next]_vars
    PROVE  BalanceInv' /\ [Meter!Next]_level
<1>0. TypeOK'
  BY NextTypeOK DEF BucketInv
<1>t. /\ tokens \in 0..Capacity
      /\ earned \in 0..Capacity
      /\ level \in Nat
      /\ req.toa \in Nat
  BY DEF BucketInv, TypeOK
<1>n. NoOverdraft
  BY DEF BucketInv
<1> USE <1>0, <1>t, SchedulerAssumption DEF BalanceInv, Owed, Refilled, AtMost, Refill
<1>1. CASE SendSucceeds
  <2>1. level' = level + req.toa /\ pc = "transmit" /\ pc' = "consume" /\ req' = req
    BY <1>1 DEF SendSucceeds
  <2>2. tokens' = tokens /\ earned' = earned
    BY <1>1 DEF SendSucceeds, bucketVars
  <2>3. Refilled >= req.toa
    BY <1>n, <2>1 DEF NoOverdraft
  <2>4. level + req.toa <= Capacity
    BY <2>1, <2>3
  <2>5. req.toa > 0 => Meter!Next
    BY <2>1, <2>4 DEF Meter!Next, Meter!Emit
  <2>6. req.toa = 0 => level' = level
    BY <2>1
  <2> QED
    BY <2>1, <2>2, <2>5, <2>6
<1>2. CASE Consume
  <2>1. level' = level /\ pc = "consume" /\ pc' = "metric"
    BY <1>2 DEF Consume, Release
  <2>2. Refilled >= req.toa
    BY <1>n, <2>1 DEF NoOverdraft
  <2>3. tokens' = Refilled - req.toa /\ earned' = 0
    BY <1>2, <2>2 DEF Consume
  <2> QED
    BY <2>1, <2>2, <2>3
<1>3. CASE Tick
  <2>1. earned' = AtMost(earned + RefillRate, Capacity) /\ tokens' = tokens /\ pc' = pc /\ req' = req
    BY <1>3 DEF Tick, workerVars
  <2>2. level' = IF level > RefillRate THEN level - RefillRate ELSE 0
    BY <1>3 DEF Tick
  <2>3. Meter!Leak
    BY <2>2 DEF Meter!Leak
  <2>4. Refilled' <= Refilled + RefillRate /\ Refilled' <= Capacity
    BY <2>1
  <2>5. Owed \in Nat
    OBVIOUS
  <2> QED
    BY <2>1, <2>2, <2>3, <2>4, <2>5 DEF Meter!Next
<1>4. ASSUME Refill(0), level' = level, pc # "consume", pc' # "consume"
      PROVE  BalanceInv' /\ level' = level
  BY <1>4
<1>5. ASSUME UNCHANGED bucketVars, level' = level, pc # "consume", pc' # "consume"
      PROVE  BalanceInv' /\ level' = level
  BY <1>5 DEF bucketVars
<1>6. ASSUME UNCHANGED bucketVars, level' = level, UNCHANGED workerVars
      PROVE  BalanceInv' /\ level' = level
  BY <1>6 DEF bucketVars, workerVars
<1>7. CASE Worker
  <2>1. CASE LoopTop \/ TryHigh \/ TryMedium \/ TryLow
    BY <1>5, <2>1 DEF LoopTop, TryHigh, TryMedium, TryLow, TryTake, Take
  <2>2. CASE WaitGranted \/ WaitPolls \/ WaitInterrupted \/ UpdateDutyCycleMetric
    BY <1>4, <2>2 DEF WaitGranted, WaitPolls, WaitInterrupted, UpdateDutyCycleMetric,
                      Release, workerVars
  <2>3. CASE RejectFrame \/ TransmitFails \/ SendFailsAfterAir
    BY <1>5, <2>3 DEF RejectFrame, TransmitFails, SendFailsAfterAir, Release
  <2> QED
    BY <1>1, <1>2, <1>7, <2>1, <2>2, <2>3 DEF Worker
<1>8. ASSUME NEW r \in Producers, Producer(r) PROVE BalanceInv' /\ level' = level
  BY <1>6, <1>8 DEF Producer, Enqueue, EvictLow, RetryMedium
<1>9. CASE Close \/ CloseReturns
  BY <1>6, <1>9 DEF Close, CloseReturns
<1>10. CASE GetStats
  BY <1>10 DEF GetStats, workerVars
<1>11. CASE UNCHANGED vars
  BY <1>6, <1>11 DEF vars
<1> QED
  BY <1>3, <1>7, <1>8, <1>9, <1>10, <1>11 DEF Next

\* The scheduler implements the duty-cycle meter, for every capacity, refill
\* rate, queue size and mix of frames, as far as it knows of the sends.
THEOREM SchedulerIsMeter == Spec => ImplementsMeter
<1>1. Init => BucketInv /\ BalanceInv /\ Meter!Init
  <2> SUFFICES ASSUME Init PROVE BucketInv /\ BalanceInv /\ Meter!Init
    OBVIOUS
  <2>1. BucketInv
    BY InitTypeOK DEF BucketInv, NoOverdraft, Init
  <2> QED
    BY <2>1, SchedulerAssumption DEF Init, BalanceInv, Refilled, AtMost, Owed, Meter!Init
<1>2. BucketInv /\ BalanceInv /\ [Next]_vars => (BucketInv /\ BalanceInv)' /\ [Meter!Next]_level
  BY BucketStep, MeterStep
<1> QED
  BY <1>1, <1>2, PTL DEF Spec, ImplementsMeter, Meter!Spec

\* Consequently the airtime emitted and not yet earned back is never more than
\* the capacity.
THEOREM AirtimeWithinCapacity == Spec => []AirtimeBounded
<1>1. Init => BucketInv /\ BalanceInv
  <2> SUFFICES ASSUME Init PROVE BucketInv /\ BalanceInv
    OBVIOUS
  <2>1. BucketInv
    BY InitTypeOK DEF BucketInv, NoOverdraft, Init
  <2> QED
    BY <2>1, SchedulerAssumption DEF Init, BalanceInv, Refilled, AtMost, Owed
<1>2. BucketInv /\ BalanceInv /\ [Next]_vars => (BucketInv /\ BalanceInv)'
  BY BucketStep, MeterStep
<1>3. BucketInv /\ BalanceInv => AirtimeBounded
  <2> SUFFICES ASSUME BucketInv, BalanceInv PROVE level <= Capacity
    BY DEF AirtimeBounded
  <2>1. level \in Nat /\ req.toa \in Nat /\ tokens \in Nat /\ earned \in Nat
    BY SchedulerAssumption DEF BucketInv, TypeOK
  <2>2. Refilled >= Owed
    BY <2>1, SchedulerAssumption DEF BucketInv, NoOverdraft, Refilled, AtMost, Owed
  <2> QED
    BY <2>1, <2>2, SchedulerAssumption DEF BalanceInv, Refilled, AtMost, Owed
<1> QED
  BY <1>1, <1>2, <1>3, PTL DEF Spec

-----------------------------------------------------------------------------
(* Priorities *)

\* The worker is past the point of looking at queue p in this iteration, or
\* holds a frame of lower priority than p.
PastQueue(p) ==
    \/ pc \in {"medium", "low"} /\ p = PriorityHigh
    \/ pc = "low" /\ p = PriorityMedium
    \/ pc \in {"wait", "transmit"} /\ req.prio > p

\* Once a frame has been passed by, its queue is not empty and the worker comes
\* to it before it can take anything lower.
BypassInv ==
    /\ TypeOK
    /\ \A p \in Priorities :
        /\ bypass[p] <= 1
        /\ bypass[p] = 1 => queues[p] # <<>> /\ ~PastQueue(p) /\ p # PriorityLow

\* No step lets a second lower frame pass: the only steps that raise the count
\* need the worker past the queue.
LEMMA BypassStep == BypassInv /\ [Next]_vars => BypassInv'
<1> SUFFICES ASSUME BypassInv, [Next]_vars PROVE BypassInv'
  OBVIOUS
<1>0. TypeOK'
  BY NextTypeOK DEF BypassInv
<1>1. /\ queues \in [Priorities -> Seq(Nat)]
      /\ bypass \in [Priorities -> Nat]
      /\ req.prio \in Priorities
  BY DEF BypassInv, TypeOK
<1>2. \A p \in Priorities : p \in {0, 1, 2}
  BY DEF Priorities, PriorityHigh, PriorityMedium, PriorityLow
<1> USE <1>0, <1>1 DEF BypassInv, PastQueue, queueVars, bucketVars, workerVars, closeVars,
        statVars
<1>3. ASSUME NEW q \in Priorities, Take(q),
             \A p \in Priorities : p < q => queues[p] = <<>> \/ bypass[p] = 0
      PROVE  BypassInv'
  <2> SUFFICES ASSUME NEW p \in Priorities
               PROVE  /\ bypass'[p] <= 1
                      /\ bypass'[p] = 1 => queues'[p] # <<>> /\ ~PastQueue(p)' /\ p # PriorityLow
    OBVIOUS
  <2>1. CASE p = q
    BY <1>3, <2>1 DEF Take
  <2>2. CASE p # q
    <3>1. bypass'[p] = bypass[p] /\ queues'[p] = queues[p] /\ pc' = "wait" /\ req'.prio = q
      BY <1>3, <2>2 DEF Take
    <3>2. bypass[p] = 1 => ~(p < q)
      BY <1>3
    <3> QED
      BY <1>2, <3>1, <3>2
  <2> QED
    BY <2>1, <2>2
<1>4. ASSUME queues' = queues, bypass' = bypass, \A p \in Priorities : PastQueue(p)' => PastQueue(p)
      PROVE  BypassInv'
  BY <1>4
<1>5. CASE TryHigh
  <2>1. CASE Take(PriorityHigh)
    BY <1>2, <1>3, <2>1 DEF Priorities, PriorityHigh
  <2>2. CASE queues[PriorityHigh] = <<>> /\ pc' = "medium" /\ UNCHANGED <<queues, req, bypass>>
    BY <2>2, <1>2 DEF PriorityHigh, PriorityMedium, PriorityLow
  <2> QED
    BY <1>5, <2>1, <2>2 DEF TryHigh, TryTake
<1>6. CASE TryMedium
  <2>0. pc = "medium"
    BY <1>6 DEF TryMedium, TryTake
  <2>1. bypass[PriorityHigh] = 0
    BY <2>0 DEF Priorities
  <2>2. CASE Take(PriorityMedium)
    BY <1>2, <1>3, <2>1, <2>2 DEF Priorities, PriorityHigh, PriorityMedium
  <2>3. CASE queues[PriorityMedium] = <<>> /\ pc' = "low" /\ UNCHANGED <<queues, req, bypass>>
    BY <1>2, <2>1, <2>3 DEF PriorityHigh, PriorityMedium, PriorityLow
  <2> QED
    BY <1>6, <2>2, <2>3 DEF TryMedium, TryTake
<1>7. CASE TryLow
  <2>0. pc = "low"
    BY <1>7 DEF TryLow
  <2>1. bypass[PriorityHigh] = 0 /\ bypass[PriorityMedium] = 0
    BY <2>0 DEF Priorities
  <2>2. CASE Take(PriorityLow)
    BY <1>2, <1>3, <2>1, <2>2 DEF Priorities, PriorityHigh, PriorityMedium, PriorityLow
  <2>3. CASE pc' \in {"done", "top"} /\ UNCHANGED <<queues, req, bypass>>
    BY <1>4, <2>3
  <2> QED
    BY <1>7, <2>2, <2>3 DEF TryLow
<1>8. CASE SendSucceeds \/ SendFailsAfterAir
  <2>1. pc = "transmit" /\ OnAir /\ queues' = queues /\ pc' \in {"consume", "metric"}
    BY <1>8 DEF SendSucceeds, SendFailsAfterAir, Release
  <2> SUFFICES ASSUME NEW p \in Priorities
               PROVE  /\ bypass'[p] <= 1
                      /\ bypass'[p] = 1 => queues'[p] # <<>> /\ ~PastQueue(p)' /\ p # PriorityLow
    OBVIOUS
  <2>2. CASE p < req.prio /\ queues[p] # <<>>
    <3>0. PastQueue(p)
      BY <1>2, <2>1, <2>2
    <3>1. bypass[p] = 0 /\ p # PriorityLow
      <4>1. bypass[p] \in Nat /\ bypass[p] <= 1 /\ bypass[p] # 1
        BY <3>0
      <4>2. p \in {0, 1, 2} /\ req.prio \in {0, 1, 2}
        BY <1>2
      <4> QED
        BY <2>2, <4>1, <4>2 DEF PriorityLow
    <3>2. bypass'[p] = 1 /\ ~PastQueue(p)'
      BY <2>1, <2>2, <3>1 DEF OnAir
    <3> QED
      BY <2>1, <2>2, <3>1, <3>2
  <2>3. CASE ~(p < req.prio /\ queues[p] # <<>>)
    BY <2>1, <2>3 DEF OnAir
  <2> QED
    BY <2>2, <2>3
<1>9. CASE LoopTop \/ RejectFrame \/ WaitGranted \/ WaitPolls \/ WaitInterrupted
  BY <1>4, <1>9 DEF LoopTop, RejectFrame, WaitGranted, WaitPolls, WaitInterrupted, Release
<1>10. CASE TransmitFails \/ Consume \/ UpdateDutyCycleMetric
  BY <1>4, <1>10 DEF TransmitFails, Consume, UpdateDutyCycleMetric, Release
<1>11. CASE Worker
  BY <1>5, <1>6, <1>7, <1>8, <1>9, <1>10, <1>11 DEF Worker
<1>12. ASSUME UNCHANGED <<pc, req, bypass>>,
              \A p \in Priorities : p # PriorityLow /\ queues[p] # <<>> => queues'[p] # <<>>
       PROVE  BypassInv'
  BY <1>12
<1>13. ASSUME NEW r \in Producers, Producer(r) PROVE BypassInv'
  <2>1. ASSUME NEW p \in Priorities, NEW toa \in Nat, Push(p, toa)
        PROVE  \A q \in Priorities : queues[q] # <<>> => queues'[q] # <<>>
    <3>1. queues[p] \in Seq(Nat)
      OBVIOUS
    <3>2. Append(queues[p], toa) # <<>>
      BY <3>1, AppendProperties
    <3>3. queues' = [queues EXCEPT ![p] = Append(queues[p], toa)]
      BY <2>1 DEF Push
    <3> QED
      BY <3>2, <3>3
  <2>2. PriorityMedium \in Priorities
    BY DEF Priorities
  <2>3. CASE \E p \in Priorities, toa \in Airtimes : Enqueue(r, p, toa)
    BY <1>12, <2>1, <2>3, SchedulerAssumption DEF Enqueue
  <2>4. CASE EvictLow(r)
    BY <1>12, <2>4 DEF EvictLow
  <2>5. CASE RetryMedium(r)
    <3>1. producerToA[r] \in Nat
      BY DEF TypeOK
    <3> QED
      BY <1>12, <2>1, <2>2, <2>5, <3>1 DEF RetryMedium
  <2> QED
    BY <1>13, <2>3, <2>4, <2>5 DEF Producer
<1>14. CASE Close \/ CloseReturns \/ GetStats \/ Tick \/ UNCHANGED vars
  BY <1>4, <1>14 DEF Close, CloseReturns, GetStats, Tick, vars
<1> QED
  BY <1>11, <1>13, <1>14 DEF Next

\* However producers and worker interleave, a waiting frame sees at most one
\* frame of lower priority sent before one of its own priority is taken.
THEOREM OneBypass == Spec => []BoundedBypass
<1>1. Init => BypassInv
  BY InitTypeOK DEF Init, BypassInv
<1>2. BypassInv => BoundedBypass
  BY DEF BypassInv, BoundedBypass
<1> QED
  BY <1>1, <1>2, BypassStep, PTL DEF Spec

-----------------------------------------------------------------------------
(* Accounting *)

\* The producers that hold a frame: as many as calls of Enqueue are under way.
Offering == {r \in Producers : producerPc[r] # "idle"}

HeldByWorker(p) == IF pc \in {"wait", "transmit", "consume"} /\ req.prio = p THEN 1 ELSE 0
HeldByProducers(p) == IF p = PriorityMedium THEN Cardinality(Offering) ELSE 0

ConservedInv == TypeOK /\ IsFiniteSet(Offering) /\ FramesConserved

\* The account of one priority in one place.
LEMMA Accounts ==
    FramesConserved <=>
        \A p \in Priorities :
            offered[p] = Len(queues[p]) + (HeldByWorker(p) + HeldByProducers(p)) + txTotal[p] + txDrops[p]
  BY DEF FramesConserved, InHand, HeldByWorker, HeldByProducers, Offering

\* Queues one longer or one shorter.
LEMMA QueueLengths ==
    ASSUME NEW q \in Seq(Nat), NEW e \in Nat
    PROVE  /\ Len(q) \in Nat
           /\ Len(Append(q, e)) = Len(q) + 1
           /\ q # <<>> => Len(Tail(q)) = Len(q) - 1 /\ Len(q) > 0
  BY EmptySeq, LenProperties, AppendProperties, HeadTailProperties

\* The worker hands frames on.
LEMMA WorkerConserves == ASSUME ConservedInv, Worker PROVE ConservedInv'
<1>0. TypeOK /\ TypeOK'
  BY NextTypeOK DEF ConservedInv, Next
<1>1. UNCHANGED <<producerPc, producerToA, offered>>
  BY DEF Worker, LoopTop, TryHigh, TryMedium, TryLow, TryTake, RejectFrame, WaitGranted, WaitPolls,
         WaitInterrupted, SendSucceeds, TransmitFails, SendFailsAfterAir, Consume,
         UpdateDutyCycleMetric, queueVars
<1>2. Offering' = Offering
  BY <1>1 DEF Offering
<1>3. \A p \in Priorities :
          Len(queues'[p]) + HeldByWorker(p)' + txTotal'[p] + txDrops'[p]
            = Len(queues[p]) + HeldByWorker(p) + txTotal[p] + txDrops[p]
  <2> SUFFICES ASSUME NEW p \in Priorities
               PROVE  Len(queues'[p]) + HeldByWorker(p)' + txTotal'[p] + txDrops'[p]
                        = Len(queues[p]) + HeldByWorker(p) + txTotal[p] + txDrops[p]
    OBVIOUS
  <2>1. /\ queues \in [Priorities -> Seq(Nat)] /\ queues[p] \in Seq(Nat)
        /\ txTotal \in [Priorities -> Nat] /\ txDrops \in [Priorities -> Nat]
        /\ txTotal[p] \in Nat /\ txDrops[p] \in Nat
        /\ req.prio \in Priorities
    BY <1>0 DEF TypeOK
  <2>2. Len(queues[p]) \in Nat /\ (queues[p] # <<>> => Len(Tail(queues[p])) = Len(queues[p]) - 1)
    BY <2>1, QueueLengths
  <2>3. ASSUME NEW q \in Priorities, Take(q), UNCHANGED statVars, pc \in {"high", "medium", "low"}
        PROVE  Len(queues'[p]) + HeldByWorker(p)' + txTotal'[p] + txDrops'[p]
                 = Len(queues[p]) + HeldByWorker(p) + txTotal[p] + txDrops[p]
    <3>1. HeldByWorker(p) = 0 /\ HeldByWorker(p)' = IF q = p THEN 1 ELSE 0
      BY <2>3 DEF Take, HeldByWorker
    <3>2. queues'[p] = IF q = p THEN Tail(queues[p]) ELSE queues[p]
      BY <2>1, <2>3 DEF Take
    <3>3. q = p => queues[p] # <<>>
      BY <2>3 DEF Take
    <3> QED
      BY <2>1, <2>2, <2>3, <3>1, <3>2, <3>3 DEF statVars
  <2>4. CASE TryHigh \/ TryMedium \/ TryLow
    <3>1. CASE UNCHANGED queues
      BY <2>1, <2>2, <2>4, <3>1
         DEF TryHigh, TryMedium, TryLow, TryTake, Take, HeldByWorker, statVars
    <3>2. CASE \E q \in Priorities : Take(q)
      BY <2>3, <2>4, <3>2 DEF TryHigh, TryMedium, TryLow, TryTake
    <3> QED
      BY <2>4, <3>1, <3>2 DEF TryHigh, TryMedium, TryLow, TryTake, Priorities
  <2>5. CASE LoopTop \/ WaitGranted \/ WaitPolls \/ SendSucceeds \/ UpdateDutyCycleMetric
    BY <2>5 DEF LoopTop, WaitGranted, WaitPolls, SendSucceeds, UpdateDutyCycleMetric,
                HeldByWorker, queueVars, workerVars, statVars
  <2>6. CASE RejectFrame \/ WaitInterrupted \/ TransmitFails \/ SendFailsAfterAir
    <3>1. /\ queues' = queues /\ txTotal' = txTotal
          /\ txDrops' = [txDrops EXCEPT ![req.prio] = @ + 1]
          /\ pc \in {"wait", "transmit"} /\ pc' \in {"top", "metric"}
      BY <2>6 DEF RejectFrame, WaitInterrupted, TransmitFails, SendFailsAfterAir, RecordDrop, Release,
                  queueVars
    <3>2. txDrops'[p] = txDrops[p] + (IF req.prio = p THEN 1 ELSE 0)
      BY <2>1, <3>1
    <3>3. HeldByWorker(p) = (IF req.prio = p THEN 1 ELSE 0) /\ HeldByWorker(p)' = 0
      BY <3>1 DEF HeldByWorker
    <3> QED
      BY <2>1, <2>2, <3>1, <3>2, <3>3
  <2>7. CASE Consume
    <3>1. /\ queues' = queues /\ txDrops' = txDrops
          /\ txTotal' = [txTotal EXCEPT ![req.prio] = @ + 1]
          /\ pc = "consume" /\ pc' = "metric"
      BY <2>7 DEF Consume, Release, queueVars
    <3>2. txTotal'[p] = txTotal[p] + (IF req.prio = p THEN 1 ELSE 0)
      BY <2>1, <3>1
    <3>3. HeldByWorker(p) = (IF req.prio = p THEN 1 ELSE 0) /\ HeldByWorker(p)' = 0
      BY <3>1 DEF HeldByWorker
    <3>4. queues'[p] = queues[p] /\ txDrops'[p] = txDrops[p]
      BY <3>1
    <3> QED
      BY <2>1, <2>2, <3>2, <3>3, <3>4
  <2> QED
    BY <2>4, <2>5, <2>6, <2>7 DEF Worker
<1>4. FramesConserved'
  <2>1. ASSUME NEW p \in Priorities
        PROVE  offered'[p] = Len(queues'[p]) + (HeldByWorker(p)' + HeldByProducers(p)') + txTotal'[p] + txDrops'[p]
    <3>1. HeldByProducers(p)' = HeldByProducers(p) /\ HeldByProducers(p) \in Nat
      BY <1>2, FS_CardinalityType DEF HeldByProducers, ConservedInv
    <3>2. offered[p] = Len(queues[p]) + (HeldByWorker(p) + HeldByProducers(p)) + txTotal[p] + txDrops[p]
      BY Accounts DEF ConservedInv
    <3>3. HeldByWorker(p) \in Nat /\ HeldByWorker(p)' \in Nat
      BY DEF HeldByWorker
    <3>4. /\ Len(queues[p]) \in Nat /\ txTotal[p] \in Nat /\ txDrops[p] \in Nat
          /\ Len(queues'[p]) \in Nat /\ txTotal'[p] \in Nat /\ txDrops'[p] \in Nat
      BY <1>0, QueueLengths DEF TypeOK
    <3>5. offered'[p] = offered[p] /\ offered[p] \in Nat
      BY <1>0, <1>1 DEF TypeOK
    <3>6. Len(queues'[p]) + HeldByWorker(p)' + txTotal'[p] + txDrops'[p]
            = Len(queues[p]) + HeldByWorker(p) + txTotal[p] + txDrops[p]
      BY <1>3
    <3>7. HeldByProducers(p) \in Nat
      BY <3>1
    <3>8. offered[p] = Len(queues'[p]) + (HeldByWorker(p)' + HeldByProducers(p)) + txTotal'[p] + txDrops'[p]
      <4> DEFINE q == Len(queues[p])   q1 == Len(queues'[p])
                 w == HeldByWorker(p)  w1 == HeldByWorker(p)'
                 t == txTotal[p]       t1 == txTotal'[p]
                 d == txDrops[p]       d1 == txDrops'[p]
                 h == HeldByProducers(p)
      <4>1. {q, q1, w, w1, t, t1, d, d1, h} \subseteq Nat
        BY <3>3, <3>4, <3>7
      <4>2. q1 + w1 + t1 + d1 = q + w + t + d
        BY <3>6
      <4>3. offered[p] = q + (w + h) + t + d
        BY <3>2
      <4> HIDE DEF q, q1, w, w1, t, t1, d, d1, h
      <4>4. offered[p] = q1 + (w1 + h) + t1 + d1
        BY <4>1, <4>2, <4>3
      <4> QED
        BY <4>4 DEF q1, w1, t1, d1, h
    <3> QED
      BY <3>1, <3>5, <3>8
  <2> QED
    BY <2>1 DEF FramesConserved, InHand, HeldByWorker, HeldByProducers, Offering
<1> QED
  BY <1>0, <1>2, <1>4 DEF ConservedInv

\* A producer brings frames in, and pushes others out.
LEMMA ProducerConserves ==
    ASSUME ConservedInv, NEW r \in Producers, Producer(r)
    PROVE  ConservedInv'
<1>0. TypeOK /\ TypeOK'
  BY NextTypeOK DEF ConservedInv, Next
<1>1. /\ queues \in [Priorities -> Seq(Nat)]
      /\ producerPc \in [Producers -> {"idle", "evict", "retry"}]
      /\ offered \in [Priorities -> Nat] /\ txDrops \in [Priorities -> Nat]
      /\ PriorityLow \in Priorities /\ PriorityMedium \in Priorities
  BY <1>0 DEF TypeOK, Priorities
<1>2. UNCHANGED <<pc, req, txTotal>>
  BY DEF Producer, Enqueue, EvictLow, RetryMedium, workerVars
<1> DEFINE offering == IF r \in Offering' THEN Offering \cup {r} ELSE Offering \ {r}
<1>3. Offering' = offering
  <2>1. \E l \in {"idle", "evict", "retry"} : producerPc' = [producerPc EXCEPT ![r] = l]
    <3>1. CASE \E p \in Priorities, toa \in Airtimes : Enqueue(r, p, toa)
      <4>1. producerPc' = producerPc \/ producerPc' = [producerPc EXCEPT ![r] = "evict"]
        BY <3>1 DEF Enqueue
      <4>2. producerPc' = producerPc => producerPc' = [producerPc EXCEPT ![r] = producerPc[r]]
        BY <1>1
      <4> QED
        BY <1>1, <4>1, <4>2
    <3>2. CASE EvictLow(r) \/ RetryMedium(r)
      BY <3>2 DEF EvictLow, RetryMedium
    <3> QED
      BY <3>1, <3>2 DEF Producer
  <2>2. \A s \in Producers \ {r} : producerPc'[s] = producerPc[s]
    BY <1>1, <2>1
  <2> QED
    BY <2>2 DEF Offering
<1>4. /\ IsFiniteSet(Offering')
      /\ Cardinality(Offering) \in Nat
      /\ Cardinality(Offering') =
            IF r \in Offering' THEN (IF r \in Offering THEN Cardinality(Offering) ELSE Cardinality(Offering) + 1)
            ELSE (IF r \in Offering THEN Cardinality(Offering) - 1 ELSE Cardinality(Offering))
  <2>1. IsFiniteSet(Offering)
    BY DEF ConservedInv
  <2> QED
    BY <1>3, <2>1, FS_AddElement, FS_RemoveElement, FS_CardinalityType
<1>5. FramesConserved'
  <2> SUFFICES ASSUME NEW q \in Priorities
               PROVE  offered'[q] = Len(queues'[q]) + (HeldByWorker(q)' + HeldByProducers(q)') + txTotal'[q] + txDrops'[q]
    BY DEF FramesConserved, InHand, HeldByWorker, HeldByProducers, Offering
  <2> DEFINE o == offered[q]          o1 == offered'[q]
             l == Len(queues[q])      l1 == Len(queues'[q])
             h == HeldByProducers(q)  h1 == HeldByProducers(q)'
             d == txDrops[q]          d1 == txDrops'[q]
             w == HeldByWorker(q)     t == txTotal[q]
  <2>1. o = l + (w + h) + t + d
    BY Accounts DEF ConservedInv
  <2>2. {l, w, h, t, d} \subseteq Nat
    BY <1>0, <1>4, QueueLengths DEF TypeOK, HeldByWorker, HeldByProducers
  <2>3. HeldByWorker(q)' = w /\ txTotal'[q] = t
    BY <1>2 DEF HeldByWorker
  <2>4. (o1 = o /\ l1 + h1 + d1 = l + h + d) \/ (o1 = o + 1 /\ l1 + h1 + d1 = l + h + d + 1)
    <3>1. ASSUME NEW p \in Priorities, NEW toa \in Airtimes, Enqueue(r, p, toa)
          PROVE  (o1 = o /\ l1 + h1 + d1 = l + h + d) \/ (o1 = o + 1 /\ l1 + h1 + d1 = l + h + d + 1)
      <4>1. r \notin Offering /\ o1 = IF p = q THEN o + 1 ELSE o
        BY <1>1, <3>1 DEF Enqueue, Offering
      <4>2. CASE ~Full(p)
        <5>1. l1 = (IF p = q THEN l + 1 ELSE l) /\ d1 = d
          BY <1>1, <3>1, <4>2, QueueLengths, SchedulerAssumption DEF Enqueue, Push
        <5>2. h1 = h
          BY <1>4, <3>1, <4>1, <4>2 DEF Enqueue, HeldByProducers, Offering
        <5> QED
          BY <2>2, <4>1, <5>1, <5>2
      <4>3. CASE Full(p) /\ p # PriorityMedium
        <5>1. l1 = l /\ d1 = IF p = q THEN d + 1 ELSE d
          BY <1>1, <3>1, <4>3 DEF Enqueue, RecordDrop
        <5>2. h1 = h
          BY <1>4, <3>1, <4>1, <4>3 DEF Enqueue, HeldByProducers, Offering
        <5> HIDE DEF o, o1, l, l1, h, h1, d, d1, w, t
        <5> QED
          BY <2>2, <4>1, <5>1, <5>2
      <4>4. CASE Full(p) /\ p = PriorityMedium
        <5>1. l1 = l /\ d1 = d
          BY <3>1, <4>4 DEF Enqueue
        <5>2. r \in Offering'
          BY <1>1, <3>1, <4>4 DEF Enqueue, Offering
        <5>3. h1 = IF p = q THEN h + 1 ELSE h
          BY <1>4, <4>1, <4>4, <5>2 DEF HeldByProducers
        <5> QED
          BY <2>2, <4>1, <5>1, <5>3
      <4> QED
        BY <4>2, <4>3, <4>4
    <3>2. CASE EvictLow(r)
      <4>1. o1 = o
        BY <3>2 DEF EvictLow
      <4>2. r \in Offering /\ r \in Offering'
        BY <1>1, <3>2 DEF EvictLow, Offering
      <4>3. h1 = h
        BY <1>4, <4>2 DEF HeldByProducers
      <4>4. CASE queues[PriorityLow] # <<>> /\ q = PriorityLow
        <5>1. l1 = l - 1 /\ l > 0 /\ d1 = d + 1
          BY <1>1, <3>2, <4>4, QueueLengths DEF EvictLow, RecordDrop
        <5> QED
          BY <2>2, <4>1, <4>3, <5>1
      <4>5. CASE queues[PriorityLow] = <<>> \/ q # PriorityLow
        <5>1. l1 = l /\ d1 = d
          BY <1>1, <3>2, <4>5 DEF EvictLow, RecordDrop
        <5> QED
          BY <4>1, <4>3, <5>1
      <4> QED
        BY <4>4, <4>5
    <3>3. CASE RetryMedium(r)
      <4>1. o1 = o
        BY <3>3 DEF RetryMedium
      <4>2. r \in Offering /\ r \notin Offering'
        BY <1>1, <3>3 DEF RetryMedium, Offering
      <4>3. h1 = (IF q = PriorityMedium THEN h - 1 ELSE h)
        BY <1>4, <4>2 DEF HeldByProducers
      <4>4. CASE Full(PriorityMedium)
        <5>1. l1 = l /\ d1 = IF q = PriorityMedium THEN d + 1 ELSE d
          BY <1>1, <3>3, <4>4 DEF RetryMedium, RecordDrop
        <5> HIDE DEF o, o1, l, l1, h, h1, d, d1, w, t
        <5> QED
          BY <2>2, <4>1, <4>3, <5>1
      <4>5. CASE ~Full(PriorityMedium)
        <5>1. producerToA[r] \in Nat
          BY <1>0 DEF TypeOK
        <5>2. d1 = d /\ l1 = IF q = PriorityMedium THEN l + 1 ELSE l
          BY <1>1, <3>3, <4>5, <5>1, QueueLengths DEF RetryMedium, Push
        <5> QED
          BY <2>2, <4>1, <4>3, <5>2
      <4> QED
        BY <4>4, <4>5
    <3> QED
      BY <3>1, <3>2, <3>3 DEF Producer
  <2>5. {l1, h1, d1} \subseteq Nat
    <3>1. l1 \in Nat /\ d1 \in Nat
      BY <1>0, QueueLengths DEF TypeOK
    <3>2. h1 \in Nat
      BY <1>4, FS_CardinalityType DEF HeldByProducers
    <3> QED
      BY <3>1, <3>2
  <2> HIDE DEF o, o1, l, l1, h, h1, d, d1, w, t
  <2>6. o1 = l1 + (w + h1) + t + d1
    BY <2>1, <2>2, <2>4, <2>5
  <2> QED
    BY <2>3, <2>6 DEF o1, l1, h1, d1
<1> QED
  BY <1>0, <1>4, <1>5 DEF ConservedInv

\* Every frame offered is queued, in hand, sent or dropped, once.
THEOREM AllAccountedFor == Spec => []FramesConserved
<1>1. Init => ConservedInv
  <2> SUFFICES ASSUME Init PROVE ConservedInv
    OBVIOUS
  <2>1. Offering = {}
    BY DEF Init, Offering
  <2>2. IsFiniteSet(Offering) /\ Cardinality(Offering) = 0
    BY <2>1, FS_EmptySet
  <2>3. FramesConserved
    <3> SUFFICES ASSUME NEW p \in Priorities
                 PROVE  offered[p] = Len(queues[p]) + (HeldByWorker(p) + HeldByProducers(p)) + txTotal[p] + txDrops[p]
      BY Accounts
    <3>1. offered[p] = 0 /\ Len(queues[p]) = 0 /\ txTotal[p] = 0 /\ txDrops[p] = 0
      BY EmptySeq DEF Init
    <3>2. HeldByWorker(p) = 0 /\ HeldByProducers(p) = 0
      BY <2>2 DEF Init, HeldByWorker, HeldByProducers
    <3> QED
      BY <3>1, <3>2
  <2> QED
    BY <2>2, <2>3, InitTypeOK DEF ConservedInv
<1>2. ConservedInv /\ [Next]_vars => ConservedInv'
  <2> SUFFICES ASSUME ConservedInv, [Next]_vars PROVE ConservedInv'
    OBVIOUS
  <2>1. CASE Close \/ CloseReturns \/ GetStats \/ Tick \/ UNCHANGED vars
    <3>1. TypeOK'
      BY NextTypeOK DEF ConservedInv
    <3>2. UNCHANGED <<queueVars, workerVars, statVars>>
      BY <2>1 DEF Close, CloseReturns, GetStats, Tick, vars
    <3>3. IsFiniteSet(Offering)'
      BY <3>2 DEF ConservedInv, Offering, queueVars
    <3>4. FramesConserved'
      BY <3>2 DEF ConservedInv, FramesConserved, InHand, queueVars, workerVars, statVars
    <3> QED
      BY <3>1, <3>3, <3>4 DEF ConservedInv
  <2> QED
    BY <2>1, WorkerConserves, ProducerConserves DEF Next
<1>3. ConservedInv => FramesConserved
  BY DEF ConservedInv
<1> QED
  BY <1>1, <1>2, <1>3, PTL DEF Spec

-----------------------------------------------------------------------------
(* Close *)

\* Close returns after the worker only.
ClosedInv == TypeOK /\ (closer = "closed" => pc = "done")

\* No frame is sent, and none counted as sent, once Close has returned.
THEOREM NothingAfterClose == Spec => SilentAfterClose
<1>1. Init => ClosedInv
  BY InitTypeOK DEF Init, ClosedInv
<1>2. ClosedInv /\ [Next]_vars =>
          ClosedInv' /\ [closer = "closed" => level' <= level /\ txTotal' = txTotal]_vars
  <2> SUFFICES ASSUME ClosedInv, [Next]_vars
               PROVE  /\ closer' = "closed" => pc' = "done"
                      /\ closer = "closed" => level' <= level /\ txTotal' = txTotal
    BY NextTypeOK DEF ClosedInv
  <2>1. level \in Nat
    BY DEF ClosedInv, TypeOK
  <2>2. CASE Worker
    <3>1. pc # "done" /\ closer' = closer
      BY <2>2 DEF Worker, LoopTop, TryHigh, TryMedium, TryLow, TryTake, RejectFrame, WaitGranted,
                  WaitPolls, WaitInterrupted, SendSucceeds, TransmitFails, SendFailsAfterAir, Consume,
                  UpdateDutyCycleMetric, closeVars
    <3> QED
      BY <3>1 DEF ClosedInv
  <2>3. CASE Tick
    BY <2>1, <2>3, SchedulerAssumption DEF Tick, ClosedInv, closeVars, workerVars, statVars
  <2>4. CASE Close \/ CloseReturns \/ GetStats \/ UNCHANGED vars
    BY <2>1, <2>4 DEF Close, CloseReturns, GetStats, ClosedInv, vars, closeVars, workerVars, statVars
  <2>5. ASSUME NEW r \in Producers, Producer(r)
        PROVE  UNCHANGED <<pc, closer, level, txTotal>>
    BY <2>5 DEF Producer, Enqueue, EvictLow, RetryMedium, workerVars, closeVars
  <2> QED
    BY <2>1, <2>2, <2>3, <2>4, <2>5 DEF Next, ClosedInv
<1> QED
  BY <1>1, <1>2, PTL DEF Spec, SilentAfterClose

=============================================================================
