------------------------ MODULE NonceGenerator_proofs ------------------------
(***************************************************************************)
(* Proofs about NonceGenerator, for every set of goroutines and every      *)
(* value of the bounds:                                                    *)
(*   - TypeOK is an invariant;                                             *)
(*   - until power is lost at the wrong moment, or a failed write meets a  *)
(*     concurrent call, no counter is used before it is in the file and    *)
(*     different boots use disjoint counters;                              *)
(*   - until a wrap of the sequence meets another call, no tag is used     *)
(*     twice in one boot, whatever fails, and a single caller never gets   *)
(*     there.                                                              *)
(***************************************************************************)
EXTENDS NonceGenerator, TLAPS

-----------------------------------------------------------------------------
(* Types *)

\* The initial state has the declared types.
LEMMA InitTypeOK == Init => TypeOK
<1> SUFFICES ASSUME Init PROVE TypeOK
  OBVIOUS
<1>1. pc \in [Threads -> Locations] /\ seq \in [Threads -> Nat]
  BY DEF Init, Locations
<1>2. mu \in Threads \cup {NoOwner}
  BY DEF Init
<1>3. issued \subseteq Tags /\ reused \subseteq Tags /\ {raced, failed, cut} \subseteq BOOLEAN
  BY DEF Init
<1> QED
  BY <1>1, <1>2, <1>3 DEF Init, TypeOK

\* No step of Generate, start or stop leaves the declared types.
LEMMA NextTypeOK == TypeOK /\ [Next]_vars => TypeOK'
<1> SUFFICES ASSUME TypeOK, [Next]_vars PROVE TypeOK'
  OBVIOUS
<1> USE NonceAssumption DEF TypeOK, Locations, Tags, mishaps
<1>1. CASE NewRebootCounter
  BY <1>1 DEF NewRebootCounter
<1>2. CASE Crash
  BY <1>2 DEF Crash, LoseMemory
<1>3. CASE PowerLoss
  BY <1>3 DEF PowerLoss, LoseMemory
<1>4. CASE Writeback
  BY <1>4 DEF Writeback
<1>5. ASSUME NEW t \in Threads, Generate(t) PROVE TypeOK'
  <2>1. CASE BeginGenerate(t)
    BY <2>1 DEF BeginGenerate, Goto
  <2>2. CASE WrapNeeded(t)
    BY <2>2 DEF WrapNeeded, Goto
  <2>3. CASE WrapAlreadyDone(t)
    BY <2>3 DEF WrapAlreadyDone, Goto
  <2>4. CASE Increment(t)
    BY <2>4 DEF Increment, Goto
  <2>5. CASE IncrementFails(t)
    BY <2>5 DEF IncrementFails, Goto
  <2>6. CASE ResetFrameSeq(t)
    BY <2>6 DEF ResetFrameSeq, Goto
  <2>7. CASE ComputeNonce(t)
    <3>1. [boot |-> boot, ctr |-> value, seq |-> seq[t]] \in Tags
      OBVIOUS
    <3>2. issued' \subseteq Tags /\ reused' \subseteq Tags
      BY <2>7, <3>1 DEF ComputeNonce
    <3> QED
      BY <2>7, <3>2 DEF ComputeNonce, Goto
  <2>8. CASE EntropyFails(t)
    BY <2>8 DEF EntropyFails, Goto
  <2> QED
    BY <1>5, <2>1, <2>2, <2>3, <2>4, <2>5, <2>6, <2>7, <2>8 DEF Generate
<1>6. CASE UNCHANGED vars
  BY <1>6 DEF vars
<1> QED
  BY <1>1, <1>2, <1>3, <1>4, <1>5, <1>6 DEF Next

\* Every variable of the generator, the counter file and the history keeps its
\* type in every behaviour.
THEOREM TypeCorrect == Spec => []TypeOK
<1>1. Init => TypeOK
  BY InitTypeOK
<1>2. TypeOK /\ [Next]_vars => TypeOK'
  BY NextTypeOK
<1> QED
  BY <1>1, <1>2, PTL DEF Spec

-----------------------------------------------------------------------------
(* Boots use disjoint counters *)

\* The lock of the wrap handler is held by the goroutine between its check and
\* its reset, which therefore still sees the sequence past its end; only a
\* running daemon has calls in flight.
LockInv ==
    \A t \in Threads :
        /\ pc[t] # "idle" => up
        /\ pc[t] \in {"increment", "reset"} => mu = t
        /\ pc[t] \in {"increment", "reset"} => frameSeq > MaxSeq

\* Until a wrap has met another call, the goroutine in the handler is alone.
AloneInv ==
    ~raced => \A t, u \in Threads :
        pc[t] \in {"wrap", "increment", "reset"} /\ u # t => pc[u] = "idle"

\* The value in memory and the file agree whenever a nonce can be computed, or
\* could be after one more atomic add.
AgreeInv ==
    /\ up => disk <= value
    /\ up /\ frameSeq <= MaxSeq => value = disk
    /\ \A t \in Threads : pc[t] \in {"reset", "compute"} => value = disk

\* No boot runs ahead of the history, and the running one uses a counter that
\* no earlier boot used.
HistoryInv ==
    /\ \A a \in issued : a.boot <= boot
    /\ up => \A a \in issued : a.boot < boot => a.ctr < value
    /\ \A a \in issued : a.ctr <= disk
    /\ \A a, b \in issued : a.boot < b.boot => a.ctr < b.ctr

DurableInv ==
    /\ TypeOK
    /\ LockInv
    /\ AloneInv
    /\ Durable => AgreeInv /\ HistoryInv

\* A start and a stop keep the invariant: the start reads the file, which
\* bounds every counter ever used, and goes one beyond it.
LEMMA RestartDurable ==
    ASSUME DurableInv, NewRebootCounter \/ Crash \/ PowerLoss \/ Writeback
    PROVE  DurableInv'
<1>0. TypeOK'
  BY NextTypeOK DEF DurableInv, Next
<1> USE NonceAssumption DEF DurableInv, TypeOK, Tags, mishaps
<1>1. CASE NewRebootCounter
  <2>1. LockInv' /\ AloneInv'
    BY <1>1 DEF NewRebootCounter, LockInv, AloneInv
  <2>2. Durable' => Durable
    BY <1>1 DEF NewRebootCounter, Durable
  <2>3. Durable => AgreeInv'
    BY <1>1 DEF NewRebootCounter, AgreeInv, LockInv
  <2>4. Durable => HistoryInv'
    BY <1>1 DEF NewRebootCounter, HistoryInv
  <2> QED
    BY <1>0, <2>1, <2>2, <2>3, <2>4
<1>2. CASE Crash \/ PowerLoss
  <2>1. LockInv' /\ AloneInv'
    BY <1>2 DEF Crash, PowerLoss, LoseMemory, LockInv, AloneInv
  <2>2. Durable' => Durable /\ disk' = disk
    BY <1>2 DEF Crash, PowerLoss, LoseMemory, Durable
  <2>3. Durable' => AgreeInv'
    BY <1>2 DEF Crash, PowerLoss, LoseMemory, AgreeInv
  <2>4. Durable' => HistoryInv'
    BY <1>2, <2>2 DEF Crash, PowerLoss, LoseMemory, HistoryInv
  <2> QED
    BY <1>0, <2>1, <2>3, <2>4
<1>3. CASE Writeback
  BY <1>0, <1>3 DEF Writeback, LockInv, AloneInv, Durable, AgreeInv, HistoryInv
<1> QED
  BY <1>1, <1>2, <1>3

\* Every step of a call keeps the invariant.  Where the increment fails, the
\* value in memory is ahead of the file, and no other goroutine may be on its
\* way to using it.
LEMMA GenerateDurable ==
    ASSUME DurableInv, NEW t \in Threads, Generate(t)
    PROVE  DurableInv'
<1>0. TypeOK'
  BY NextTypeOK DEF DurableInv, Next
<1> USE NonceAssumption DEF DurableInv, TypeOK, Tags, Locations, Goto, mishaps
<1>1. CASE BeginGenerate(t)
  <2>1. LockInv'
    BY <1>1 DEF BeginGenerate, LockInv
  <2>2. AloneInv'
    BY <1>1 DEF BeginGenerate, AloneInv, MeetsWrap, InFlight
  <2>3. Durable' => Durable
    BY <1>1 DEF BeginGenerate, Durable
  <2>4. Durable => AgreeInv'
    BY <1>1 DEF BeginGenerate, AgreeInv
  <2>5. Durable => HistoryInv'
    BY <1>1 DEF BeginGenerate, HistoryInv
  <2> QED
    BY <1>0, <2>1, <2>2, <2>3, <2>4, <2>5
<1>2. CASE WrapNeeded(t) \/ WrapAlreadyDone(t) \/ EntropyFails(t)
  <2>1. LockInv' /\ AloneInv'
    BY <1>2 DEF WrapNeeded, WrapAlreadyDone, EntropyFails, LockInv, AloneInv
  <2>2. Durable' => Durable
    BY <1>2 DEF WrapNeeded, WrapAlreadyDone, EntropyFails, Durable
  <2>3. Durable => AgreeInv'
    BY <1>2 DEF WrapNeeded, WrapAlreadyDone, EntropyFails, AgreeInv, LockInv
  <2>4. Durable => HistoryInv'
    BY <1>2 DEF WrapNeeded, WrapAlreadyDone, EntropyFails, HistoryInv
  <2> QED
    BY <1>0, <2>1, <2>2, <2>3, <2>4
<1>3. CASE Increment(t)
  <2>1. LockInv' /\ AloneInv'
    BY <1>3 DEF Increment, LockInv, AloneInv
  <2>2. Durable' => Durable
    BY <1>3 DEF Increment, Durable
  <2>3. Durable => AgreeInv'
    BY <1>3 DEF Increment, AgreeInv
  <2>4. Durable => up /\ disk <= value
    BY <1>3 DEF Increment, LockInv, AgreeInv
  <2>5. Durable => HistoryInv'
    BY <1>3, <2>4 DEF Increment, HistoryInv
  <2> QED
    BY <1>0, <2>1, <2>2, <2>3, <2>5
<1>4. CASE IncrementFails(t)
  <2>1. LockInv' /\ AloneInv'
    BY <1>4 DEF IncrementFails, LockInv, AloneInv
  <2>2. Durable' => Durable /\ ~raced
    BY <1>4 DEF IncrementFails, Durable
  <2>3. Durable' => \A u \in Threads : u # t => pc[u] = "idle"
    BY <1>4, <2>2 DEF IncrementFails, AloneInv
  <2>4. Durable' => AgreeInv'
    BY <1>4, <2>2, <2>3 DEF IncrementFails, LockInv, AgreeInv
  <2>5. Durable' => HistoryInv'
    BY <1>4, <2>2 DEF IncrementFails, LockInv, HistoryInv
  <2> QED
    BY <1>0, <2>1, <2>4, <2>5
<1>5. CASE ResetFrameSeq(t)
  <2>1. LockInv'
    <3> SUFFICES ASSUME NEW u \in Threads PROVE
          /\ pc'[u] # "idle" => up'
          /\ pc'[u] \in {"increment", "reset"} => mu' = u /\ frameSeq' > MaxSeq
      BY DEF LockInv
    <3>1. u # t => pc'[u] = pc[u] /\ pc[u] \notin {"increment", "reset"}
      BY <1>5 DEF ResetFrameSeq, LockInv
    <3> QED
      BY <1>5, <3>1 DEF ResetFrameSeq, LockInv
  <2>2. AloneInv'
    BY <1>5 DEF ResetFrameSeq, AloneInv
  <2>3. Durable' => Durable
    BY <1>5 DEF ResetFrameSeq, Durable
  <2>4. Durable => AgreeInv'
    BY <1>5 DEF ResetFrameSeq, AgreeInv
  <2>5. Durable => HistoryInv'
    BY <1>5 DEF ResetFrameSeq, HistoryInv
  <2> QED
    BY <1>0, <2>1, <2>2, <2>3, <2>4, <2>5
<1>6. CASE ComputeNonce(t)
  <2>1. LockInv' /\ AloneInv'
    BY <1>6 DEF ComputeNonce, LockInv, AloneInv
  <2>2. Durable' => Durable
    BY <1>6 DEF ComputeNonce, Durable
  <2>3. Durable => AgreeInv'
    BY <1>6 DEF ComputeNonce, AgreeInv
  <2> DEFINE tag == [boot |-> boot, ctr |-> value, seq |-> seq[t]]
  <2>4. issued' = issued \cup {tag} /\ tag.boot = boot /\ tag.ctr = value
    BY <1>6 DEF ComputeNonce
  <2>5. Durable => up /\ value = disk
    BY <1>6 DEF ComputeNonce, LockInv, AgreeInv
  <2>6. UNCHANGED <<up, value, disk, boot>>
    BY <1>6 DEF ComputeNonce
  <2> HIDE DEF tag
  <2>7. Durable => HistoryInv'
    BY <2>4, <2>5, <2>6 DEF HistoryInv
  <2> QED
    BY <1>0, <2>1, <2>2, <2>3, <2>7
<1> QED
  BY <1>1, <1>2, <1>3, <1>4, <1>5, <1>6 DEF Generate

\* Until power is lost too early, or a failed write meets a concurrent call, no
\* nonce is made with a counter that is not yet in the file, and no counter by
\* two boots, for any number of goroutines.
THEOREM CounterDurable == Spec => [](UsedIsPersisted /\ BootsDisjoint)
<1>1. Init => DurableInv
  <2> SUFFICES ASSUME Init PROVE DurableInv
    OBVIOUS
  <2>1. TypeOK
    BY InitTypeOK
  <2> QED
    BY <2>1 DEF Init, DurableInv, LockInv, AloneInv, AgreeInv, HistoryInv
<1>2. DurableInv /\ [Next]_vars => DurableInv'
  <2>1. CASE UNCHANGED vars
    BY <2>1 DEF vars, mishaps, DurableInv, TypeOK, LockInv, AloneInv, Durable, AgreeInv, HistoryInv
  <2> QED
    BY <2>1, RestartDurable, GenerateDurable DEF Next
<1>3. DurableInv => UsedIsPersisted /\ BootsDisjoint
  BY DEF DurableInv, HistoryInv, UsedIsPersisted, BootsDisjoint
<1> QED
  BY <1>1, <1>2, <1>3, PTL DEF Spec

\* So no two boots return the same tag.
THEOREM BootsNeverRepeat == Spec => []NoReuseAcrossBoots
<1>1. TypeOK /\ BootsDisjoint => NoReuseAcrossBoots
  BY DEF TypeOK, Tags, BootsDisjoint, NoReuseAcrossBoots
<1> QED
  BY <1>1, TypeCorrect, CounterDurable, PTL

-----------------------------------------------------------------------------
(* No tag is repeated within a boot *)

\* The tags the running boot has made with the counter value in memory.
Current == {a \in issued : a.boot = boot /\ a.ctr = value}

\* The goroutine in the wrap handler is alone, with the sequence past its end,
\* and once it has raised the counter no tag is made with it; outside, the
\* sequence is ahead of every tag, and every goroutine holds one of its own.
FreshInv ==
    /\ up => \A a \in Current : a.seq <= frameSeq
    /\ \A t \in Threads :
        /\ pc[t] \in {"wrap", "increment", "reset"} => frameSeq > MaxSeq
        /\ pc[t] = "reset" => Current = {}
        /\ pc[t] = "compute" => seq[t] <= frameSeq /\ \A a \in Current : a.seq # seq[t]
    /\ \A t, u \in Threads : t # u /\ pc[t] = "compute" /\ pc[u] = "compute" => seq[t] # seq[u]
    /\ reused = {}

UniqueInv ==
    /\ TypeOK
    /\ AloneInv
    /\ \A a \in issued : a.boot <= boot
    /\ up => \A a \in issued : a.boot = boot => a.ctr <= value
    /\ \A t \in Threads : pc[t] # "idle" => up
    /\ ~raced => FreshInv

\* A start opens a boot number no tag carries yet; a stop leaves nothing to check.
LEMMA RestartUnique ==
    ASSUME UniqueInv, NewRebootCounter \/ Crash \/ PowerLoss \/ Writeback
    PROVE  UniqueInv'
<1>0. TypeOK'
  BY NextTypeOK DEF UniqueInv, Next
<1> USE NonceAssumption DEF UniqueInv, TypeOK, Tags, Locations, mishaps
<1>1. CASE NewRebootCounter
  <2>1. boot' = boot + 1 /\ issued' = issued /\ pc' = pc /\ reused' = reused /\ raced' = raced
    BY <1>1 DEF NewRebootCounter
  <2>2. \A t \in Threads : pc[t] = "idle"
    BY <1>1 DEF NewRebootCounter
  <2>3. \A a \in issued' : a.boot < boot'
    BY <2>1
  <2>4. Current' = {}
    BY <2>3, <1>0 DEF Current
  <2>5. ~raced' => FreshInv'
    BY <2>1, <2>2, <2>4 DEF FreshInv
  <2>6. AloneInv'
    BY <2>1, <2>2 DEF AloneInv
  <2> QED
    BY <1>0, <2>1, <2>2, <2>3, <2>5, <2>6
<1>2. CASE Crash \/ PowerLoss
  <2>1. ~raced' => FreshInv'
    BY <1>2 DEF Crash, PowerLoss, LoseMemory, FreshInv
  <2> QED
    BY <1>0, <1>2, <2>1 DEF Crash, PowerLoss, LoseMemory, AloneInv
<1>3. CASE Writeback
  <2>1. UNCHANGED <<up, value, frameSeq, pc, seq, boot, issued, reused, raced>>
    BY <1>3 DEF Writeback
  <2>2. Current' = Current
    BY <2>1 DEF Current
  <2> QED
    BY <1>0, <2>1, <2>2 DEF FreshInv, AloneInv
<1> QED
  BY <1>1, <1>2, <1>3

\* Only the draw of a sequence number can bring two calls together in a wrap.
LEMMA AloneStep ==
    ASSUME TypeOK, AloneInv, NEW t \in Threads, Generate(t)
    PROVE  AloneInv' /\ (raced => raced')
<1> USE DEF TypeOK, AloneInv, Locations, Goto, mishaps
<1>1. CASE BeginGenerate(t)
  BY <1>1 DEF BeginGenerate, MeetsWrap, InFlight
<1>2. CASE ~BeginGenerate(t)
  <2>1. raced' = raced
    BY <1>2 DEF Generate, WrapNeeded, WrapAlreadyDone, Increment, IncrementFails, ResetFrameSeq,
                ComputeNonce, EntropyFails
  <2>2. AloneInv'
    BY <1>2, <2>1 DEF Generate, WrapNeeded, WrapAlreadyDone, Increment, IncrementFails,
                      ResetFrameSeq, ComputeNonce, EntropyFails
  <2> QED
    BY <2>1, <2>2
<1> QED
  BY <1>1, <1>2

\* A step of a call that meets no other in a wrap keeps every number fresh.
LEMMA GenerateFresh ==
    ASSUME UniqueInv, NEW t \in Threads, Generate(t), ~raced'
    PROVE  FreshInv'
<1>0. TypeOK' /\ ~raced
  BY NextTypeOK, AloneStep DEF UniqueInv, Next
<1>1. FreshInv /\ AloneInv
  BY <1>0 DEF UniqueInv
<1> USE <1>0, <1>1, NonceAssumption DEF UniqueInv, TypeOK, Tags, Locations, Goto, mishaps
<1>2. CASE BeginGenerate(t)
  <2>1. Current' = Current
    BY <1>2 DEF BeginGenerate, Current
  <2>2. \A a \in Current : a.seq \in Nat
    BY DEF Current
  <2>3. \A u \in Threads : u # t /\ pc[u] # "idle" => pc[u] = "compute" /\ pc'[t] = "compute"
    BY <1>2 DEF BeginGenerate, MeetsWrap, InFlight
  <2>4. /\ frameSeq' = frameSeq + 1
        /\ seq' = [seq EXCEPT ![t] = frameSeq + 1]
        /\ pc'[t] = "wrap" => frameSeq' > MaxSeq
        /\ pc'[t] \in {"wrap", "compute"}
        /\ \A u \in Threads \ {t} : pc'[u] = pc[u] /\ seq'[u] = seq[u]
        /\ seq'[t] = frameSeq + 1
        /\ reused' = reused /\ up' = up /\ up
    BY <1>2 DEF BeginGenerate
  <2>5. \A u \in Threads \ {t} : pc'[u] # "idle" => pc'[u] = "compute" /\ seq'[u] <= frameSeq
    BY <2>3, <2>4 DEF FreshInv
  <2> QED
    BY <2>1, <2>2, <2>4, <2>5 DEF FreshInv
<1>3. CASE WrapNeeded(t) \/ EntropyFails(t)
  <2>1. Current' = Current
    BY <1>3 DEF WrapNeeded, EntropyFails, Current
  <2> QED
    BY <1>3, <2>1 DEF WrapNeeded, EntropyFails, FreshInv
<1>4. ~WrapAlreadyDone(t)
  BY DEF WrapAlreadyDone, FreshInv
<1>5. CASE Increment(t) \/ IncrementFails(t)
  <2>1. up /\ value' = value + 1 /\ boot' = boot /\ issued' = issued
    BY <1>5 DEF Increment, IncrementFails
  <2>2. \A a \in issued' : a.boot = boot' => a.ctr < value'
    BY <2>1
  <2>3. Current' = {}
    BY <2>2 DEF Current
  <2>4. frameSeq' = frameSeq /\ frameSeq > MaxSeq /\ up' = up /\ reused' = reused
    BY <1>5 DEF Increment, IncrementFails, FreshInv
  <2>5. \A u \in Threads : pc'[u] \in {"idle", "reset"}
    BY <1>5 DEF Increment, IncrementFails, AloneInv
  <2> QED
    BY <2>1, <2>3, <2>4, <2>5 DEF FreshInv
<1>6. CASE ResetFrameSeq(t)
  <2>1. Current' = {}
    BY <1>6 DEF ResetFrameSeq, Current, FreshInv
  <2>2. \A u \in Threads : u # t => pc'[u] = "idle"
    BY <1>6 DEF ResetFrameSeq, AloneInv
  <2> QED
    BY <1>6, <2>1, <2>2 DEF ResetFrameSeq, FreshInv
<1>7. CASE ComputeNonce(t)
  <2> DEFINE tag == [boot |-> boot, ctr |-> value, seq |-> seq[t]]
  <2>1. issued' = issued \cup {tag} /\ reused' = reused \cup ({tag} \cap issued)
    BY <1>7 DEF ComputeNonce
  <2>2. tag.boot = boot /\ tag.ctr = value /\ tag.seq = seq[t]
    OBVIOUS
  <2>3. UNCHANGED <<up, value, frameSeq, boot>> /\ up
    BY <1>7 DEF ComputeNonce
  <2>4. pc[t] = "compute" /\ seq[t] <= frameSeq /\ \A a \in Current : a.seq # seq[t]
    BY <1>7 DEF ComputeNonce, FreshInv
  <2>5. \A u \in Threads : pc'[u] = IF u = t THEN "idle" ELSE pc[u]
    BY <1>7 DEF ComputeNonce
  <2>6. \A u \in Threads : u # t => seq'[u] = seq[u]
    BY <1>7 DEF ComputeNonce
  <2> HIDE DEF tag
  <2>7. tag \notin issued
    BY <2>2, <2>4 DEF Current
  <2>8. Current' = Current \cup {tag}
    BY <2>1, <2>2, <2>3 DEF Current
  <2>9. reused' = {}
    BY <2>1, <2>7 DEF FreshInv
  <2>10. \A a \in Current' : a.seq <= frameSeq'
    BY <2>2, <2>3, <2>4, <2>8 DEF FreshInv
  <2>11. \A u \in Threads : pc'[u] \notin {"wrap", "increment", "reset"}
    BY <2>4, <2>5 DEF AloneInv
  <2>12. \A u \in Threads : pc'[u] = "compute" =>
            seq'[u] <= frameSeq' /\ \A a \in Current' : a.seq # seq'[u]
    BY <2>2, <2>3, <2>4, <2>5, <2>6, <2>8 DEF FreshInv
  <2>13. \A u, v \in Threads :
            u # v /\ pc'[u] = "compute" /\ pc'[v] = "compute" => seq'[u] # seq'[v]
    BY <2>5, <2>6 DEF FreshInv
  <2> QED
    BY <2>9, <2>10, <2>11, <2>12, <2>13 DEF FreshInv
<1> QED
  BY <1>2, <1>3, <1>4, <1>5, <1>6, <1>7 DEF Generate

\* The rest of the invariant holds whether calls met in a wrap or not.
LEMMA GenerateUnique ==
    ASSUME UniqueInv, NEW t \in Threads, Generate(t)
    PROVE  UniqueInv'
<1>1. TypeOK' /\ AloneInv'
  BY NextTypeOK, AloneStep DEF UniqueInv, Next
<1>2. ~raced' => FreshInv'
  BY GenerateFresh
<1> USE NonceAssumption DEF UniqueInv, TypeOK, Tags, Locations, Goto, mishaps
<1>3. /\ boot' = boot /\ up' = up /\ value' \in {value, value + 1} /\ up
      /\ issued' = issued \/ issued' = issued \cup {[boot |-> boot, ctr |-> value, seq |-> seq[t]]}
      /\ issued' # issued => value' = value
      /\ \A u \in Threads : u # t => pc'[u] = pc[u]
  BY DEF Generate, BeginGenerate, WrapNeeded, WrapAlreadyDone, Increment, IncrementFails,
         ResetFrameSeq, ComputeNonce, EntropyFails
<1>4. \A a \in issued' : a.boot <= boot' /\ (a.boot = boot' => a.ctr <= value')
  BY <1>3
<1> QED
  BY <1>1, <1>2, <1>3, <1>4

\* Every call gets a fresh tag within its boot, by any number of goroutines and
\* across every wrap, failed write, crash and power cut, until a wrap meets
\* another call.
THEOREM UniqueUnlessRaced == Spec => []NoReuseWithinBoot
<1>1. Init => UniqueInv
  <2> SUFFICES ASSUME Init PROVE UniqueInv
    OBVIOUS
  <2>1. TypeOK
    BY InitTypeOK
  <2> QED
    BY <2>1 DEF Init, UniqueInv, AloneInv, FreshInv, Current
<1>2. UniqueInv /\ [Next]_vars => UniqueInv'
  <2>1. CASE UNCHANGED vars
    BY <2>1 DEF vars, mishaps, UniqueInv, TypeOK, AloneInv, FreshInv, Current
  <2> QED
    BY <2>1, RestartUnique, GenerateUnique DEF Next
<1>3. UniqueInv => NoReuseWithinBoot
  BY DEF UniqueInv, FreshInv, NoReuseWithinBoot
<1> QED
  BY <1>1, <1>2, <1>3, PTL DEF Spec

\* At most one goroutine calls Generate: how conspiracyd itself uses it, where
\* only the receive loop of frame_handler.go encrypts.
Serial == \A t, u \in Threads : t = u

\* A single caller never meets another, so it gets a fresh tag from every call
\* of one boot without any condition.
THEOREM SerialUnique == Serial => (Spec => [](reused = {}))
<1> SUFFICES ASSUME Serial PROVE Spec => [](reused = {})
  OBVIOUS
<1>1. Init => ~raced
  BY DEF Init
<1>2. TypeOK /\ ~raced /\ [Next]_vars => ~raced'
  <2> SUFFICES ASSUME TypeOK, ~raced, [Next]_vars PROVE ~raced'
    OBVIOUS
  <2>1. ASSUME NEW t \in Threads, BeginGenerate(t) PROVE ~raced'
    BY <2>1 DEF BeginGenerate, MeetsWrap, InFlight, Serial
  <2>2. CASE UNCHANGED vars
    BY <2>2 DEF vars, mishaps
  <2> QED
    BY <2>1, <2>2 DEF Next, NewRebootCounter, Crash, PowerLoss, LoseMemory, Writeback, Generate,
                      WrapNeeded, WrapAlreadyDone, Increment, IncrementFails, ResetFrameSeq,
                      ComputeNonce, EntropyFails, mishaps
<1>3. ~raced /\ NoReuseWithinBoot => reused = {}
  BY DEF NoReuseWithinBoot
<1> QED
  BY <1>1, <1>2, <1>3, TypeCorrect, UniqueUnlessRaced, PTL DEF Spec

=============================================================================
