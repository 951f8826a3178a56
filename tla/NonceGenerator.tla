--------------------------- MODULE NonceGenerator ---------------------------
(***************************************************************************)
(* The issuing of AEAD nonces by one node: NonceGenerator together with    *)
(* the RebootCounter it shares (internal/crypto/nonce.go and               *)
(* internal/crypto/reboot_counter.go).                                     *)
(*                                                                         *)
(* What makes a nonce unique by construction is the pair of the reboot     *)
(* counter and the 16-bit frame sequence; the pair is called the tag of    *)
(* the nonce here.  The node identity never changes and the 64 random bits *)
(* and the HMAC are left out: the properties ask whether the deterministic *)
(* part alone is unique, which is what it is there for.                    *)
(*                                                                         *)
(* Generate is split at the points other goroutines can observe: the       *)
(* atomic add, the lock of the wrap handler, the increment of the counter, *)
(* the store that resets the sequence, and the read of the counter.        *)
(* RebootCounter.Increment is one step because it holds rc.mu from the     *)
(* first write of rc.value to the rename, and a crash inside it loses      *)
(* exactly what a crash before it loses.                                   *)
(***************************************************************************)
EXTENDS Naturals, FiniteSets

CONSTANTS
    Threads,       \* goroutines that call Generate
    NoOwner,       \* the lock is free
    MaxSeq,        \* largest frame sequence: 0xFFFF in the code
    MaxCounter,    \* bound: no call starts that could take the counter past it
    MaxBoots       \* bound: number of daemon starts

ASSUME NonceAssumption ==
    /\ NoOwner \notin Threads
    /\ MaxSeq \in Nat \ {0}
    /\ MaxCounter \in Nat
    /\ MaxBoots \in Nat

VARIABLES
    up,        \* is the daemon running?
    value,     \* RebootCounter.value
    disk,      \* the counter file as the file system shows it (0 when absent)
    synced,    \* the counter file as it stands on the storage medium
    frameSeq,  \* NonceGenerator.frameSeq
    mu,        \* holder of NonceGenerator.mu
    pc,        \* where each goroutine stands in Generate
    seq,       \* the local variable seq of each goroutine
    boot,      \* history: number of daemon starts
    issued,    \* history: every tag ever returned, with the boot it belongs to
    reused,    \* history: the tags returned more than once in one boot
    raced,     \* history: a wrap of the sequence met another call
    failed,    \* history: the counter file could not be written
    cut        \* history: power was lost before the file was on the medium

mishaps == <<raced, failed, cut>>
vars == <<up, value, disk, synced, frameSeq, mu, pc, seq, boot, issued, reused, mishaps>>

Locations == {"idle", "wrap", "increment", "reset", "compute"}

Tags == [boot : Nat, ctr : Nat, seq : Nat]

TypeOK ==
    /\ up \in BOOLEAN
    /\ value \in Nat
    /\ disk \in Nat
    /\ synced \in Nat
    /\ frameSeq \in Nat
    /\ mu \in Threads \cup {NoOwner}
    /\ pc \in [Threads -> Locations]
    /\ seq \in [Threads -> Nat]
    /\ boot \in Nat
    /\ issued \subseteq Tags
    /\ reused \subseteq Tags
    /\ {raced, failed, cut} \subseteq BOOLEAN

Init ==
    /\ up = FALSE
    /\ value = 0
    /\ disk = 0
    /\ synced = 0
    /\ frameSeq = 0
    /\ mu = NoOwner
    /\ pc = [t \in Threads |-> "idle"]
    /\ seq = [t \in Threads |-> 0]
    /\ boot = 0
    /\ issued = {}
    /\ reused = {}
    /\ raced = FALSE
    /\ failed = FALSE
    /\ cut = FALSE

-----------------------------------------------------------------------------
(* Daemon start and stop *)

\* Mutant: the counter is loaded and raised, but not written back.
NewRebootCounterUnsaved ==
    /\ ~up
    /\ boot < MaxBoots
    /\ disk < MaxCounter
    /\ up' = TRUE
    /\ value' = disk + 1
    /\ frameSeq' = 0
    /\ boot' = boot + 1
    /\ UNCHANGED <<disk, synced, mu, pc, seq, issued, reused, mishaps>>

\* NewRebootCounter: load the file, increment, persist; then NewNonceGenerator.
\* A start whose canary, load or increment fails leaves the file as it was and
\* the daemon down, so it changes no variable.
NewRebootCounter ==
    /\ ~up
    /\ boot < MaxBoots
    /\ disk < MaxCounter
    /\ up' = TRUE
    /\ value' = disk + 1
    /\ disk' = disk + 1
    /\ frameSeq' = 0
    /\ boot' = boot + 1
    /\ UNCHANGED <<synced, mu, pc, seq, issued, reused, mishaps>>

\* What any end of the process takes with it: everything in memory.
LoseMemory ==
    /\ up
    /\ up' = FALSE
    /\ value' = 0
    /\ frameSeq' = 0
    /\ mu' = NoOwner
    /\ pc' = [t \in Threads |-> "idle"]
    /\ seq' = [t \in Threads |-> 0]
    /\ UNCHANGED <<boot, issued, reused, raced, failed>>

\* The daemon stops or is killed: the file survives.
Crash ==
    /\ LoseMemory
    /\ UNCHANGED <<disk, synced, cut>>

\* The device loses power: the file falls back to what reached the medium,
\* because neither the temporary file nor the directory is ever fsynced.
PowerLoss ==
    /\ LoseMemory
    /\ disk' = synced
    /\ cut' = (cut \/ disk # synced)
    /\ UNCHANGED synced

\* The kernel writes the page cache back in its own time.
Writeback ==
    /\ synced # disk
    /\ synced' = disk
    /\ UNCHANGED <<up, value, disk, frameSeq, mu, pc, seq, boot, issued, reused, mishaps>>

-----------------------------------------------------------------------------
(* Generate *)

Goto(t, l) == pc' = [pc EXCEPT ![t] = l]

InFlight == {t \in Threads : pc[t] # "idle"}

\* Will the next call be in flight together with another, one of them in the
\* wrap handler?
MeetsWrap ==
    /\ InFlight # {}
    /\ frameSeq + 1 > MaxSeq \/ \E u \in InFlight : pc[u] # "compute"

\* The atomic add, and the test for a wrap.
BeginGenerate(t) ==
    /\ up
    /\ pc[t] = "idle"
    /\ value + Cardinality(InFlight) < MaxCounter
    /\ frameSeq' = frameSeq + 1
    /\ seq' = [seq EXCEPT ![t] = frameSeq + 1]
    /\ Goto(t, IF frameSeq + 1 > MaxSeq THEN "wrap" ELSE "compute")
    /\ raced' = (raced \/ MeetsWrap)
    /\ UNCHANGED <<up, value, disk, synced, mu, boot, issued, reused, failed, cut>>

\* Mutant: the sequence is reset without raising the counter.
WrapKeepsCounter(t) ==
    /\ pc[t] = "wrap"
    /\ mu = NoOwner
    /\ frameSeq > MaxSeq
    /\ mu' = t
    /\ Goto(t, "reset")
    /\ UNCHANGED <<up, value, disk, synced, frameSeq, seq, boot, issued, reused, mishaps>>

\* handleFrameSeqWrap takes the lock and finds the sequence still too large.
WrapNeeded(t) ==
    /\ pc[t] = "wrap"
    /\ mu = NoOwner
    /\ frameSeq > MaxSeq
    /\ mu' = t
    /\ Goto(t, "increment")
    /\ UNCHANGED <<up, value, disk, synced, frameSeq, seq, boot, issued, reused, mishaps>>

\* handleFrameSeqWrap takes the lock after another goroutine has wrapped: it
\* returns the current sequence as it stands, without drawing a new one.
WrapAlreadyDone(t) ==
    /\ pc[t] = "wrap"
    /\ mu = NoOwner
    /\ frameSeq <= MaxSeq
    /\ seq' = [seq EXCEPT ![t] = frameSeq]
    /\ Goto(t, "compute")
    /\ UNCHANGED <<up, value, disk, synced, frameSeq, mu, boot, issued, reused, mishaps>>

\* Mutant: the file is written with the value from before the increment.
IncrementWritesOld(t) ==
    /\ pc[t] = "increment"
    /\ value' = value + 1
    /\ disk' = value
    /\ Goto(t, "reset")
    /\ UNCHANGED <<up, synced, frameSeq, mu, seq, boot, issued, reused, mishaps>>

\* RebootCounter.Increment, called with the generator's lock held.
Increment(t) ==
    /\ pc[t] = "increment"
    /\ value' = value + 1
    /\ disk' = value + 1
    /\ Goto(t, "reset")
    /\ UNCHANGED <<up, synced, frameSeq, mu, seq, boot, issued, reused, mishaps>>

\* Mutant: the error return leaves the generator's lock held.
IncrementFailsLocked(t) ==
    /\ pc[t] = "increment"
    /\ value' = value + 1
    /\ seq' = [seq EXCEPT ![t] = 0]
    /\ Goto(t, "idle")
    /\ failed' = TRUE
    /\ UNCHANGED <<up, disk, synced, frameSeq, mu, boot, issued, reused, raced, cut>>

\* Increment fails to write or to rename: the value in memory has moved, the
\* file has not, and Generate returns the error.
IncrementFails(t) ==
    /\ pc[t] = "increment"
    /\ value' = value + 1
    /\ mu' = NoOwner
    /\ seq' = [seq EXCEPT ![t] = 0]
    /\ Goto(t, "idle")
    /\ failed' = TRUE
    /\ UNCHANGED <<up, disk, synced, frameSeq, boot, issued, reused, raced, cut>>

\* The sequence restarts at 1, which is the wrapping goroutine's own.
ResetFrameSeq(t) ==
    /\ pc[t] = "reset"
    /\ frameSeq' = 1
    /\ seq' = [seq EXCEPT ![t] = 1]
    /\ mu' = NoOwner
    /\ Goto(t, "compute")
    /\ UNCHANGED <<up, value, disk, synced, boot, issued, reused, mishaps>>

\* computeNonce reads the counter now, however long ago seq was drawn, and
\* Generate returns the nonce.
ComputeNonce(t) ==
    /\ pc[t] = "compute"
    /\ LET tag == [boot |-> boot, ctr |-> value, seq |-> seq[t]]
       IN  /\ issued' = issued \cup {tag}
           /\ reused' = reused \cup ({tag} \cap issued)
    /\ seq' = [seq EXCEPT ![t] = 0]
    /\ Goto(t, "idle")
    /\ UNCHANGED <<up, value, disk, synced, frameSeq, mu, boot, mishaps>>

\* crypto/rand or the periodic entropy monitor fails: no nonce is returned.
EntropyFails(t) ==
    /\ pc[t] = "compute"
    /\ seq' = [seq EXCEPT ![t] = 0]
    /\ Goto(t, "idle")
    /\ UNCHANGED <<up, value, disk, synced, frameSeq, mu, boot, issued, reused, mishaps>>

-----------------------------------------------------------------------------

Generate(t) ==
    \/ BeginGenerate(t)
    \/ WrapNeeded(t)
    \/ WrapAlreadyDone(t)
    \/ Increment(t)
    \/ IncrementFails(t)
    \/ ResetFrameSeq(t)
    \/ ComputeNonce(t)
    \/ EntropyFails(t)

Next ==
    \/ NewRebootCounter
    \/ Crash
    \/ PowerLoss
    \/ Writeback
    \/ \E t \in Threads : Generate(t)

Spec == Init /\ [][Next]_vars

\* A goroutine inside Generate keeps running; sync.Mutex hands the lock to a
\* waiter within bounded time (its starvation mode), hence strong fairness on
\* the two steps that take it.  Nothing forces a call, a start or a crash.
Fairness ==
    \A t \in Threads :
        /\ SF_vars(WrapNeeded(t) \/ WrapAlreadyDone(t))
        /\ WF_vars(Increment(t) \/ IncrementFails(t))
        /\ WF_vars(ResetFrameSeq(t))
        /\ WF_vars(ComputeNonce(t) \/ EntropyFails(t))

FairSpec == Spec /\ Fairness

-----------------------------------------------------------------------------
(* Properties *)

\* Within one boot no tag is returned twice, across every wrap and by any
\* number of goroutines: the "per-frame uniqueness within boot cycle" nonce.go
\* promises of the frame sequence.  It takes a wrap that meets another call to
\* break it: one that waited for the handler's lock is given the sequence the
\* handler has just used, one that drew its sequence before the wrap may read
\* the counter after it.
NoReuseWithinBoot == raced \/ reused = {}

\* What counters in memory and on the medium agree on can be relied on: power
\* was not lost before the file was written back, and no write failed while
\* the value it left in memory could be used by another call.
Durable == ~cut /\ ~(raced /\ failed)

\* Tags of different boots never meet, because a later boot only uses counter
\* values no earlier boot used: "reboot counter prevents nonce reuse across
\* daemon restarts", counting also the increments a boot makes at each wrap.
BootsDisjoint ==
    Durable => \A a, b \in issued : a.boot < b.boot => a.ctr < b.ctr

\* The same tag is never returned by two different boots, whatever happened in
\* between: the promise to a peer that holds frames of both.
NoReuseAcrossBoots ==
    Durable => \A a, b \in issued : a.ctr = b.ctr /\ a.seq = b.seq => a.boot = b.boot

\* A counter value is in the file before the first nonce made with it leaves:
\* the next start reads at least that value and goes beyond it.
UsedIsPersisted == Durable => \A a \in issued : a.ctr <= disk

\* Every call of Generate returns, with a nonce or an error, unless the daemon
\* stops: no path leaves the wrap handler's lock held.
CallsReturn == \A t \in Threads : pc[t] # "idle" ~> pc[t] = "idle"

=============================================================================
