------------------------------- MODULE Rekey -------------------------------
(***************************************************************************)
(* Key rotation: the RekeyManager of each node (internal/crypto/rekey.go)  *)
(* and the REKEY messages between them.                                    *)
(*                                                                         *)
(* Both operations hold rm.mu from their first look at the generation to   *)
(* the rename of the file, so each is one step, or a second one for the    *)
(* case in which the file cannot be written.  A crash inside such a step   *)
(* is a crash before or after it: the file is replaced by a rename, and a  *)
(* message that was never sent is one that nobody receives.                *)
(*                                                                         *)
(* Nobody repeats a REKEY and nobody acknowledges it: a message in sent    *)
(* may be delivered to any node never, late, in any order and repeatedly,  *)
(* its sender included.  Clocks are those of routers, which may be wrong   *)
(* and may be set forwards or backwards at any moment.  Encryption under   *)
(* the old key and the choice of a key for each frame are outside.         *)
(***************************************************************************)
EXTENDS Naturals, FiniteSets

CONSTANTS
    Nodes,
    Transition,  \* 86400 s: from a rotation to the moment its key is valid
    MaxAhead,    \* 2592000 s: the farthest a receiver lets that moment be
    MaxTime,     \* bound: clocks show 0 to MaxTime
    MaxKeys      \* bound: number of keys ever drawn

ASSUME RekeyAssumption ==
    /\ Transition \in Nat
    /\ MaxAhead \in Nat
    /\ MaxTime \in Nat
    /\ MaxKeys \in Nat

VARIABLES
    up,          \* does the node have a RekeyManager?
    generation,  \* RekeyManager.generation
    disk,        \* the generation file as the file system shows it; 0: absent
    synced,      \* the generation file as it stands on the storage medium
    clock,       \* what time.Now shows on each node
    keysDrawn,   \* number of keys drawn; the number of a key stands for the key
    sent,        \* history: the messages handed out for broadcast
    taken,       \* history: the messages each node made or accepted
    reused,      \* history: generations a node made or accepted a second time
    forgot       \* history: has the node come to stand on a lower generation?

vars == <<up, generation, disk, synced, clock, keysDrawn, sent, taken, reused,
          forgot>>

Messages ==
    [from : Nodes, generation : Nat \ {0}, key : Nat, validAfter : Nat]

TypeOK ==
    /\ up \in [Nodes -> BOOLEAN]
    /\ generation \in [Nodes -> Nat]
    /\ disk \in [Nodes -> Nat]
    /\ synced \in [Nodes -> Nat]
    /\ clock \in [Nodes -> Nat]
    /\ keysDrawn \in Nat
    /\ sent \subseteq Messages
    /\ taken \in [Nodes -> SUBSET sent]
    /\ reused \in [Nodes -> SUBSET Nat]
    /\ forgot \in [Nodes -> BOOLEAN]

Init ==
    /\ up = [n \in Nodes |-> FALSE]
    /\ generation = [n \in Nodes |-> 0]
    /\ disk = [n \in Nodes |-> 0]
    /\ synced = [n \in Nodes |-> 0]
    /\ clock = [n \in Nodes |-> 0]
    /\ keysDrawn = 0
    /\ sent = {}
    /\ taken = [n \in Nodes |-> {}]
    /\ reused = [n \in Nodes |-> {}]
    /\ forgot = [n \in Nodes |-> FALSE]

\* The generation a node would go on from: in memory, or in the file.
Latest(n) == IF up[n] THEN generation[n] ELSE disk[n]

-----------------------------------------------------------------------------
(* Start and stop *)

\* Mutant: the file is not read, every start begins at generation 0.
NewRekeyManagerAtZero(n) ==
    /\ ~up[n]
    /\ up' = [up EXCEPT ![n] = TRUE]
    /\ generation' = [generation EXCEPT ![n] = 0]
    /\ UNCHANGED <<disk, synced, clock, keysDrawn, sent, taken, reused, forgot>>

\* Load the generation, 0 if there is no file.  A start that cannot read the
\* file, or finds it other than 8 bytes long, leaves the node without a manager.
NewRekeyManager(n) ==
    /\ ~up[n]
    /\ up' = [up EXCEPT ![n] = TRUE]
    /\ generation' = [generation EXCEPT ![n] = disk[n]]
    /\ UNCHANGED <<disk, synced, clock, keysDrawn, sent, taken, reused, forgot>>

\* The daemon stops or is killed: what is in memory is gone, the file is not.
Stop(n) ==
    /\ up[n]
    /\ up' = [up EXCEPT ![n] = FALSE]
    /\ generation' = [generation EXCEPT ![n] = 0]
    /\ forgot' = [forgot EXCEPT ![n] = @ \/ disk[n] < generation[n]]
    /\ UNCHANGED <<disk, synced, clock, keysDrawn, sent, taken, reused>>

\* The device loses power: the file falls back to what reached the medium, as
\* neither the temporary file nor the directory is synced.
PowerLoss(n) ==
    /\ up' = [up EXCEPT ![n] = FALSE]
    /\ generation' = [generation EXCEPT ![n] = 0]
    /\ disk' = [disk EXCEPT ![n] = synced[n]]
    /\ forgot' = [forgot EXCEPT ![n] = @ \/ synced[n] < Latest(n)]
    /\ UNCHANGED <<synced, clock, keysDrawn, sent, taken, reused>>

\* The kernel writes the page cache back in its own time.
Writeback(n) ==
    /\ synced[n] # disk[n]
    /\ synced' = [synced EXCEPT ![n] = disk[n]]
    /\ UNCHANGED <<up, generation, disk, clock, keysDrawn, sent, taken, reused,
                   forgot>>

\* Time passes, or somebody sets the clock.
SetClock(n) ==
    /\ \E t \in 0..MaxTime \ {clock[n]} : clock' = [clock EXCEPT ![n] = t]
    /\ UNCHANGED <<up, generation, disk, synced, keysDrawn, sent, taken, reused,
                   forgot>>

-----------------------------------------------------------------------------
(* The two operations *)

\* persist: the file holds the new generation g of node n.
Persist(n, g) == disk' = [disk EXCEPT ![n] = g]

\* Node n hands message m to its caller, as its own or as a valid one.
Take(n, m) ==
    /\ taken' = [taken EXCEPT ![n] = @ \cup {m}]
    /\ reused' = [reused EXCEPT ![n] =
           @ \cup {x.generation : x \in {y \in taken[n] :
                                             y.generation = m.generation}}]

\* The payload of the rotation that n begins now.
NewMessage(n) ==
    [from |-> n, generation |-> generation[n] + 1, key |-> keysDrawn + 1,
     validAfter |-> clock[n] + Transition]

\* A new key, the next generation, in memory and in the file.
GenerateREKEY(n) ==
    LET m == NewMessage(n) IN
    /\ up[n]
    /\ keysDrawn < MaxKeys
    /\ keysDrawn' = keysDrawn + 1
    /\ generation' = [generation EXCEPT ![n] = m.generation]
    /\ Persist(n, m.generation)
    /\ sent' = sent \cup {m}
    /\ Take(n, m)
    /\ UNCHANGED <<up, synced, clock, forgot>>

\* Mutant: the payload is returned along with the error.
GenerateUnpersistedSends(n) ==
    LET m == NewMessage(n) IN
    /\ up[n]
    /\ keysDrawn < MaxKeys
    /\ keysDrawn' = keysDrawn + 1
    /\ sent' = sent \cup {m}
    /\ taken' = [taken EXCEPT ![n] = @ \cup {m}]
    /\ UNCHANGED <<up, generation, disk, synced, clock, reused, forgot>>

\* Mutant: the failed increment is undone by reading the file again.
GenerateUnpersistedReloads(n) ==
    /\ up[n]
    /\ keysDrawn < MaxKeys
    /\ keysDrawn' = keysDrawn + 1
    /\ generation' = [generation EXCEPT ![n] = disk[n]]
    /\ UNCHANGED <<up, disk, synced, clock, sent, taken, reused, forgot>>

\* The file cannot be written: the increment is taken back, under the lock,
\* and nothing is returned but the error and a key that nobody uses.
GenerateUnpersisted(n) ==
    /\ up[n]
    /\ keysDrawn < MaxKeys
    /\ keysDrawn' = keysDrawn + 1
    /\ UNCHANGED <<up, generation, disk, synced, clock, sent, taken, reused,
                   forgot>>

\* The three rules of ValidateREKEY; a message that breaks one changes nothing.
Acceptable(n, m) ==
    /\ m.generation > generation[n]
    /\ m.validAfter > clock[n]
    /\ m.validAfter <= clock[n] + MaxAhead

ValidateREKEY(n, m) ==
    /\ up[n]
    /\ Acceptable(n, m)
    /\ generation' = [generation EXCEPT ![n] = m.generation]
    /\ Persist(n, m.generation)
    /\ Take(n, m)
    /\ UNCHANGED <<up, synced, clock, keysDrawn, sent, forgot>>

\* The file cannot be written: the generation counts in memory all the same,
\* and the values are returned along with the error, for the frame is valid.
ValidateUnpersisted(n, m) ==
    /\ up[n]
    /\ Acceptable(n, m)
    /\ generation' = [generation EXCEPT ![n] = m.generation]
    /\ Take(n, m)
    /\ UNCHANGED <<up, disk, synced, clock, keysDrawn, sent, forgot>>

-----------------------------------------------------------------------------

NodeStep(n) ==
    \/ NewRekeyManager(n)
    \/ Stop(n)
    \/ PowerLoss(n)
    \/ Writeback(n)
    \/ SetClock(n)
    \/ GenerateREKEY(n)
    \/ GenerateUnpersisted(n)
    \/ \E m \in sent : ValidateREKEY(n, m) \/ ValidateUnpersisted(n, m)

Next == \E n \in Nodes : NodeStep(n)

Spec == Init /\ [][Next]_vars

-----------------------------------------------------------------------------
(* Properties *)

\* A node uses a generation once, for a message it makes or for one it accepts:
\* no message is accepted twice, none comes back to its maker, and no
\* rotation repeats a generation, over any number of restarts and whatever
\* the clocks show.  The exception is a node that fell back to an older
\* generation: it stopped before the file, or the medium, had the newest one.
\* A write that failed is not enough for that, since the next one makes up
\* for it (ValidateREKEY, persist and load).
GenerationsUsedOnce == \A n \in Nodes : ~forgot[n] => reused[n] = {}

\* While a node runs its generation never goes back, the rollback of a failed
\* rotation included; the file goes back by a power cut only, to what the
\* medium held, and the medium never (GenerateREKEY, ValidateREKEY, persist).
GenerationsGrow ==
    [][\A n \in Nodes :
          /\ up[n] /\ up'[n] => generation'[n] >= generation[n]
          /\ disk'[n] < disk[n] => ~up'[n] /\ disk'[n] = synced[n]
          /\ synced'[n] >= synced[n]]_vars

\* Two nodes that know a generation from the same maker have the same key for
\* it, whichever rotations of the maker failed in between, unless the maker fell
\* back.  Nodes that rotate at the same time make the same generation with
\* different keys, hence "from the same maker" (GenerateREKEY).
OneKeyPerGeneration ==
    \A m, n \in Nodes : \A a \in taken[m], b \in taken[n] :
        a.from = b.from /\ a.generation = b.generation /\ ~forgot[a.from]
            => a.key = b.key

=============================================================================
