-------------------------- MODULE Membership_proofs -------------------------
(***************************************************************************)
(* Proofs about who belongs to the mesh and under which key: the join      *)
(* machine, for any number of joiners and members, any limit of attempts   *)
(* and any channel, and the rekey manager, for any number of nodes, any    *)
(* transition time and clocks that show anything.  The two do not share    *)
(* state, and their theorems do not rest on each other.                    *)
(***************************************************************************)
EXTENDS AutoJoin, Rekey, TLAPS

-----------------------------------------------------------------------------
(* The join machine.  RequestsBounded and GivesUpLate are not inductive:   *)
(* that a machine in FAILED has used every request follows from where it   *)
(* may have come from, so JoinInv says of every state which handler may    *)
(* run in it and how the two counters compare.                             *)

\* What a machine knows in each state.
HandlerInv(j) ==
    /\ busy[j] = "scan" => state[j] = "SCANNING"
    /\ busy[j] \in {"send", "await"} => state[j] = "JOINING" /\ running[j]
CountInv(j) ==
    /\ state[j] = "JOINING" => scannedPeers[j] # {}
    /\ state[j] = "JOINING" /\ running[j] =>
            /\ joinAttempts[j] < MaxAttempts
            /\ requests[j] = joinAttempts[j] + (IF busy[j] = "no" THEN 0 ELSE 1)
    /\ state[j] = "FAILED" => requests[j] = MaxAttempts /\ joinAttempts[j] = MaxAttempts

JoinInv == \A j \in Joiners : HandlerInv(j) /\ CountInv(j)

-----------------------------------------------------------------------------
(* The join machine: types *)

\* The initial state has the declared types.
LEMMA InitJoinTypeOK == JoinInit => JoinTypeOK
BY JoinAssumption DEF JoinInit, JoinTypeOK

\* A failed attempt keeps the types, while the attempts are not used up.
LEMMA AttemptFailedType ==
    ASSUME JoinTypeOK, NEW j \in Joiners, joinAttempts[j] < MaxAttempts, AttemptFailed(j)
    PROVE  /\ state' \in [Joiners -> {"INIT", "SCANNING", "JOINING", "CONNECTED", "FAILED"}]
           /\ busy' \in [Joiners -> {"no", "scan", "send", "await"}]
           /\ scannedPeers' \in [Joiners -> SUBSET Kin]
           /\ joinAttempts' \in [Joiners -> 0..MaxAttempts]
           /\ running' \in [Joiners -> BOOLEAN]
           /\ mesh' \in [Joiners -> Peers \cup {NoPeer}]
<1>1. joinAttempts[j] + 1 \in 0..MaxAttempts
  BY JoinAssumption DEF JoinTypeOK
<1>2. joinAttempts' \in [Joiners -> 0..MaxAttempts]
  BY <1>1 DEF AttemptFailed, JoinTypeOK
<1> QED
  BY <1>2 DEF AttemptFailed, JoinTypeOK

\* A request counts at most up to the limit, as the machine asks only after
\* fewer attempts.
LEMMA RequestsType ==
    ASSUME JoinTypeOK, JoinInv, NEW j \in Joiners, HandleJoining(j)
    PROVE  requests' \in [Joiners -> 0..MaxAttempts]
<1>1. CASE scannedPeers[j] = {}
  BY <1>1 DEF HandleJoining, JoinTypeOK
<1>2. CASE scannedPeers[j] # {}
  <2>1. requests[j] = joinAttempts[j] /\ joinAttempts[j] < MaxAttempts
    BY JoinAssumption DEF HandleJoining, Step, JoinInv, CountInv, JoinTypeOK
  <2>2. requests[j] + 1 \in 0..MaxAttempts
    BY <2>1, JoinAssumption DEF JoinTypeOK
  <2>3. requests' = [requests EXCEPT ![j] = requests[j] + 1]
    BY <1>2 DEF HandleJoining
  <2> QED
    BY <2>2, <2>3 DEF JoinTypeOK
<1> QED
  BY <1>1, <1>2

\* A machine that sends or awaits has attempts left.
LEMMA BusyHasAttempts ==
    ASSUME JoinTypeOK, JoinInv, NEW j \in Joiners, busy[j] \in {"send", "await"}
    PROVE  /\ state[j] = "JOINING" /\ running[j]
           /\ scannedPeers[j] # {}
           /\ joinAttempts[j] < MaxAttempts
           /\ requests[j] = joinAttempts[j] + 1
BY DEF JoinInv, HandlerInv, CountInv

\* Every step keeps the types.
LEMMA NextJoinTypeOK == JoinTypeOK /\ JoinInv /\ [JoinNext]_joinVars => JoinTypeOK'
<1> SUFFICES ASSUME JoinTypeOK, JoinInv, [JoinNext]_joinVars PROVE JoinTypeOK'
  OBVIOUS
<1> USE JoinAssumption DEF JoinTypeOK
<1>1. ASSUME NEW j \in Joiners, HandleInit(j) PROVE JoinTypeOK'
  BY <1>1 DEF HandleInit
<1>2. ASSUME NEW j \in Joiners, HandleScanning(j) PROVE JoinTypeOK'
  BY <1>2 DEF HandleScanning
<1>3. ASSUME NEW j \in Joiners, TransitionAfterScan(j) PROVE JoinTypeOK'
  BY <1>3 DEF TransitionAfterScan
<1>4. ASSUME NEW j \in Joiners, HandleJoining(j) PROVE JoinTypeOK'
  <2>1. requests' \in [Joiners -> 0..MaxAttempts]
    BY <1>4, RequestsType
  <2>2. /\ state' \in [Joiners -> {"INIT", "SCANNING", "JOINING", "CONNECTED", "FAILED"}]
        /\ busy' \in [Joiners -> {"no", "scan", "send", "await"}]
    BY <1>4 DEF HandleJoining
  <2> QED
    BY <1>4, <2>1, <2>2 DEF HandleJoining
<1>5. ASSUME NEW j \in Joiners, NEW heard \in SUBSET Peers, SendJoinRequest(j, heard) PROVE JoinTypeOK'
  <2>1. asking' \in [Peers -> SUBSET Joiners]
    BY <1>5 DEF SendJoinRequest
  <2> QED
    BY <1>5, <2>1 DEF SendJoinRequest
<1>6. ASSUME NEW j \in Joiners, HandleJoinRequestFailure(j) PROVE JoinTypeOK'
  <2>1. joinAttempts[j] < MaxAttempts
    BY <1>6, BusyHasAttempts DEF HandleJoinRequestFailure, In
  <2> QED
    BY <1>6, <2>1, AttemptFailedType DEF HandleJoinRequestFailure
<1>7. ASSUME NEW j \in Joiners, HandleJoinAckTimeout(j) PROVE JoinTypeOK'
  <2>1. joinAttempts[j] < MaxAttempts
    BY <1>7, BusyHasAttempts DEF HandleJoinAckTimeout, In
  <2> QED
    BY <1>7, <2>1, AttemptFailedType DEF HandleJoinAckTimeout
<1>8. ASSUME NEW j \in Joiners, HandleFailed(j) PROVE JoinTypeOK'
  BY <1>8 DEF HandleFailed
<1>9. ASSUME NEW j \in Joiners, RunReturns(j) PROVE JoinTypeOK'
  BY <1>9 DEF RunReturns
<1>10. ASSUME NEW j \in Joiners, NEW p \in Peers, AddScannedPeer(j, p) PROVE JoinTypeOK'
  BY <1>10 DEF AddScannedPeer
<1>11. ASSUME NEW j \in Joiners, NEW ack \in air[j], Takes(j, ack)
       PROVE  /\ requests' \in [Joiners -> 0..MaxAttempts]
              /\ cancelled' \in [Joiners -> BOOLEAN]
              /\ asking' \in [Peers -> SUBSET Joiners]
              /\ air' \in [Joiners -> SUBSET (Peers \X Joiners)]
              /\ ack[1] \in Peers
  <2>1. ack \in Peers \X Joiners
    OBVIOUS
  <2> QED
    BY <1>11, <2>1 DEF Takes
<1>12. ASSUME NEW j \in Joiners, NEW ack \in air[j], Refused(j, ack) PROVE JoinTypeOK'
  <2>1. joinAttempts[j] < MaxAttempts
    BY <1>12, BusyHasAttempts DEF Refused, Takes, In
  <2> QED
    BY <1>11, <1>12, <2>1, AttemptFailedType DEF Refused
<1>13. ASSUME NEW j \in Joiners, NEW ack \in air[j], Joined(j, ack) PROVE JoinTypeOK'
  BY <1>11, <1>13 DEF Joined
<1>14. ASSUME NEW j \in Joiners, NEW ack \in air[j], MeshJoinFailed(j, ack) PROVE JoinTypeOK'
  BY <1>11, <1>14 DEF MeshJoinFailed
<1>15. ASSUME NEW j \in Joiners, NEW ack \in air[j], PassOver(j, ack) PROVE JoinTypeOK'
  BY <1>15 DEF PassOver, fsmVars
<1>16. ASSUME NEW j \in Joiners, Cancel(j) PROVE JoinTypeOK'
  BY <1>16 DEF Cancel, fsmVars
<1>17. ASSUME NEW p \in Peers, NEW j \in Joiners, NEW hears \in SUBSET Joiners, HandleJoinReq(p, j, hears)
       PROVE  JoinTypeOK'
  <2>1. <<p, j>> \in Peers \X Joiners
    OBVIOUS
  <2>2. air' \in [Joiners -> SUBSET (Peers \X Joiners)]
    BY <1>17, <2>1 DEF HandleJoinReq
  <2>3. asking' \in [Peers -> SUBSET Joiners]
    BY <1>17 DEF HandleJoinReq
  <2> QED
    BY <1>17, <2>2, <2>3 DEF HandleJoinReq, fsmVars
<1>18. CASE UNCHANGED joinVars
  BY <1>18 DEF joinVars, fsmVars
<1> QED
  BY <1>1, <1>2, <1>3, <1>4, <1>5, <1>6, <1>7, <1>8, <1>9, <1>10, <1>12, <1>13, <1>14, <1>15, <1>16, <1>17, <1>18
  DEF JoinNext, Handler, Receives

-----------------------------------------------------------------------------
(* The invariant *)

LEMMA InitJoinInv == JoinInit => JoinInv
BY JoinAssumption DEF JoinInit, JoinInv, HandlerInv, CountInv

\* A failed attempt leads back to JOINING with one attempt more, or to FAILED
\* with all of them.
LEMMA AttemptFailedInv ==
    ASSUME JoinTypeOK, JoinInv, NEW j \in Joiners, busy[j] \in {"send", "await"},
           AttemptFailed(j), UNCHANGED requests
    PROVE  JoinInv'
<1>1. /\ state[j] = "JOINING" /\ running[j] /\ scannedPeers[j] # {}
      /\ joinAttempts[j] < MaxAttempts /\ requests[j] = joinAttempts[j] + 1
  BY BusyHasAttempts
<1>2. joinAttempts' = [joinAttempts EXCEPT ![j] = joinAttempts[j] + 1] /\ busy' = [busy EXCEPT ![j] = "no"]
  BY DEF AttemptFailed
<1>3. joinAttempts[j] \in Nat /\ MaxAttempts \in Nat
  BY JoinAssumption DEF JoinTypeOK
<1>4. CASE joinAttempts[j] + 1 >= MaxAttempts
  <2>1. joinAttempts[j] + 1 = MaxAttempts
    BY <1>1, <1>3, <1>4
  <2>2. state' = [state EXCEPT ![j] = "FAILED"]
    BY <1>4 DEF AttemptFailed
  <2> QED
    BY <1>1, <1>2, <2>1, <2>2 DEF AttemptFailed, JoinInv, HandlerInv, CountInv, JoinTypeOK
<1>5. CASE ~(joinAttempts[j] + 1 >= MaxAttempts)
  <2>1. state' = state /\ joinAttempts[j] + 1 < MaxAttempts
    BY <1>3, <1>5 DEF AttemptFailed, JoinTypeOK
  <2> QED
    BY <1>1, <1>2, <2>1 DEF AttemptFailed, JoinInv, HandlerInv, CountInv, JoinTypeOK
<1> QED
  BY <1>4, <1>5

\* Every step keeps the invariant.
LEMMA NextJoinInv == JoinTypeOK /\ JoinInv /\ [JoinNext]_joinVars => JoinInv'
<1> SUFFICES ASSUME JoinTypeOK, JoinInv, [JoinNext]_joinVars PROVE JoinInv'
  OBVIOUS
<1> USE JoinAssumption DEF JoinTypeOK, JoinInv, HandlerInv, CountInv
<1>1. ASSUME NEW j \in Joiners, HandleInit(j) PROVE JoinInv'
  BY <1>1 DEF HandleInit, Step
<1>2. ASSUME NEW j \in Joiners, HandleScanning(j) PROVE JoinInv'
  BY <1>2 DEF HandleScanning, Step
<1>3. ASSUME NEW j \in Joiners, TransitionAfterScan(j) PROVE JoinInv'
  BY <1>3 DEF TransitionAfterScan, In
<1>4. ASSUME NEW j \in Joiners, HandleJoining(j) PROVE JoinInv'
  BY <1>4 DEF HandleJoining, Step
<1>5. ASSUME NEW j \in Joiners, NEW heard \in SUBSET Peers, SendJoinRequest(j, heard) PROVE JoinInv'
  BY <1>5 DEF SendJoinRequest, In
<1>6. ASSUME NEW j \in Joiners, HandleJoinRequestFailure(j) PROVE JoinInv'
  BY <1>6, AttemptFailedInv DEF HandleJoinRequestFailure, In
<1>7. ASSUME NEW j \in Joiners, HandleJoinAckTimeout(j) PROVE JoinInv'
  BY <1>7, AttemptFailedInv DEF HandleJoinAckTimeout, In
<1>8. ASSUME NEW j \in Joiners, HandleFailed(j) PROVE JoinInv'
  BY <1>8 DEF HandleFailed, Step
<1>9. ASSUME NEW j \in Joiners, RunReturns(j) PROVE JoinInv'
  BY <1>9 DEF RunReturns
<1>10. ASSUME NEW j \in Joiners, NEW p \in Peers, AddScannedPeer(j, p) PROVE JoinInv'
  BY <1>10 DEF AddScannedPeer, In
<1>11. ASSUME NEW j \in Joiners, NEW ack \in air[j], Refused(j, ack) PROVE JoinInv'
  BY <1>11, AttemptFailedInv DEF Refused, Takes, In
<1>12. ASSUME NEW j \in Joiners, NEW ack \in air[j], Joined(j, ack) PROVE JoinInv'
  <2>1. ack \in Peers \X Joiners
    OBVIOUS
  <2>2. ack[1] \in Peers \ Refusers
    BY <1>12, <2>1 DEF Joined
  <2> QED
    BY <1>12, <2>2 DEF Joined, Takes, In
<1>13. ASSUME NEW j \in Joiners, NEW ack \in air[j], MeshJoinFailed(j, ack) PROVE JoinInv'
  BY <1>13 DEF MeshJoinFailed, Takes, In
<1>14. ASSUME NEW j \in Joiners, NEW ack \in air[j], PassOver(j, ack) PROVE JoinInv'
  BY <1>14 DEF PassOver, fsmVars
<1>15. ASSUME NEW j \in Joiners, Cancel(j) PROVE JoinInv'
  BY <1>15 DEF Cancel, fsmVars
<1>16. ASSUME NEW p \in Peers, NEW j \in Joiners, NEW hears \in SUBSET Joiners, HandleJoinReq(p, j, hears)
       PROVE  JoinInv'
  BY <1>16 DEF HandleJoinReq, fsmVars
<1>17. CASE UNCHANGED joinVars
  BY <1>17 DEF joinVars, fsmVars
<1> QED
  BY <1>1, <1>2, <1>3, <1>4, <1>5, <1>6, <1>7, <1>8, <1>9, <1>10, <1>11, <1>12, <1>13, <1>14, <1>15, <1>16, <1>17
  DEF JoinNext, Handler, Receives

LEMMA JoinInvariant == JoinSpec => [](JoinTypeOK /\ JoinInv)
<1>1. JoinInit => JoinTypeOK /\ JoinInv
  BY InitJoinTypeOK, InitJoinInv
<1>2. JoinTypeOK /\ JoinInv /\ [JoinNext]_joinVars => (JoinTypeOK /\ JoinInv)'
  BY NextJoinTypeOK, NextJoinInv
<1> QED
  BY <1>1, <1>2, PTL DEF JoinSpec

-----------------------------------------------------------------------------
(* The join machine: theorems *)

\* The variables of the machines and of the channel keep their types: no
\* machine ever asks or counts beyond the limit of attempts.
THEOREM JoinTypeCorrect == JoinSpec => []JoinTypeOK
BY JoinInvariant, PTL

\* A JOIN_REQ is sent only with a peer from the last scan, and the requests
\* since that scan are exactly the attempts counted, plus the one in flight.
THEOREM BoundedRequests == JoinSpec => []RequestsBounded
<1>1. JoinTypeOK /\ JoinInv => RequestsBounded
  BY DEF JoinTypeOK, JoinInv, CountInv, RequestsBounded
<1> QED
  BY <1>1, JoinInvariant, PTL

\* The machine backs off only after every request it is allowed.
THEOREM BackoffIsLate == JoinSpec => []GivesUpLate
<1>1. JoinInv => GivesUpLate
  BY DEF JoinInv, CountInv, GivesUpLate
<1> QED
  BY <1>1, JoinInvariant, PTL

-----------------------------------------------------------------------------
(* The rekey manager *)

\* Every variable keeps its type (the state of RekeyManager and its messages).
THEOREM TypeCorrect == Spec => []TypeOK
<1>1. Init => TypeOK
  BY DEF Init, TypeOK
<1>2. TypeOK /\ [Next]_vars => TypeOK'
  <2> SUFFICES ASSUME TypeOK, [Next]_vars
               PROVE  TypeOK'
    OBVIOUS
  <2> USE DEF TypeOK
  <2>1. CASE UNCHANGED vars
    BY <2>1 DEF vars
  <2>2. ASSUME NEW n \in Nodes, NodeStep(n)
        PROVE  TypeOK'
    <3>1. CASE NewRekeyManager(n)
      BY <3>1 DEF NewRekeyManager
    <3>2. CASE Stop(n)
      BY <3>2 DEF Stop
    <3>3. CASE PowerLoss(n)
      BY <3>3 DEF PowerLoss, Latest
    <3>4. CASE Writeback(n)
      BY <3>4 DEF Writeback
    <3>5. CASE SetClock(n)
      BY <3>5, RekeyAssumption DEF SetClock
    <3>6. CASE GenerateREKEY(n)
      <4>1. NewMessage(n) \in Messages
        BY RekeyAssumption DEF NewMessage, Messages
      <4>2. sent' \subseteq Messages /\ NewMessage(n) \in sent'
        BY <3>6, <4>1 DEF GenerateREKEY
      <4>3. taken' \in [Nodes -> SUBSET sent']
        BY <3>6, <4>2 DEF GenerateREKEY, Take
      <4>4. reused' \in [Nodes -> SUBSET Nat]
        BY <3>6 DEF GenerateREKEY, Take, Messages
      <4>5. generation' \in [Nodes -> Nat] /\ disk' \in [Nodes -> Nat]
        BY <3>6, <4>1 DEF GenerateREKEY, Persist, Messages
      <4> QED
        BY <3>6, <4>2, <4>3, <4>4, <4>5 DEF GenerateREKEY
    <3>7. CASE GenerateUnpersisted(n)
      BY <3>7 DEF GenerateUnpersisted
    <3>8. ASSUME NEW m \in sent, ValidateREKEY(n, m) \/ ValidateUnpersisted(n, m)
          PROVE  TypeOK'
      <4>1. m \in Messages /\ sent' = sent
        BY <3>8 DEF ValidateREKEY, ValidateUnpersisted
      <4>2. taken' \in [Nodes -> SUBSET sent']
        BY <3>8, <4>1 DEF ValidateREKEY, ValidateUnpersisted, Take
      <4>3. reused' \in [Nodes -> SUBSET Nat]
        BY <3>8 DEF ValidateREKEY, ValidateUnpersisted, Take, Messages
      <4>4. generation' \in [Nodes -> Nat] /\ disk' \in [Nodes -> Nat]
        BY <3>8, <4>1 DEF ValidateREKEY, ValidateUnpersisted, Persist, Messages
      <4> QED
        BY <3>8, <4>1, <4>2, <4>3, <4>4 DEF ValidateREKEY, ValidateUnpersisted
    <3> QED
      BY <2>2, <3>1, <3>2, <3>3, <3>4, <3>5, <3>6, <3>7, <3>8 DEF NodeStep
  <2> QED
    BY <2>1, <2>2 DEF Next
<1> QED
  BY <1>1, <1>2, PTL DEF Spec

-----------------------------------------------------------------------------
(* Generations grow *)

\* The medium is behind the file and the file behind the memory.
CopiesInv ==
    \A n \in Nodes : /\ synced[n] <= disk[n]
                     /\ up[n] => disk[n] <= generation[n]

LEMMA CopiesStep == TypeOK /\ CopiesInv /\ [Next]_vars => CopiesInv'
<1> SUFFICES ASSUME TypeOK, CopiesInv, [Next]_vars
             PROVE  CopiesInv'
  OBVIOUS
<1> USE DEF TypeOK, CopiesInv
<1>1. CASE UNCHANGED vars
  BY <1>1 DEF vars
<1>2. ASSUME NEW n \in Nodes, NodeStep(n)
      PROVE  CopiesInv'
  <2>1. CASE NewRekeyManager(n)
    BY <2>1 DEF NewRekeyManager
  <2>2. CASE Stop(n)
    BY <2>2 DEF Stop
  <2>3. CASE PowerLoss(n)
    BY <2>3 DEF PowerLoss
  <2>4. CASE Writeback(n)
    BY <2>4 DEF Writeback
  <2>5. CASE SetClock(n)
    BY <2>5 DEF SetClock
  <2>6. CASE GenerateREKEY(n)
    BY <2>6 DEF GenerateREKEY, Persist, NewMessage
  <2>7. CASE GenerateUnpersisted(n)
    BY <2>7 DEF GenerateUnpersisted
  <2>8. ASSUME NEW m \in sent, ValidateREKEY(n, m) \/ ValidateUnpersisted(n, m)
        PROVE  CopiesInv'
    BY <2>8 DEF ValidateREKEY, ValidateUnpersisted, Persist, Acceptable, Messages
  <2> QED
    BY <1>2, <2>1, <2>2, <2>3, <2>4, <2>5, <2>6, <2>7, <2>8 DEF NodeStep
<1> QED
  BY <1>1, <1>2 DEF Next

\* What one step may do to the copies of a generation.
Grows(n) ==
    /\ up[n] /\ up'[n] => generation'[n] >= generation[n]
    /\ disk'[n] < disk[n] => ~up'[n] /\ disk'[n] = synced[n]
    /\ synced'[n] >= synced[n]

\* A generation never goes back while its node runs, on the medium never, and
\* in the file by a power cut only (GenerateREKEY with its rollback,
\* ValidateREKEY, persist).
THEOREM Monotone == Spec => GenerationsGrow
<1>1. Init => CopiesInv
  BY DEF Init, CopiesInv
<1>2. TypeOK /\ CopiesInv /\ [Next]_vars => \A n \in Nodes : Grows(n)
  <2> SUFFICES ASSUME TypeOK, CopiesInv, [Next]_vars, NEW k \in Nodes
               PROVE  Grows(k)
    OBVIOUS
  <2> USE DEF TypeOK, CopiesInv, Grows
  <2>1. CASE UNCHANGED vars
    BY <2>1 DEF vars
  <2>2. ASSUME NEW n \in Nodes, NodeStep(n)
        PROVE  Grows(k)
    <3>1. CASE NewRekeyManager(n)
      BY <3>1 DEF NewRekeyManager
    <3>2. CASE Stop(n)
      BY <3>2 DEF Stop
    <3>3. CASE PowerLoss(n)
      BY <3>3 DEF PowerLoss
    <3>4. CASE Writeback(n)
      BY <3>4 DEF Writeback
    <3>5. CASE SetClock(n)
      BY <3>5 DEF SetClock
    <3>6. CASE GenerateREKEY(n)
      BY <3>6 DEF GenerateREKEY, Persist, NewMessage
    <3>7. CASE GenerateUnpersisted(n)
      BY <3>7 DEF GenerateUnpersisted
    <3>8. ASSUME NEW m \in sent, ValidateREKEY(n, m) \/ ValidateUnpersisted(n, m)
          PROVE  Grows(k)
      BY <3>8 DEF ValidateREKEY, ValidateUnpersisted, Persist, Acceptable,
                  Messages
    <3> QED
      BY <2>2, <3>1, <3>2, <3>3, <3>4, <3>5, <3>6, <3>7, <3>8 DEF NodeStep
  <2> QED
    BY <2>1, <2>2 DEF Next
<1>3. Spec => [][\A n \in Nodes : Grows(n)]_vars
  BY <1>1, <1>2, TypeCorrect, CopiesStep, PTL DEF Spec
<1> QED
  BY <1>3 DEF GenerationsGrow, Grows

-----------------------------------------------------------------------------
(* Generations are used once *)

\* A node that never fell back stands on a generation no lower than any it has
\* used, and has used none twice.
UsedInv ==
    \A n \in Nodes : ~forgot[n] =>
        /\ \A m \in taken[n] : m.generation <= Latest(n)
        /\ reused[n] = {}

LEMMA UsedStep == TypeOK /\ UsedInv /\ [Next]_vars => UsedInv'
<1> SUFFICES ASSUME TypeOK, UsedInv, [Next]_vars
             PROVE  UsedInv'
  OBVIOUS
<1> USE DEF TypeOK, UsedInv, Latest
<1>1. CASE UNCHANGED vars
  BY <1>1 DEF vars
<1>2. ASSUME NEW n \in Nodes, NodeStep(n)
      PROVE  UsedInv'
  <2>1. CASE NewRekeyManager(n)
    BY <2>1 DEF NewRekeyManager
  <2>2. CASE Stop(n)
    BY <2>2 DEF Stop, Messages
  <2>3. CASE PowerLoss(n)
    <3>1. forgot'[n] = (forgot[n] \/ synced[n] < Latest(n))
      BY <2>3, Zenon DEF PowerLoss
    <3>2. ~up'[n] /\ disk'[n] = synced[n]
      BY <2>3 DEF PowerLoss
    <3>3. \A k \in Nodes : taken'[k] = taken[k] /\ reused'[k] = reused[k]
      BY <2>3 DEF PowerLoss
    <3>4. \A k \in Nodes \ {n} : up'[k] = up[k] /\ disk'[k] = disk[k]
                                 /\ generation'[k] = generation[k]
      BY <2>3 DEF PowerLoss
    <3>5. \A k \in Nodes \ {n} : forgot'[k] = forgot[k]
      BY <2>3, Zenon DEF PowerLoss
    <3>6. ASSUME ~forgot'[n], NEW m \in taken[n]
          PROVE  m.generation <= synced[n]
      <4>1. ~forgot[n] /\ ~(synced[n] < Latest(n))
        BY <3>1, <3>6, Zenon
      <4>2. m.generation <= Latest(n)
        BY <4>1
      <4> QED
        BY <4>1, <4>2 DEF Messages
    <3>7. ~forgot'[n] => reused'[n] = {} /\
                         \A m \in taken'[n] : m.generation <= Latest(n)'
      BY <3>1, <3>2, <3>3, <3>6
    <3>8. \A k \in Nodes \ {n} : Latest(k)' = Latest(k)
      BY <3>4
    <3> QED
      BY <3>3, <3>5, <3>7, <3>8
  <2>4. CASE Writeback(n)
    BY <2>4 DEF Writeback
  <2>5. CASE SetClock(n)
    BY <2>5 DEF SetClock
  <2>6. CASE GenerateREKEY(n)
    <3> DEFINE m == NewMessage(n)
    <3>1. m.generation = generation[n] + 1
      BY DEF NewMessage
    <3>2. ~forgot[n] => \A x \in taken[n] : x.generation < m.generation
      BY <2>6, <3>1 DEF GenerateREKEY, Messages
    <3> HIDE DEF m
    <3>3. generation'[n] = m.generation
      BY <2>6 DEF GenerateREKEY, m
    <3>4. taken'[n] = taken[n] \cup {m} /\ up' = up /\ up[n] /\ forgot' = forgot
      BY <2>6 DEF GenerateREKEY, Take, m
    <3>5. ~forgot[n] => reused'[n] = {}
      BY <2>6, <3>2 DEF GenerateREKEY, Take, m, Messages
    <3>6. ~forgot[n] => \A x \in taken'[n] : x.generation <= Latest(n)'
      BY <3>1, <3>2, <3>3, <3>4 DEF Messages
    <3>7. \A k \in Nodes \ {n} :
              /\ generation'[k] = generation[k] /\ disk'[k] = disk[k]
              /\ taken'[k] = taken[k] /\ reused'[k] = reused[k]
      BY <2>6 DEF GenerateREKEY, Persist, Take
    <3> QED
      BY <3>4, <3>5, <3>6, <3>7
  <2>7. CASE GenerateUnpersisted(n)
    BY <2>7 DEF GenerateUnpersisted
  <2>8. ASSUME NEW m \in sent, ValidateREKEY(n, m) \/ ValidateUnpersisted(n, m)
        PROVE  UsedInv'
    <3>1. m \in Messages /\ m.generation > generation[n] /\ up[n]
      BY <2>8 DEF ValidateREKEY, ValidateUnpersisted, Acceptable
    <3>2. ~forgot[n] => \A x \in taken[n] : x.generation < m.generation
      BY <3>1 DEF Messages
    <3>3. generation'[n] = m.generation
      BY <2>8 DEF ValidateREKEY, ValidateUnpersisted
    <3>4. taken'[n] = taken[n] \cup {m} /\ up' = up /\ forgot' = forgot
      BY <2>8 DEF ValidateREKEY, ValidateUnpersisted, Take
    <3>5. ~forgot[n] => reused'[n] = {}
      BY <2>8, <3>1, <3>2 DEF ValidateREKEY, ValidateUnpersisted, Take, Messages
    <3>6. ~forgot[n] => \A x \in taken'[n] : x.generation <= Latest(n)'
      BY <3>1, <3>2, <3>3, <3>4 DEF Messages
    <3>7. \A k \in Nodes \ {n} :
              /\ generation'[k] = generation[k] /\ disk'[k] = disk[k]
              /\ taken'[k] = taken[k] /\ reused'[k] = reused[k]
      BY <2>8 DEF ValidateREKEY, ValidateUnpersisted, Persist, Take
    <3> QED
      BY <3>4, <3>5, <3>6, <3>7
  <2> QED
    BY <1>2, <2>1, <2>2, <2>3, <2>4, <2>5, <2>6, <2>7, <2>8 DEF NodeStep
<1> QED
  BY <1>1, <1>2 DEF Next

\* A node that never fell back to an older generation accepts no message twice,
\* accepts none of its own and repeats no generation, over all restarts and
\* failed writes (GenerateREKEY, ValidateREKEY, load).
THEOREM NeverTwice == Spec => []GenerationsUsedOnce
<1>1. Init => UsedInv
  BY DEF Init, UsedInv
<1>2. UsedInv => GenerationsUsedOnce
  BY DEF UsedInv, GenerationsUsedOnce
<1> QED
  BY <1>1, <1>2, TypeCorrect, UsedStep, PTL DEF Spec

-----------------------------------------------------------------------------
(* One key for each generation of a maker *)

\* A maker has taken what it sent, and if it never fell back it has sent one
\* message of each generation.
SenderInv ==
    /\ \A m \in sent : m \in taken[m.from]
    /\ \A a, b \in sent :
          a.from = b.from /\ a.generation = b.generation /\ ~forgot[a.from]
              => a = b

LEMMA SenderStep == TypeOK /\ UsedInv /\ SenderInv /\ [Next]_vars => SenderInv'
<1> SUFFICES ASSUME TypeOK, UsedInv, SenderInv, [Next]_vars
             PROVE  SenderInv'
  OBVIOUS
<1> USE DEF TypeOK, SenderInv
<1>1. CASE UNCHANGED vars
  BY <1>1 DEF vars
<1>2. ASSUME NEW n \in Nodes, NodeStep(n)
      PROVE  SenderInv'
  <2>1. CASE NewRekeyManager(n)
    BY <2>1 DEF NewRekeyManager
  <2>2. CASE Stop(n)
    BY <2>2 DEF Stop, Messages
  <2>3. CASE PowerLoss(n)
    BY <2>3 DEF PowerLoss, Messages
  <2>4. CASE Writeback(n)
    BY <2>4 DEF Writeback
  <2>5. CASE SetClock(n)
    BY <2>5 DEF SetClock
  <2>6. CASE GenerateREKEY(n)
    <3> DEFINE m == NewMessage(n)
    <3>1. m.from = n /\ m.generation = generation[n] + 1
      BY DEF NewMessage
    <3>2. ~forgot[n] => \A x \in sent : x.from = n => x.generation # m.generation
      BY <2>6, <3>1 DEF GenerateREKEY, UsedInv, Latest, Messages
    <3> HIDE DEF m
    <3>3. sent' = sent \cup {m} /\ forgot' = forgot
      BY <2>6 DEF GenerateREKEY, m
    <3>4. taken' = [taken EXCEPT ![n] = @ \cup {m}]
      BY <2>6 DEF GenerateREKEY, Take, m
    <3>5. \A x \in sent' : x \in taken'[x.from]
      BY <3>1, <3>3, <3>4 DEF Messages
    <3>6. \A a, b \in sent' :
              a.from = b.from /\ a.generation = b.generation /\ ~forgot'[a.from]
                  => a = b
      BY <3>1, <3>2, <3>3
    <3> QED
      BY <3>5, <3>6
  <2>7. CASE GenerateUnpersisted(n)
    BY <2>7 DEF GenerateUnpersisted
  <2>8. ASSUME NEW m \in sent, ValidateREKEY(n, m) \/ ValidateUnpersisted(n, m)
        PROVE  SenderInv'
    BY <2>8 DEF ValidateREKEY, ValidateUnpersisted, Take, Messages
  <2> QED
    BY <1>2, <2>1, <2>2, <2>3, <2>4, <2>5, <2>6, <2>7, <2>8 DEF NodeStep
<1> QED
  BY <1>1, <1>2 DEF Next

\* Nodes that know a generation from the same maker have the same key for it,
\* unless the maker fell back: a rotation whose write failed and was taken
\* back hands out nothing (GenerateREKEY).
THEOREM SameKey == Spec => []OneKeyPerGeneration
<1>1. Init => UsedInv /\ SenderInv
  BY DEF Init, UsedInv, SenderInv
<1>2. TypeOK /\ SenderInv => OneKeyPerGeneration
  BY DEF TypeOK, SenderInv, OneKeyPerGeneration
<1> QED
  BY <1>1, <1>2, TypeCorrect, UsedStep, SenderStep, PTL DEF Spec

=============================================================================
