------------------------ MODULE OverlayHints_proofs ------------------------
(***************************************************************************)
(* Proofs about the hint bus and the overlay plugins on it, for any number *)
(* of consumers, publishers, registrations, nodes and hints, and any       *)
(* buffer size.                                                            *)
(*                                                                         *)
(* The bus: LockInv says what the lock gives: while a publisher holds it   *)
(* the bus is open and the registered consumers are those it found;        *)
(* ChannelInv ties the closed channels to the closed flag, and DrainInv    *)
(* the workers that ended to the closed channels.                          *)
(*                                                                         *)
(* The plugins: one is only right because its Consume is never called      *)
(* twice at once: WorkerInv says that a name has one worker at most,       *)
(* CallInv that only this worker has a call of the admin API open, and     *)
(* CacheInv what is known of a cached address while it has.                *)
(***************************************************************************)
EXTENDS OverlayHints, SequenceTheorems, TLAPS

LockInv ==
    \A p \in Publishers :
        pub[p].pc = "sending" =>
            /\ ~closed
            /\ pub[p].audience = Registered
            /\ pub[p].done \subseteq Registered

ChannelInv ==
    /\ ~closed => Registered \cap chClosed = {}
    /\ \A n, m \in Names : consumers[n] = consumers[m] /\ consumers[n] # 0 => n = m

DrainInv ==
    \A i \in Regs : worker[i] = "done" /\ ~cancelled => i \in chClosed /\ ch[i] = <<>>

BusInv == LockInv /\ ChannelInv /\ DrainInv /\ NoSendOnClosed

-----------------------------------------------------------------------------
(* Types *)

LEMMA InitTypeOK == Init => TypeOK
<1> SUFFICES ASSUME Init PROVE TypeOK
  OBVIOUS
<1>1. ch \in [Regs -> Seq(Hints)] /\ \A i \in Regs : Len(ch[i]) <= BufSize
  BY BusAssumption DEF Init
<1>2. name \in [Regs -> Names]
  <2>1. (CHOOSE n \in Names : TRUE) \in Names
    BY BusAssumption
  <2> QED
    BY <2>1 DEF Init
<1>3. made \in 0..MaxRegistrations /\ published \in 0..MaxPublished
  BY BusAssumption DEF Init
<1>4. consumers \in [Names -> 0..made]
  BY DEF Init
<1>5. pub \in [Publishers -> {Idle} \cup [pc : {"sending"}, hint : Hints,
                                          done : SUBSET Regs, audience : SUBSET Regs]]
  BY DEF Init, Idle
<1> QED
  BY <1>1, <1>2, <1>3, <1>4, <1>5 DEF Init, TypeOK

\* Going on to the next consumer keeps the type of the calls of Publish.
LEMMA SendingType ==
    ASSUME TypeOK, NEW p \in Publishers, NEW i \in Regs, pub[p].pc = "sending",
           pub' = [pub EXCEPT ![p].done = pub[p].done \cup {i}]
    PROVE  pub' \in [Publishers -> {Idle} \cup [pc : {"sending"}, hint : Hints,
                                               done : SUBSET Regs, audience : SUBSET Regs]]
<1>1. pub[p] \in [pc : {"sending"}, hint : Hints, done : SUBSET Regs, audience : SUBSET Regs]
  BY DEF TypeOK, Idle
<1>2. [pub[p] EXCEPT !.done = pub[p].done \cup {i}]
        \in [pc : {"sending"}, hint : Hints, done : SUBSET Regs, audience : SUBSET Regs]
  BY <1>1
<1>3. pub' = [pub EXCEPT ![p] = [pub[p] EXCEPT !.done = pub[p].done \cup {i}]]
  OBVIOUS
<1> QED
  BY <1>2, <1>3 DEF TypeOK

\* Every step keeps the types.
LEMMA NextTypeOK == TypeOK /\ [Next]_vars => TypeOK'
<1> SUFFICES ASSUME TypeOK, [Next]_vars PROVE TypeOK'
  OBVIOUS
<1> USE BusAssumption DEF TypeOK, Regs, regVars, busVars, runVars, pubVars
<1>1. ASSUME NEW n \in Names, RegisterConsumer(n) PROVE TypeOK'
  <2>1. made + 1 \in 1..MaxRegistrations /\ made' = made + 1
    BY <1>1 DEF RegisterConsumer
  <2>2. consumers' \in [Names -> 0..made']
    BY <1>1, <2>1 DEF RegisterConsumer
  <2>3. name' \in [1..MaxRegistrations -> Names]
    BY <1>1, <2>1 DEF RegisterConsumer
  <2>4. chClosed' \subseteq 1..made'
    BY <1>1, <2>1 DEF RegisterConsumer
  <2> QED
    BY <1>1, <2>1, <2>2, <2>3, <2>4 DEF RegisterConsumer
<1>2. ASSUME NEW n \in Names, UnregisterConsumer(n) PROVE TypeOK'
  <2>1. consumers[n] \in 1..made
    BY <1>2 DEF UnregisterConsumer
  <2>2. consumers' \in [Names -> 0..made] /\ chClosed' \subseteq 1..made /\ made' = made
    <3>1. CASE consumers[n] \in chClosed
      BY <1>2, <3>1 DEF UnregisterConsumer
    <3>2. CASE consumers[n] \notin chClosed
      <4>1. chClosed' = chClosed \cup {consumers[n]} /\ consumers' = [consumers EXCEPT ![n] = 0] /\ made' = made
        BY <1>2, <3>2 DEF UnregisterConsumer
      <4>2. 0 \in 0..made
        OBVIOUS
      <4> QED
        BY <2>1, <4>1, <4>2
    <3> QED
      BY <3>1, <3>2
  <2>3. panicked' \in {"no", "send", "close"}
    BY <1>2 DEF UnregisterConsumer
  <2>4. UNCHANGED <<name, ch, busVars, runVars, pubVars>>
    BY <1>2 DEF UnregisterConsumer
  <2> QED
    BY <2>2, <2>3, <2>4
<1>3. CASE CallClose
  BY <1>3 DEF CallClose
<1>4. CASE Close
  <2>1. Registered \subseteq 1..made
    BY DEF Registered
  <2> QED
    BY <1>4, <2>1 DEF Close
<1>5. ASSUME NEW p \in Publishers, NEW h \in Hints, Publish(p, h) PROVE TypeOK'
  <2>1. Registered \subseteq 1..MaxRegistrations
    BY DEF Registered
  <2>2. pub' \in [Publishers -> {Idle} \cup [pc : {"sending"}, hint : Hints,
                                             done : SUBSET Regs, audience : SUBSET Regs]]
    BY <1>5, <2>1 DEF Publish, Idle
  <2>3. published' \in 0..MaxPublished
    BY <1>5 DEF Publish
  <2> QED
    BY <1>5, <2>2, <2>3 DEF Publish
<1>6. ASSUME NEW p \in Publishers, NEW i \in Regs, Send(p, i) PROVE TypeOK'
  <2>1. CASE i \in chClosed
    BY <1>6, <2>1 DEF Send
  <2>2. CASE i \notin chClosed
    <3>1. pub[p].hint \in Hints /\ pub[p].done \in SUBSET Regs
      BY <1>6 DEF Send, Sending, Idle
    <3>2. /\ ch' = [ch EXCEPT ![i] = Append(ch[i], pub[p].hint)]
          /\ pub' = [pub EXCEPT ![p].done = pub[p].done \cup {i}]
          /\ Len(ch[i]) < BufSize
      BY <1>6, <2>2 DEF Send
    <3>3. Append(ch[i], pub[p].hint) \in Seq(Hints) /\ Len(Append(ch[i], pub[p].hint)) <= BufSize
      BY <3>1, <3>2, AppendProperties
    <3>4. ch' \in [Regs -> Seq(Hints)] /\ \A k \in Regs : Len(ch'[k]) <= BufSize
      BY <3>2, <3>3
    <3>5. pub' \in [Publishers -> {Idle} \cup [pc : {"sending"}, hint : Hints,
                                               done : SUBSET Regs, audience : SUBSET Regs]]
      BY <1>6, <3>1, <3>2, SendingType DEF Send, Sending
    <3> QED
      BY <1>6, <2>2, <3>4, <3>5 DEF Send
  <2> QED
    BY <2>1, <2>2
<1>7. ASSUME NEW p \in Publishers, NEW i \in Regs, GiveUp(p, i) PROVE TypeOK'
  <2>1. pub' \in [Publishers -> {Idle} \cup [pc : {"sending"}, hint : Hints,
                                             done : SUBSET Regs, audience : SUBSET Regs]]
    BY <1>7, SendingType DEF GiveUp, Sending
  <2> QED
    BY <1>7, <2>1 DEF GiveUp
<1>8. ASSUME NEW p \in Publishers, PublishReturns(p) PROVE TypeOK'
  BY <1>8 DEF PublishReturns, Idle
<1>9. CASE Run
  BY <1>9 DEF Run
<1>10. CASE Cancel
  BY <1>10 DEF Cancel
<1>11. ASSUME NEW i \in Regs, SelectCancel(i) \/ SelectClosed(i) PROVE TypeOK'
  BY <1>11 DEF SelectCancel, SelectClosed, WorkerStops
<1>12. ASSUME NEW i \in Regs, SelectHint(i) PROVE TypeOK'
  <2>1. ch[i] \in Seq(Hints) /\ ch[i] # <<>> /\ Len(ch[i]) <= BufSize
    BY <1>12 DEF SelectHint
  <2>2. Head(ch[i]) \in Hints /\ Tail(ch[i]) \in Seq(Hints) /\ Len(Tail(ch[i])) <= BufSize
    BY <2>1
  <2>3. ch' = [ch EXCEPT ![i] = Tail(ch[i])] /\ hand' = [hand EXCEPT ![i] = Head(ch[i])]
    BY <1>12 DEF SelectHint
  <2>4. ch' \in [Regs -> Seq(Hints)] /\ \A j \in Regs : Len(ch'[j]) <= BufSize
    BY <2>2, <2>3
  <2>5. hand' \in [Regs -> Hints \cup {NoHint}]
    BY <2>2, <2>3
  <2> QED
    BY <1>12, <2>4, <2>5 DEF SelectHint
<1>13. ASSUME NEW i \in Regs, ProcessHint(i) PROVE TypeOK'
  BY <1>13 DEF ProcessHint
<1>14. CASE RunReturns
  BY <1>14 DEF RunReturns
<1>15. CASE UNCHANGED vars
  BY <1>15 DEF vars
<1> QED
  BY <1>1, <1>2, <1>3, <1>4, <1>5, <1>6, <1>7, <1>8, <1>9, <1>10, <1>11, <1>12, <1>13, <1>14, <1>15
  DEF Next, BusStep, PublisherStep

-----------------------------------------------------------------------------
(* The invariant *)

LEMMA InitBusInv == Init => BusInv
BY DEF Init, Idle, BusInv, LockInv, ChannelInv, DrainInv, NoSendOnClosed, Registered

\* Whoever writes to the set of consumers does so while no publisher sends.
LEMMA WritersInv ==
    ASSUME TypeOK, BusInv, [Next]_vars,
           \/ \E n \in Names : RegisterConsumer(n) \/ UnregisterConsumer(n)
           \/ Close
    PROVE  BusInv'
<1> USE DEF BusInv, NoSendOnClosed, regVars, busVars, runVars, pubVars
<1>1. MayWrite /\ UNCHANGED <<ch, runVars, pubVars>>
  BY DEF RegisterConsumer, UnregisterConsumer, Close
<1>2. LockInv'
  BY <1>1 DEF LockInv, MayWrite, TypeOK
<1>3. chClosed \subseteq chClosed'
  BY DEF RegisterConsumer, UnregisterConsumer, Close
<1>4. DrainInv'
  BY <1>1, <1>3 DEF DrainInv
<1>5. panicked' # "send"
  BY DEF RegisterConsumer, UnregisterConsumer, Close
<1>6. ASSUME NEW n \in Names, RegisterConsumer(n) PROVE ChannelInv'
  <2>1. /\ consumers' = [consumers EXCEPT ![n] = made + 1]
        /\ UNCHANGED <<chClosed, closed>> /\ ~closed
    BY <1>6 DEF RegisterConsumer
  <2>2. /\ \A m \in Names : consumers[m] # made + 1
        /\ made + 1 \notin chClosed
        /\ made + 1 # 0
    BY DEF TypeOK
  <2>3. \A m \in Names : consumers'[m] = IF m = n THEN made + 1 ELSE consumers[m]
    BY <2>1 DEF TypeOK
  <2>4. Registered' \subseteq Registered \cup {made + 1}
    BY <2>3 DEF Registered
  <2> QED
    BY <2>1, <2>2, <2>3, <2>4 DEF ChannelInv
<1>7. ASSUME NEW n \in Names, UnregisterConsumer(n) PROVE ChannelInv'
  <2>1. CASE consumers[n] \in chClosed
    BY <1>7, <2>1 DEF UnregisterConsumer, ChannelInv, Registered
  <2>2. CASE consumers[n] \notin chClosed
    <3>1. /\ consumers' = [consumers EXCEPT ![n] = 0] /\ consumers[n] # 0
          /\ chClosed' = chClosed \cup {consumers[n]} /\ closed' = closed
      BY <1>7, <2>2 DEF UnregisterConsumer
    <3>2. \A m \in Names : consumers'[m] = IF m = n THEN 0 ELSE consumers[m]
      BY <3>1 DEF TypeOK
    <3>3. Registered' \subseteq Registered \ {consumers[n]}
      BY <3>1, <3>2 DEF Registered, ChannelInv
    <3> QED
      BY <3>1, <3>2, <3>3 DEF ChannelInv
  <2> QED
    BY <2>1, <2>2
<1>8. ASSUME Close PROVE ChannelInv'
  BY <1>8 DEF Close, ChannelInv
<1> QED
  BY <1>2, <1>4, <1>5, <1>6, <1>7, <1>8

\* A publisher that sends finds its channel open.
LEMMA PublishersInv ==
    ASSUME TypeOK, BusInv, NEW p \in Publishers,
           \/ \E h \in Hints : Publish(p, h)
           \/ \E i \in Regs : Send(p, i) \/ GiveUp(p, i)
           \/ PublishReturns(p)
    PROVE  BusInv'
<1> USE DEF BusInv, NoSendOnClosed, regVars, busVars, runVars
<1>1. UNCHANGED <<regVars, busVars, runVars, chClosed>> /\ Registered' = Registered
  BY DEF Publish, Send, GiveUp, PublishReturns, Registered
<1>2. ChannelInv'
  BY <1>1 DEF ChannelInv
<1>3. ASSUME NEW h \in Hints, Publish(p, h) PROVE LockInv' /\ DrainInv' /\ panicked' # "send"
  <2>1. pub' = [pub EXCEPT ![p] = [pc |-> "sending", hint |-> h, done |-> {}, audience |-> Registered]]
    BY <1>3 DEF Publish
  <2>2. ~closed /\ UNCHANGED <<ch, panicked>>
    BY <1>3 DEF Publish
  <2>3. ASSUME NEW q \in Publishers
        PROVE  pub'[q] = IF q = p THEN [pc |-> "sending", hint |-> h, done |-> {}, audience |-> Registered]
                                  ELSE pub[q]
    BY <2>1 DEF TypeOK
  <2>4. LockInv'
    BY <1>1, <2>2, <2>3 DEF LockInv
  <2> QED
    BY <1>1, <2>2, <2>4 DEF DrainInv
<1>4. ASSUME NEW i \in Regs, Sending(p, i) PROVE i \in Registered /\ i \notin chClosed /\ ~closed
  BY <1>4 DEF Sending, Left, LockInv, ChannelInv
<1>5. ASSUME NEW i \in Regs, Sending(p, i), pub' = [pub EXCEPT ![p].done = pub[p].done \cup {i}]
      PROVE  LockInv'
  <2>1. \A q \in Publishers : /\ pub'[q].pc = pub[q].pc /\ pub'[q].audience = pub[q].audience
                              /\ pub'[q].done = IF q = p THEN pub[p].done \cup {i} ELSE pub[q].done
    BY <1>5 DEF TypeOK, Idle
  <2> QED
    BY <1>1, <1>4, <1>5, <2>1 DEF LockInv
<1>6. ASSUME NEW i \in Regs, Send(p, i) PROVE LockInv' /\ DrainInv' /\ panicked' # "send"
  <2>1. /\ Sending(p, i) /\ i \notin chClosed
        /\ ch' = [ch EXCEPT ![i] = Append(ch[i], pub[p].hint)]
        /\ pub' = [pub EXCEPT ![p].done = pub[p].done \cup {i}]
        /\ UNCHANGED panicked
    BY <1>4, <1>6 DEF Send
  <2>2. DrainInv'
    BY <1>1, <2>1 DEF DrainInv, TypeOK
  <2> QED
    BY <1>5, <2>1, <2>2
<1>7. ASSUME NEW i \in Regs, GiveUp(p, i) PROVE LockInv' /\ DrainInv' /\ panicked' # "send"
  <2>1. Sending(p, i) /\ pub' = [pub EXCEPT ![p].done = pub[p].done \cup {i}] /\ UNCHANGED <<ch, panicked>>
    BY <1>7 DEF GiveUp
  <2> QED
    BY <1>1, <1>5, <2>1 DEF DrainInv
<1>8. CASE PublishReturns(p)
  BY <1>1, <1>2, <1>8 DEF PublishReturns, Idle, LockInv, DrainInv, TypeOK
<1> QED
  BY <1>2, <1>3, <1>6, <1>7, <1>8

\* The workers, Run and CallClose change neither consumers nor publishers.
LEMMA OthersInv ==
    ASSUME TypeOK, BusInv,
           \/ CallClose \/ Run \/ Cancel \/ RunReturns \/ UNCHANGED vars
           \/ \E i \in Regs : SelectCancel(i) \/ SelectClosed(i) \/ SelectHint(i) \/ ProcessHint(i)
    PROVE  BusInv'
<1> USE DEF BusInv, NoSendOnClosed, regVars, busVars, runVars, pubVars
<1>1. UNCHANGED <<consumers, closed, chClosed, pub, panicked>>
  BY DEF CallClose, Run, Cancel, RunReturns, vars, SelectCancel, SelectClosed, SelectHint, ProcessHint, WorkerStops
<1>2. LockInv' /\ ChannelInv'
  BY <1>1 DEF LockInv, ChannelInv, Registered
<1>3. CASE CallClose \/ Run \/ Cancel \/ RunReturns \/ UNCHANGED vars
  BY <1>1, <1>2, <1>3 DEF CallClose, Run, Cancel, RunReturns, vars, DrainInv, TypeOK
<1>4. ASSUME NEW i \in Regs, SelectCancel(i) \/ SelectClosed(i) PROVE DrainInv'
  BY <1>4 DEF SelectCancel, SelectClosed, WorkerStops, DrainInv, TypeOK
<1>5. ASSUME NEW i \in Regs, SelectHint(i) \/ ProcessHint(i) PROVE DrainInv'
  BY <1>5 DEF SelectHint, ProcessHint, Selecting, DrainInv, TypeOK
<1> QED
  BY <1>1, <1>2, <1>3, <1>4, <1>5

LEMMA Invariant == Spec => [](TypeOK /\ BusInv)
<1>1. TypeOK /\ BusInv /\ [Next]_vars => BusInv'
  BY WritersInv, PublishersInv, OthersInv DEF Next, BusStep, PublisherStep
<1> QED
  BY <1>1, InitTypeOK, InitBusInv, NextTypeOK, PTL DEF Spec

-----------------------------------------------------------------------------
(* Theorems *)

\* Channels keep within their buffers, and every variable its type.
THEOREM TypeCorrect == Spec => []TypeOK
BY Invariant, PTL

\* No publisher sends on a closed channel, for any number of consumers that
\* come and go.
THEOREM SendsFindOpenChannels == Spec => []NoSendOnClosed
<1>1. BusInv => NoSendOnClosed
  BY DEF BusInv
<1> QED
  BY <1>1, Invariant, PTL

\* A worker that ends because its channel is closed leaves nothing in it.
THEOREM NothingLeftBehind == Spec => []DrainedBeforeExit
<1>1. BusInv => DrainedBeforeExit
  BY DEF BusInv, DrainInv, DrainedBeforeExit
<1> QED
  BY <1>1, Invariant, PTL

\* Publish goes through all the consumers that were registered when it began,
\* and through no other.
THEOREM PublishReachesAll == Spec => OfferedToAll
<1> DEFINE Offered == \A p \in Publishers :
                        pub[p].pc # "idle" /\ pub'[p].pc = "idle" => pub[p].done = pub[p].audience
<1>1. TypeOK /\ BusInv /\ [Next]_vars => [Offered]_vars
  <2> SUFFICES ASSUME TypeOK, BusInv, Next, NEW p \in Publishers,
                      pub[p].pc # "idle", pub'[p].pc = "idle"
               PROVE  pub[p].done = pub[p].audience
    OBVIOUS
  <2>1. pub[p].pc = "sending"
    BY DEF TypeOK, Idle
  <2>2. PublishReturns(p)
    <3>1. pub' # pub
      BY <2>1
    <3>2. PICK q \in Publishers :
                \/ \E h \in Hints : Publish(q, h)
                \/ \E i \in Regs : Send(q, i) \/ GiveUp(q, i)
                \/ PublishReturns(q)
      BY <3>1 DEF Next, BusStep, PublisherStep, RegisterConsumer, UnregisterConsumer, CallClose, Close, Run, Cancel,
                  RunReturns, SelectCancel, SelectClosed, SelectHint, ProcessHint, WorkerStops, pubVars
    <3>3. \A i \in Regs : ~(Send(q, i) \/ GiveUp(q, i))
      <4> SUFFICES ASSUME NEW i \in Regs, Send(q, i) \/ GiveUp(q, i) PROVE pub'[p].pc = "sending"
        OBVIOUS
      <4>1. pub' = [pub EXCEPT ![q].done = pub[q].done \cup {i}]
        BY <3>1 DEF Send, GiveUp
      <4>2. pub'[p].pc = pub[p].pc
        BY <4>1 DEF TypeOK, Idle
      <4> QED
        BY <2>1, <4>2
    <3>4. \A h \in Hints : ~Publish(q, h)
      BY <2>1 DEF Publish, Idle, TypeOK
    <3> QED
      BY <2>1, <3>2, <3>3, <3>4 DEF PublishReturns, TypeOK
  <2> QED
    BY <2>1, <2>2 DEF PublishReturns, Left, BusInv, LockInv
<1> QED
  BY <1>1, Invariant, PTL DEF Spec, OfferedToAll

-----------------------------------------------------------------------------
(* The plugins *)

WorkerInv ==
    /\ \A n \in Names : consumers[n] # 0 => name[consumers[n]] = n
    /\ run = "idle" => \A i \in Regs : worker[i] = "none"
    /\ \A i \in Regs : worker[i] # "none" => i <= made
    /\ \A i, j \in Regs : worker[i] # "none" /\ worker[j] # "none" /\ name[i] = name[j] => i = j

CallInv == \A n \in Names : call[n] # NoCall => \E i \in Regs : worker[i] = "consume" /\ name[i] = n

CacheInv ==
    \A n \in Names, d \in Nodes :
        LET a == peerCache[n][d]
        IN  a # NoAddr =>
                /\ call[n] = [op |-> "add", addr |-> a] \/ a \in peers[n] \cup unsure[n] \cup orphaned[n]
                /\ call[n] = [op |-> "remove", addr |-> a] => a \in orphaned[n]

PluginInv == PluginTypeOK /\ WorkerInv /\ CallInv /\ CacheInv

-----------------------------------------------------------------------------
(* The plugins take the bus as it is *)

\* Every step of the plugins is a step of the bus.
LEMMA PluginStep == PluginNext => Next
BY DEF PluginNext, Consume, CallSucceeds, CallFails, Next

\* The bus with the plugins behaves as the bus does, so what is proved of the
\* bus holds of both.
THEOREM PluginsKeepBus == PluginSpec => Spec
<1>1. [PluginNext]_allVars => [Next]_vars
  BY PluginStep DEF allVars
<1>2. PluginInit => Init
  BY DEF PluginInit
<1> QED
  BY <1>1, <1>2, PTL DEF PluginSpec, Spec

-----------------------------------------------------------------------------

LEMMA InitPluginInv == PluginInit => PluginInv
<1> SUFFICES ASSUME PluginInit PROVE PluginInv
  OBVIOUS
<1>1. PluginTypeOK
  BY DEF PluginInit, PluginTypeOK
<1>2. WorkerInv /\ CallInv /\ CacheInv
  BY DEF Init, PluginInit, WorkerInv, CallInv, CacheInv
<1> QED
  BY <1>1, <1>2 DEF PluginInv

\* Workers and names: one worker for each name.
LEMMA WorkerInvStep == TypeOK /\ WorkerInv /\ ChannelInv /\ [Next]_vars => WorkerInv'
<1> SUFFICES ASSUME TypeOK, WorkerInv, ChannelInv, [Next]_vars PROVE WorkerInv'
  OBVIOUS
<1> USE DEF regVars, busVars, runVars, pubVars
<1>1. ASSUME NEW n \in Names, RegisterConsumer(n) PROVE WorkerInv'
  <2>1. /\ consumers' = [consumers EXCEPT ![n] = made + 1]
        /\ name' = [name EXCEPT ![made + 1] = n]
        /\ made' = made + 1 /\ made + 1 \in Regs
        /\ UNCHANGED <<run, worker>>
    BY <1>1, BusAssumption DEF RegisterConsumer, TypeOK, Regs
  <2>2. \A m \in Names : consumers'[m] = (IF m = n THEN made + 1 ELSE consumers[m])
    BY <2>1 DEF TypeOK
  <2>3. \A i \in Regs : name'[i] = (IF i = made + 1 THEN n ELSE name[i])
    BY <2>1 DEF TypeOK
  <2>4. \A m \in Names : consumers[m] # 0 => consumers[m] \in Regs /\ consumers[m] # made + 1
    BY BusAssumption DEF TypeOK, Regs
  <2>5. \A i \in Regs : i <= made => i # made + 1 /\ i <= made + 1
    BY DEF TypeOK, Regs
  <2> QED
    BY <2>1, <2>2, <2>3, <2>4, <2>5 DEF WorkerInv
<1>2. ASSUME NEW n \in Names, UnregisterConsumer(n) PROVE WorkerInv'
  <2>1. UNCHANGED <<name, made, run, worker>> /\ \A m \in Names : consumers'[m] \in {0, consumers[m]}
    BY <1>2 DEF UnregisterConsumer, TypeOK
  <2> QED
    BY <2>1 DEF WorkerInv
<1>3. CASE Run
  <2>1. /\ run' # "idle" /\ UNCHANGED <<consumers, name, made>>
        /\ \A i \in Regs : worker'[i] # "none" => i \in Registered
    BY <1>3 DEF Run
  <2>2. \A i \in Registered : i \in 1..made /\ \E n \in Names : consumers[n] = i /\ name[i] = n
    BY DEF Registered, WorkerInv, TypeOK
  <2>3. \A i \in Registered : i <= made
    BY <2>2 DEF TypeOK
  <2>4. \A i, j \in Registered : name[i] = name[j] => i = j
    BY <2>2
  <2> QED
    BY <2>1, <2>3, <2>4 DEF WorkerInv
<1>4. ASSUME UNCHANGED <<regVars, run>>, \A i \in Regs : worker'[i] # "none" => worker[i] # "none",
             run = "idle" => worker' = worker
      PROVE  WorkerInv'
  BY <1>4 DEF WorkerInv
<1>5. CASE CallClose \/ Close \/ Cancel \/ UNCHANGED vars
  BY <1>4, <1>5 DEF CallClose, Close, Cancel, vars
<1>6. CASE RunReturns
  BY <1>6 DEF RunReturns, WorkerInv
<1>7. ASSUME NEW p \in Publishers, PublisherStep(p) \/ \E h \in Hints : Publish(p, h) PROVE WorkerInv'
  BY <1>4, <1>7 DEF PublisherStep, Send, GiveUp, PublishReturns, Publish
<1>8. ASSUME NEW i \in Regs, SelectCancel(i) \/ SelectClosed(i) \/ SelectHint(i) \/ ProcessHint(i)
      PROVE  WorkerInv'
  <2>1. worker[i] # "none" /\ UNCHANGED <<regVars, run>>
    BY <1>8 DEF SelectCancel, SelectClosed, SelectHint, ProcessHint, Selecting, WorkerStops
  <2>2. \A j \in Regs : j # i => worker'[j] = worker[j]
    BY <1>8 DEF SelectCancel, SelectClosed, SelectHint, ProcessHint, Selecting, WorkerStops, TypeOK
  <2>3. run # "idle"
    BY <2>1 DEF WorkerInv
  <2> QED
    BY <1>4, <2>1, <2>2, <2>3
<1> QED
  BY <1>1, <1>2, <1>3, <1>5, <1>6, <1>7, <1>8 DEF Next, BusStep

-----------------------------------------------------------------------------
(* The plugins' own steps *)

\* The bus leaves the plugins alone, and no step of it ends a call.
LEMMA BusStepInv ==
    ASSUME TypeOK, PluginInv, BusStep, UNCHANGED pluginVars
    PROVE  PluginTypeOK' /\ CallInv' /\ CacheInv'
<1> USE DEF PluginInv, pluginVars
<1>1. PluginTypeOK' /\ CacheInv'
  BY DEF PluginTypeOK, CacheInv
<1>2. ASSUME NEW i \in Regs, worker[i] = "consume" PROVE worker'[i] = "consume" /\ name'[i] = name[i]
  <2> USE DEF regVars, busVars, runVars, pubVars
  <2>1. CASE Run
    BY <1>2, <2>1 DEF Run, WorkerInv
  <2>2. ASSUME NEW n \in Names, RegisterConsumer(n) PROVE worker'[i] = "consume" /\ name'[i] = name[i]
    <3>1. i <= made /\ i # made + 1
      BY <1>2 DEF WorkerInv, TypeOK, Regs
    <3> QED
      BY <1>2, <2>2, <3>1 DEF RegisterConsumer, TypeOK
  <2>3. ASSUME NEW j \in Regs, SelectCancel(j) \/ SelectClosed(j)
        PROVE  worker'[i] = "consume" /\ name'[i] = name[i]
    BY <1>2, <2>3 DEF SelectCancel, SelectClosed, Selecting, WorkerStops, TypeOK
  <2>4. ASSUME UNCHANGED <<worker, name>> PROVE worker'[i] = "consume" /\ name'[i] = name[i]
    BY <1>2, <2>4
  <2>5. ASSUME NEW n \in Names, UnregisterConsumer(n) PROVE UNCHANGED <<worker, name>>
    BY <2>5 DEF UnregisterConsumer
  <2>6. ASSUME NEW p \in Publishers, PublisherStep(p) \/ \E h \in Hints : Publish(p, h)
        PROVE  UNCHANGED <<worker, name>>
    BY <2>6 DEF PublisherStep, Send, GiveUp, PublishReturns, Publish
  <2>7. ASSUME CallClose \/ Close \/ Cancel \/ RunReturns PROVE UNCHANGED <<worker, name>>
    BY <2>7 DEF CallClose, Close, Cancel, RunReturns
  <2> QED
    BY <2>1, <2>2, <2>3, <2>4, <2>5, <2>6, <2>7 DEF BusStep
<1>3. CallInv'
  BY <1>2 DEF CallInv
<1> QED
  BY <1>1, <1>3

\* A worker that takes a hint finds no call of its plugin open.
LEMMA NoCallWhileSelecting ==
    ASSUME TypeOK, PluginInv, NEW i \in Regs, worker[i] = "select"
    PROVE  name[i] \in Names /\ call[name[i]] = NoCall
<1>1. name[i] \in Names
  BY DEF TypeOK
<1>2. ASSUME call[name[i]] # NoCall PROVE FALSE
  <2>1. PICK j \in Regs : worker[j] = "consume" /\ name[j] = name[i]
    BY <1>1, <1>2 DEF PluginInv, CallInv
  <2>2. i = j
    BY <2>1 DEF PluginInv, WorkerInv
  <2> QED
    BY <2>1, <2>2
<1> QED
  BY <1>1, <1>2

\* The kinds of calls differ.
LEMMA CallsDiffer ==
    ASSUME NEW x, NEW y
    PROVE  /\ NoCall # [op |-> "add", addr |-> x]
           /\ NoCall # [op |-> "remove", addr |-> x]
           /\ [op |-> "add", addr |-> x] # [op |-> "remove", addr |-> y]
           /\ [op |-> "remove", addr |-> x] = [op |-> "remove", addr |-> y] => x = y
<1>1. /\ NoCall.op = "none"
      /\ [op |-> "add", addr |-> x].op = "add"
      /\ [op |-> "remove", addr |-> x].op = "remove"
      /\ [op |-> "remove", addr |-> y].op = "remove"
      /\ [op |-> "remove", addr |-> x].addr = x
      /\ [op |-> "remove", addr |-> y].addr = y
  BY DEF NoCall
<1> QED
  BY <1>1

\* Without an open call, what is cached is a peer, unsure or orphaned.
LEMMA CachedWithoutCall ==
    ASSUME PluginInv, NEW n \in Names, NEW d \in Nodes, call[n] = NoCall, peerCache[n][d] # NoAddr
    PROVE  peerCache[n][d] \in peers[n] \cup unsure[n] \cup orphaned[n]
BY CallsDiffer DEF PluginInv, CacheInv

\* Consume, up to its call.
LEMMA ConsumeInv ==
    ASSUME TypeOK, PluginInv, NEW i \in Regs, Consume(i)
    PROVE  PluginTypeOK' /\ CallInv' /\ CacheInv'
<1> DEFINE n == name[i]
           h == Head(ch[i])
<1>1. /\ worker[i] = "select" /\ ch[i] # <<>>
      /\ worker' = [worker EXCEPT ![i] = "consume"]
      /\ UNCHANGED <<name, peers, unsure>>
  BY DEF Consume, SelectHint, Selecting, regVars
<1>2. n \in Names /\ call[n] = NoCall
  BY <1>1, NoCallWhileSelecting
<1>3. h \in Hints
  BY <1>1 DEF TypeOK
<1>4. h.node \in Nodes /\ (h.addr # NoAddr => h.addr \in Addrs)
  BY <1>3, OverlayAssumption DEF Addrs
<1> DEFINE c == call'[n]
           a == peerCache'[n][h.node]
           o == orphaned'[n]
           old == peerCache[n][h.node]
           Shared == \E d \in Nodes \ {h.node} : peerCache[n][d] = old
<1>5. /\ call' = [call EXCEPT ![n] = c]
      /\ peerCache' = [peerCache EXCEPT ![n][h.node] = a]
      /\ orphaned' = [orphaned EXCEPT ![n] = o]
      /\ c \in {NoCall} \cup [op : {"add", "remove"}, addr : Addrs]
      /\ a \in Addrs \cup {NoAddr}
      /\ o \in SUBSET Addrs /\ orphaned[n] \subseteq o
      /\ a # NoAddr => c = [op |-> "add", addr |-> a] \/ (c = NoCall /\ old = a)
      /\ \/ c = NoCall
         \/ c = [op |-> "add", addr |-> a]
         \/ c = [op |-> "remove", addr |-> old] /\ a = NoAddr /\ (Shared => old \in o)
  <2> USE <1>2, <1>4
  <2>1. /\ call \in [Names -> {NoCall} \cup [op : {"add", "remove"}, addr : Addrs]]
        /\ peerCache \in [Names -> [Nodes -> Addrs \cup {NoAddr}]]
        /\ orphaned \in [Names -> SUBSET Addrs]
    BY DEF PluginInv, PluginTypeOK
  <2>2. CASE HandlePeerDiscovered(n, h)
    <3>1. /\ call' = [call EXCEPT ![n] = IF old = h.addr THEN NoCall ELSE [op |-> "add", addr |-> h.addr]]
          /\ peerCache' = [peerCache EXCEPT ![n][h.node] = h.addr]
          /\ orphaned' = orphaned
          /\ h.addr \in Addrs
      BY <2>2 DEF HandlePeerDiscovered
    <3>2. /\ a = h.addr /\ c = IF old = h.addr THEN NoCall ELSE [op |-> "add", addr |-> h.addr]
          /\ o = orphaned[n]
      BY <2>1, <3>1
    <3>3. c \in {NoCall} \cup [op : {"add", "remove"}, addr : Addrs]
      BY <3>1, <3>2
    <3>4. orphaned' = [orphaned EXCEPT ![n] = o]
      BY <2>1, <3>1, <3>2
    <3> QED
      BY <2>1, <3>1, <3>2, <3>3, <3>4
  <2>3. CASE HandleRouteRemoved(n, h)
    <3> DEFINE removed == old # NoAddr /\ n \in Removers
    <3>1. /\ call' = [call EXCEPT ![n] = IF removed THEN [op |-> "remove", addr |-> old] ELSE NoCall]
          /\ peerCache' = [peerCache EXCEPT ![n][h.node] = NoAddr]
          /\ orphaned' = [orphaned EXCEPT ![n] =
                              IF removed /\ Shared THEN orphaned[n] \cup {old} ELSE orphaned[n]]
      BY <2>3 DEF HandleRouteRemoved
    <3>2. /\ a = NoAddr /\ c = IF removed THEN [op |-> "remove", addr |-> old] ELSE NoCall
          /\ o = IF removed /\ Shared THEN orphaned[n] \cup {old} ELSE orphaned[n]
      BY <2>1, <3>1
    <3>3. removed => old \in Addrs
      BY <2>1
    <3>4. c \in {NoCall} \cup [op : {"add", "remove"}, addr : Addrs]
      BY <3>2, <3>3
    <3>5. orphaned[n] \in SUBSET Addrs
      BY <2>1
    <3> HIDE DEF Shared, c, o, a
    <3>6. o \in SUBSET Addrs /\ orphaned[n] \subseteq o
      BY <3>2, <3>3, <3>5
    <3>7. c = NoCall \/ (c = [op |-> "remove", addr |-> old] /\ (Shared => old \in o))
      BY <3>2
    <3>8. call' = [call EXCEPT ![n] = c] /\ peerCache' = [peerCache EXCEPT ![n][h.node] = a]
          /\ orphaned' = [orphaned EXCEPT ![n] = o]
      BY <3>1, <3>2
    <3> QED
      BY <3>2, <3>4, <3>6, <3>7, <3>8
  <2>4. CASE Ignored(n, h) /\ UNCHANGED <<peerCache, call, orphaned>>
    <3>1. c = NoCall /\ a = old /\ o = orphaned[n] /\ old \in Addrs \cup {NoAddr}
      BY <2>1, <2>4
    <3> QED
      BY <2>1, <2>4, <3>1
  <2> QED
    BY <2>2, <2>3, <2>4 DEF Consume
<1> HIDE DEF c, a, o, old, Shared
<1> HIDE DEF n, h
<1>6. /\ \A m \in Names : /\ call'[m] = (IF m = n THEN c ELSE call[m])
                          /\ orphaned'[m] = (IF m = n THEN o ELSE orphaned[m])
      /\ \A m \in Names, d \in Nodes :
            peerCache'[m][d] = (IF m = n /\ d = h.node THEN a ELSE peerCache[m][d])
  BY <1>2, <1>4, <1>5 DEF PluginInv, PluginTypeOK
<1>7. PluginTypeOK'
  BY <1>1, <1>2, <1>4, <1>5 DEF PluginInv, PluginTypeOK
<1>8. CallInv'
  <2>1. worker'[i] = "consume" /\ name'[i] = n
    BY <1>1 DEF TypeOK, n
  <2>2. \A j \in Regs : worker[j] = "consume" => worker'[j] = "consume" /\ name'[j] = name[j]
    BY <1>1 DEF TypeOK
  <2> QED
    BY <1>6, <2>1, <2>2 DEF PluginInv, CallInv
<1>9. CacheInv'
  <2> SUFFICES ASSUME NEW m \in Names, NEW d \in Nodes, NEW b, b = peerCache'[m][d], b # NoAddr
               PROVE  /\ call'[m] = [op |-> "add", addr |-> b] \/ b \in peers'[m] \cup unsure'[m] \cup orphaned'[m]
                      /\ call'[m] = [op |-> "remove", addr |-> b] => b \in orphaned'[m]
    BY DEF CacheInv
  <2>1. CASE m # n
    BY <1>1, <1>6, <2>1 DEF PluginInv, CacheInv
  <2>2. CASE m = n /\ d # h.node
    <3>1. b = peerCache[n][d] /\ call'[m] = c /\ orphaned'[m] = o
      BY <1>6, <2>2
    <3>2. b \in peers[n] \cup unsure[n] \cup orphaned[n]
      BY <1>2, <3>1, CachedWithoutCall
    <3>3. c = [op |-> "remove", addr |-> b] => b \in o
      <4>1. c = [op |-> "remove", addr |-> b] => old = b /\ (Shared => old \in o)
        BY <1>5, CallsDiffer
      <4>2. old = b => Shared
        BY <2>2, <3>1 DEF Shared
      <4> QED
        BY <4>1, <4>2
    <3> QED
      BY <1>1, <1>5, <2>2, <3>1, <3>2, <3>3
  <2>3. CASE m = n /\ d = h.node
    <3>1. b = a /\ call'[m] = c /\ orphaned'[m] = o
      BY <1>6, <2>3
    <3>2. c = [op |-> "add", addr |-> b] \/ (c = NoCall /\ peerCache[n][d] = b)
      BY <1>5, <2>3, <3>1 DEF old
    <3>3. c # [op |-> "remove", addr |-> b]
      BY <3>2, CallsDiffer
    <3>4. c = NoCall => b \in peers[n] \cup unsure[n] \cup orphaned[n]
      <4>1. c = NoCall => peerCache[n][d] = b
        BY <3>2, CallsDiffer
      <4> QED
        BY <1>2, <2>3, <4>1, CachedWithoutCall
    <3> QED
      BY <1>1, <1>5, <2>3, <3>1, <3>2, <3>3, <3>4
  <2> QED
    BY <2>1, <2>2, <2>3
<1> QED
  BY <1>7, <1>8, <1>9

\* The call and its return: it is the plugin's own, and nothing else changes.
LEMMA CallEndsInv ==
    ASSUME TypeOK, PluginInv, NEW i \in Regs, CallSucceeds(i) \/ CallFails(i)
    PROVE  PluginTypeOK' /\ CallInv' /\ CacheInv'
<1> DEFINE n == name[i]
<1>1. /\ worker[i] = "consume" /\ worker' = [worker EXCEPT ![i] = "select"]
      /\ UNCHANGED <<name, peerCache>>
      /\ call' = [call EXCEPT ![n] = NoCall]
  BY DEF CallSucceeds, CallFails, ProcessHint, regVars
<1>2. n \in Names
  BY DEF TypeOK
<1>3. /\ call \in [Names -> {NoCall} \cup [op : {"add", "remove"}, addr : Addrs]]
      /\ peers \in [Names -> SUBSET Addrs] /\ unsure \in [Names -> SUBSET Addrs]
      /\ orphaned \in [Names -> SUBSET Addrs]
  BY DEF PluginInv, PluginTypeOK
<1>4. Applied(n) \in SUBSET Addrs
  <2>1. CASE call[n] = NoCall
    BY <1>2, <1>3, <2>1 DEF Applied, NoCall
  <2>2. CASE call[n] \in [op : {"add", "remove"}, addr : Addrs]
    BY <1>2, <1>3, <2>2 DEF Applied
  <2> QED
    BY <1>2, <1>3, <2>1, <2>2
<1> DEFINE P == peers'[n]
           U == unsure'[n]
           O == orphaned'[n]
<1>5. /\ peers' = [peers EXCEPT ![n] = P] /\ unsure' = [unsure EXCEPT ![n] = U]
      /\ orphaned' = [orphaned EXCEPT ![n] = O]
      /\ P \in {peers[n], Applied(n)}
      /\ O \subseteq orphaned[n]
      /\ \/ /\ P = Applied(n) /\ U = unsure[n] \ {call[n].addr}
            /\ O = IF call[n].op = "add" THEN orphaned[n] \ {call[n].addr} ELSE orphaned[n]
         \/ call[n] # NoCall /\ U = unsure[n] \cup {call[n].addr} /\ O = orphaned[n]
  <2>1. CASE CallSucceeds(i)
    <3>1. /\ peers' = [peers EXCEPT ![n] = Applied(n)]
          /\ unsure' = [unsure EXCEPT ![n] = unsure[n] \ {call[n].addr}]
          /\ orphaned' = [orphaned EXCEPT ![n] =
                              IF call[n].op = "add" THEN orphaned[n] \ {call[n].addr} ELSE orphaned[n]]
      BY <2>1 DEF CallSucceeds
    <3> QED
      BY <1>2, <1>3, <3>1
  <2>2. CASE CallFails(i)
    <3>1. /\ call[n] # NoCall
          /\ peers' = [peers EXCEPT ![n] = Applied(n)] \/ peers' = peers
          /\ unsure' = [unsure EXCEPT ![n] = unsure[n] \cup {call[n].addr}]
          /\ orphaned' = orphaned
      BY <2>2 DEF CallFails
    <3> QED
      BY <1>2, <1>3, <3>1
  <2> QED
    BY <2>1, <2>2
<1> HIDE DEF P, U, O
<1>6. P \in SUBSET Addrs /\ U \in SUBSET Addrs /\ O \in SUBSET Addrs
  <2>1. call[n] # NoCall => call[n].addr \in Addrs
    BY <1>2, <1>3
  <2> QED
    BY <1>2, <1>3, <1>4, <1>5, <2>1
<1> HIDE DEF n
<1>7. PluginTypeOK'
  BY <1>1, <1>2, <1>3, <1>5, <1>6 DEF PluginInv, PluginTypeOK
<1>8. CallInv'
  <2> SUFFICES ASSUME NEW m \in Names, call'[m] # NoCall
               PROVE  \E j \in Regs : worker'[j] = "consume" /\ name'[j] = m
    BY DEF CallInv
  <2>1. m # n /\ call[m] # NoCall
    BY <1>1, <1>2, <1>3
  <2>2. PICK j \in Regs : worker[j] = "consume" /\ name[j] = m
    BY <2>1 DEF PluginInv, CallInv
  <2>3. j # i
    BY <2>1, <2>2 DEF n
  <2> QED
    BY <1>1, <2>2, <2>3 DEF TypeOK
<1>9. CacheInv'
  <2> SUFFICES ASSUME NEW m \in Names, NEW d \in Nodes, NEW b, b = peerCache[m][d], b # NoAddr
               PROVE  /\ call'[m] = [op |-> "add", addr |-> b] \/ b \in peers'[m] \cup unsure'[m] \cup orphaned'[m]
                      /\ call'[m] = [op |-> "remove", addr |-> b] => b \in orphaned'[m]
    BY <1>1 DEF CacheInv
  <2>1. /\ call[m] = [op |-> "add", addr |-> b] \/ b \in peers[m] \cup unsure[m] \cup orphaned[m]
        /\ call[m] = [op |-> "remove", addr |-> b] => b \in orphaned[m]
    BY DEF PluginInv, CacheInv
  <2>2. CASE m # n
    <3>1. call'[m] = call[m] /\ peers'[m] = peers[m] /\ unsure'[m] = unsure[m] /\ orphaned'[m] = orphaned[m]
      BY <1>1, <1>2, <1>3, <1>5, <2>2
    <3> QED
      BY <2>1, <3>1
  <2>3. CASE m = n
    <3>1. call'[m] = NoCall /\ peers'[m] = P /\ unsure'[m] = U /\ orphaned'[m] = O
      BY <1>1, <1>2, <1>3, <1>5, <2>3
    <3>2. b \in P \cup U \cup O
      <4>1. CASE call[n] = NoCall
        <5>1. call[n].op = "none" /\ call[n].addr = NoAddr
          BY <4>1 DEF NoCall
        <5>2. P = peers[n] /\ U = unsure[n] \ {NoAddr} /\ O = orphaned[n]
          BY <1>5, <4>1, <5>1 DEF Applied
        <5>3. b \in peers[n] \cup unsure[n] \cup orphaned[n]
          BY <2>1, <2>3, <4>1, CallsDiffer
        <5> QED
          BY <5>2, <5>3
      <4>2. CASE call[n] # NoCall /\ call[n].op = "add"
        <5>1. Applied(n) = peers[n] \cup {call[n].addr}
          BY <4>2 DEF Applied
        <5>2. call[n] = [op |-> "add", addr |-> b] => call[n].addr = b
          OBVIOUS
        <5>3. call[n].addr \in P \cup U
          BY <1>5, <5>1
        <5>4. \A x \in peers[n] \cup unsure[n] \cup orphaned[n] : x = call[n].addr \/ x \in P \cup U \cup O
          BY <1>5, <5>1
        <5> QED
          BY <2>1, <2>3, <5>2, <5>3, <5>4
      <4>3. CASE call[n] # NoCall /\ call[n].op = "remove"
        <5>1. call[n] = [op |-> "remove", addr |-> call[n].addr]
          BY <1>2, <1>3, <4>3
        <5>2. O = orphaned[n] /\ Applied(n) = peers[n] \ {call[n].addr}
          BY <1>5, <4>3 DEF Applied
        <5>3. call[n].addr = b => b \in O
          BY <2>1, <2>3, <5>1, <5>2
        <5>4. b \in peers[n] \cup unsure[n] \cup orphaned[n]
          BY <2>1, <2>3, <5>1, CallsDiffer
        <5> QED
          BY <1>5, <5>2, <5>3, <5>4
      <4> QED
        BY <1>2, <1>3, <4>1, <4>2, <4>3
    <3> QED
      BY <3>1, <3>2, CallsDiffer
  <2> QED
    BY <2>2, <2>3
<1> QED
  BY <1>7, <1>8, <1>9

LEMMA PluginInvStep == TypeOK /\ BusInv /\ PluginInv /\ [PluginNext]_allVars => PluginInv'
<1> SUFFICES ASSUME TypeOK, BusInv, PluginInv, [PluginNext]_allVars PROVE PluginInv'
  OBVIOUS
<1>1. WorkerInv'
  <2>1. [Next]_vars
    BY PluginStep DEF allVars
  <2> QED
    BY <2>1, WorkerInvStep DEF PluginInv, BusInv
<1>2. CASE UNCHANGED allVars
  BY <1>2 DEF allVars, vars, pluginVars, regVars, runVars, PluginInv, PluginTypeOK, CallInv, CacheInv, WorkerInv
<1>3. CASE BusStep /\ UNCHANGED pluginVars
  BY <1>1, <1>3, BusStepInv DEF PluginInv
<1>4. ASSUME NEW i \in Regs, Consume(i) \/ CallSucceeds(i) \/ CallFails(i) PROVE PluginInv'
  BY <1>1, <1>4, ConsumeInv, CallEndsInv DEF PluginInv
<1> QED
  BY <1>2, <1>3, <1>4 DEF PluginNext

-----------------------------------------------------------------------------
(* Theorems *)

\* What a plugin has cached is a peer of its overlay whenever it has no call
\* of the admin API open, or is an address whose last call failed or that was
\* removed for another node with the same address: for any number of plugins,
\* nodes, hints and registrations, whatever addresses they share.
THEOREM CachedPeers == PluginSpec => []CachedIsPeer
<1>1. PluginInv => CachedIsPeer
  BY CachedWithoutCall DEF CachedIsPeer
<1>2. PluginSpec => [](TypeOK /\ BusInv)
  BY PluginsKeepBus, Invariant, PTL
<1>3. PluginInit => PluginInv
  BY InitPluginInv
<1>4. TypeOK /\ BusInv /\ PluginInv /\ [PluginNext]_allVars => PluginInv'
  BY PluginInvStep
<1> QED
  BY <1>1, <1>2, <1>3, <1>4, PTL DEF PluginSpec

=============================================================================
