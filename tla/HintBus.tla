------------------------------- MODULE HintBus -------------------------------
(***************************************************************************)
(* The hint bus of internal/hint/bus.go: providers publish routing hints,  *)
(* every registered consumer gets them through a buffered channel of its   *)
(* own, and Run reads each channel in a worker goroutine that calls the    *)
(* consumer.                                                               *)
(*                                                                         *)
(* Publish holds the bus's lock as a reader while it goes through the      *)
(* consumers one by one, waiting up to 100 ms for each; Register,          *)
(* Unregister and Close take it as writers.  A registration is a number    *)
(* here, as the channel of an unregistered consumer may live on in its     *)
(* worker while the name is registered anew.                               *)
(*                                                                         *)
(* Left out: the defaulting of buffer sizes, logging, and the drop counters *)
(* that only Stats shows.                                                  *)
(***************************************************************************)
EXTENDS Naturals, Sequences

CONSTANTS
    Names,            \* consumer names
    Publishers,       \* goroutines that call Publish
    Hints,            \* contents of a hint
    NoHint,
    BufSize,          \* capacity of a consumer's channel
    MaxRegistrations, \* bound: calls of RegisterConsumer
    MaxPublished      \* bound: calls of Publish

ASSUME BusAssumption ==
    /\ Names # {}
    /\ NoHint \notin Hints
    /\ BufSize \in Nat \ {0}
    /\ MaxRegistrations \in Nat
    /\ MaxPublished \in Nat

Regs == 1..MaxRegistrations

VARIABLES
    made,        \* registrations so far
    consumers,   \* consumers: name -> registration, 0 for none
    name,        \* name of each registration
    ch,          \* ch of each registration: the hints in it
    chClosed,    \* registrations whose channel is closed
    closed,      \* closed
    closer,      \* Close: "open", "waiting" for the lock, "closed"
    run,         \* Run: "idle", "running", "returned"
    cancelled,   \* Run's context
    worker,      \* runConsumer: "none", "select", "consume", "done"
    hand,        \* hint a worker took
    pub,         \* Publish calls in progress
    panicked,    \* panic of a channel operation: "no", "send", "close"
    published    \* history: calls of Publish so far

regVars == <<made, consumers, name>>
busVars == <<closed, closer>>
runVars == <<run, cancelled, worker, hand>>
pubVars == <<pub, published>>
vars == <<regVars, ch, chClosed, busVars, runVars, pubVars, panicked>>

Idle == [pc |-> "idle", hint |-> NoHint, done |-> {}, audience |-> {}]

TypeOK ==
    /\ made \in 0..MaxRegistrations
    /\ consumers \in [Names -> 0..made]
    /\ name \in [Regs -> Names]
    /\ ch \in [Regs -> Seq(Hints)]
    /\ \A i \in Regs : Len(ch[i]) <= BufSize
    /\ chClosed \subseteq 1..made
    /\ closed \in BOOLEAN /\ cancelled \in BOOLEAN
    /\ closer \in {"open", "waiting", "closed"}
    /\ run \in {"idle", "running", "returned"}
    /\ worker \in [Regs -> {"none", "select", "consume", "done"}]
    /\ hand \in [Regs -> Hints \cup {NoHint}]
    /\ pub \in [Publishers -> {Idle} \cup [pc : {"sending"}, hint : Hints,
                                           done : SUBSET Regs, audience : SUBSET Regs]]
    /\ panicked \in {"no", "send", "close"}
    /\ published \in 0..MaxPublished

\* NewBus.
Init ==
    /\ made = 0 /\ consumers = [n \in Names |-> 0]
    /\ name = [i \in Regs |-> CHOOSE n \in Names : TRUE]
    /\ ch = [i \in Regs |-> <<>>] /\ chClosed = {}
    /\ closed = FALSE /\ closer = "open"
    /\ run = "idle" /\ cancelled = FALSE
    /\ worker = [i \in Regs |-> "none"] /\ hand = [i \in Regs |-> NoHint]
    /\ pub = [p \in Publishers |-> Idle]
    /\ panicked = "no"
    /\ published = 0

Registered == {consumers[n] : n \in Names} \ {0}

-----------------------------------------------------------------------------
(* The lock: readers are the Publish calls in progress. *)

MayWrite == panicked = "no" /\ \A p \in Publishers : pub[p].pc = "idle"

\* A writer that waits keeps new readers out.
MayRead == panicked = "no" /\ closer # "waiting"

-----------------------------------------------------------------------------
(* Registration and close *)

RegisterConsumer(n) ==
    /\ MayWrite /\ ~closed
    /\ consumers[n] = 0
    /\ made < MaxRegistrations
    /\ made' = made + 1
    /\ consumers' = [consumers EXCEPT ![n] = made + 1]
    /\ name' = [name EXCEPT ![made + 1] = n]
    /\ UNCHANGED <<ch, chClosed, busVars, runVars, pubVars, panicked>>

\* The channel is closed whether Close has closed it before or not: a second
\* close of a channel panics.
UnregisterConsumer(n) ==
    /\ MayWrite
    /\ consumers[n] # 0
    /\ IF consumers[n] \in chClosed
       THEN panicked' = "close" /\ UNCHANGED <<regVars, chClosed>>
       ELSE /\ chClosed' = chClosed \cup {consumers[n]}
            /\ consumers' = [consumers EXCEPT ![n] = 0]
            /\ UNCHANGED <<made, name, panicked>>
    /\ UNCHANGED <<ch, busVars, runVars, pubVars>>

\* Close asks for the lock ...
CallClose ==
    /\ panicked = "no" /\ closer = "open"
    /\ closer' = "waiting"
    /\ UNCHANGED <<regVars, ch, chClosed, closed, runVars, pubVars, panicked>>

\* ... and closes the channels, leaving the consumers registered.
Close ==
    /\ MayWrite /\ closer = "waiting"
    /\ closer' = "closed"
    /\ closed' = TRUE
    /\ chClosed' = chClosed \cup Registered
    /\ UNCHANGED <<regVars, ch, runVars, pubVars, panicked>>

-----------------------------------------------------------------------------
(* Publish *)

\* Mutant: the closed flag is not looked at.
PublishUnguarded(p, h) ==
    /\ MayRead
    /\ pub[p].pc = "idle" /\ published < MaxPublished
    /\ pub' = [pub EXCEPT ![p] = [pc |-> "sending", hint |-> h, done |-> {}, audience |-> Registered]]
    /\ published' = published + 1
    /\ UNCHANGED <<regVars, ch, chClosed, busVars, runVars, panicked>>

Publish(p, h) ==
    /\ MayRead /\ ~closed
    /\ pub[p].pc = "idle" /\ published < MaxPublished
    /\ pub' = [pub EXCEPT ![p] = [pc |-> "sending", hint |-> h, done |-> {}, audience |-> Registered]]
    /\ published' = published + 1
    /\ UNCHANGED <<regVars, ch, chClosed, busVars, runVars, panicked>>

\* The consumers the loop has still to go through, in the map's random order.
Left(p) == Registered \ pub[p].done

Sending(p, i) == panicked = "no" /\ pub[p].pc = "sending" /\ i \in Left(p)

\* Sending on a closed channel panics.
Send(p, i) ==
    /\ Sending(p, i)
    /\ IF i \in chClosed
       THEN panicked' = "send" /\ UNCHANGED <<ch, pub>>
       ELSE /\ Len(ch[i]) < BufSize
            /\ ch' = [ch EXCEPT ![i] = Append(@, pub[p].hint)]
            /\ pub' = [pub EXCEPT ![p].done = @ \cup {i}]
            /\ UNCHANGED panicked
    /\ UNCHANGED <<regVars, chClosed, busVars, runVars, published>>

\* Mutant: the publisher waits for room however long it takes.
GiveUpNever(p, i) == FALSE /\ Sending(p, i)

\* The channel stays full for 100 ms: the hint is dropped for this consumer.
GiveUp(p, i) ==
    /\ Sending(p, i)
    /\ i \notin chClosed /\ Len(ch[i]) = BufSize
    /\ pub' = [pub EXCEPT ![p].done = @ \cup {i}]
    /\ UNCHANGED <<regVars, ch, chClosed, busVars, runVars, published, panicked>>

PublishReturns(p) ==
    /\ panicked = "no" /\ pub[p].pc = "sending" /\ Left(p) = {}
    /\ pub' = [pub EXCEPT ![p] = Idle]
    /\ UNCHANGED <<regVars, ch, chClosed, busVars, runVars, panicked, published>>

-----------------------------------------------------------------------------
(* Run and its workers *)

\* Run starts a worker for each consumer registered at this moment; a consumer
\* registered later gets none.
Run ==
    /\ MayRead /\ run = "idle"
    /\ run' = "running"
    /\ worker' = [i \in Regs |-> IF i \in Registered THEN "select" ELSE "none"]
    /\ UNCHANGED <<regVars, ch, chClosed, busVars, cancelled, hand, pubVars, panicked>>

Cancel ==
    /\ panicked = "no" /\ ~cancelled
    /\ cancelled' = TRUE
    /\ UNCHANGED <<regVars, ch, chClosed, busVars, run, worker, hand, pubVars, panicked>>

\* selectHintOrCancel picks at random among the cases that are ready.
Selecting(i) == panicked = "no" /\ worker[i] = "select"

WorkerStops(i) ==
    /\ worker' = [worker EXCEPT ![i] = "done"]
    /\ UNCHANGED <<regVars, ch, chClosed, busVars, run, cancelled, hand, pubVars, panicked>>

\* Mutants: the context is not selected on; a worker ends as soon as its
\* channel is closed; a worker reads nothing more once the bus is closed.
SelectCancelNever(i) == FALSE /\ Selecting(i)
SelectClosedAtOnce(i) == Selecting(i) /\ i \in chClosed /\ WorkerStops(i)

SelectHintWhileOpen(i) ==
    /\ Selecting(i) /\ ch[i] # <<>> /\ ~closed
    /\ worker' = [worker EXCEPT ![i] = "consume"]
    /\ hand' = [hand EXCEPT ![i] = Head(ch[i])]
    /\ ch' = [ch EXCEPT ![i] = Tail(@)]
    /\ UNCHANGED <<regVars, chClosed, busVars, run, cancelled, pubVars, panicked>>

SelectCancel(i) == Selecting(i) /\ cancelled /\ WorkerStops(i)

\* A closed channel first yields what is still in it.
SelectClosed(i) == Selecting(i) /\ i \in chClosed /\ ch[i] = <<>> /\ WorkerStops(i)

SelectHint(i) ==
    /\ Selecting(i) /\ ch[i] # <<>>
    /\ worker' = [worker EXCEPT ![i] = "consume"]
    /\ hand' = [hand EXCEPT ![i] = Head(ch[i])]
    /\ ch' = [ch EXCEPT ![i] = Tail(@)]
    /\ UNCHANGED <<regVars, chClosed, busVars, run, cancelled, pubVars, panicked>>

\* Consume returns; an error of the consumer is only logged.
ProcessHint(i) ==
    /\ panicked = "no" /\ worker[i] = "consume"
    /\ worker' = [worker EXCEPT ![i] = "select"]
    /\ hand' = [hand EXCEPT ![i] = NoHint]
    /\ UNCHANGED <<regVars, ch, chClosed, busVars, run, cancelled, pubVars, panicked>>

RunReturns ==
    /\ panicked = "no" /\ run = "running" /\ cancelled
    /\ \A i \in Regs : worker[i] \in {"none", "done"}
    /\ run' = "returned"
    /\ UNCHANGED <<regVars, ch, chClosed, busVars, cancelled, worker, hand, pubVars, panicked>>

-----------------------------------------------------------------------------

\* What the bus does by itself, apart from the calls of consumers.
PublisherStep(p) ==
    \/ \E i \in Regs : Send(p, i) \/ GiveUp(p, i)
    \/ PublishReturns(p)
BusStep ==
    \/ \E n \in Names : RegisterConsumer(n) \/ UnregisterConsumer(n)
    \/ \E p \in Publishers : PublisherStep(p) \/ \E h \in Hints : Publish(p, h)
    \/ CallClose \/ Close \/ Run \/ Cancel \/ RunReturns
    \/ \E i \in Regs : SelectCancel(i) \/ SelectClosed(i)

WorkerStep(i) == SelectCancel(i) \/ SelectClosed(i) \/ SelectHint(i) \/ ProcessHint(i)

Next == BusStep \/ \E i \in Regs : SelectHint(i) \/ ProcessHint(i)

Spec == Init /\ [][Next]_vars

\* The goroutines run, the 100 ms timers fire and consumers return: the HTTP
\* client of the plugins has a timeout.
Fairness ==
    /\ \A p \in Publishers : WF_vars(PublisherStep(p))
    /\ \A i \in Regs : WF_vars(WorkerStep(i))
    /\ WF_vars(Close) /\ WF_vars(RunReturns)

FairSpec == Spec /\ Fairness

-----------------------------------------------------------------------------
(* Properties *)

\* No publisher ever sends on a closed channel, which would end the daemon:
\* whoever closes one excludes the publishers and takes it out of their reach.
NoSendOnClosed == panicked # "send"

\* Publish offers its hint to the consumers that were registered when it took
\* the lock, to each of them once.
OfferedToAll ==
    [][\A p \in Publishers :
        pub[p].pc # "idle" /\ pub'[p].pc = "idle" => pub[p].done = pub[p].audience]_vars

\* Closing the bus or a consumer loses nothing that was queued: a worker that
\* ends without cancellation has emptied its channel.
DrainedBeforeExit == \A i \in Regs : worker[i] = "done" /\ ~cancelled => ch[i] = <<>>

\* Close gets the lock, however slow the consumers are.
CloseReturns == closer = "waiting" ~> closer = "closed" \/ panicked # "no"

\* Run returns after the cancellation of its context.
RunEnds == run = "running" /\ cancelled ~> run = "returned" \/ panicked # "no"

\* A hint in a channel with a worker is consumed, unless Run is cancelled first.
HintsConsumed ==
    \A i \in Regs :
        ch[i] # <<>> /\ worker[i] # "none" ~> ch[i] = <<>> \/ cancelled \/ panicked # "no"

=============================================================================
