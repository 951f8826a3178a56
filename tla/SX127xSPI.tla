----------------------------- MODULE SX127xSPI ------------------------------
(***************************************************************************)
(* The SX127x radio driver (internal/lora/sx127x_spi.go) against the chip. *)
(*                                                                         *)
(* The driver locks single register accesses and nothing longer, so each   *)
(* access is a step, and a transfer on the SPI bus may fail before or      *)
(* after the chip has taken it.  Only the channel check holds the mutex    *)
(* for longer, and calls the same accesses under it.                       *)
(*                                                                         *)
(* The chip is external.  As the driver uses it, it transmits the FIFO     *)
(* from its base address, a register the driver names and never writes,    *)
(* until it is done or its mode is changed; in receive mode it stores      *)
(* frames at addresses of its choice and announces the last one.  A byte is a frame with an index.  Signal   *)
(* strength, the constructor and the values of the settings are left out.  *)
(***************************************************************************)
EXTENDS Naturals, Sequences

CONSTANTS
    Callers,   \* goroutines that use the radio
    NoCaller,  \* the mutex is free
    TxFrames,  \* payloads to send, each in one call of Send
    RxFrames,  \* frames of others, each on the air once
    NoFrame,   \* no payload
    Length,    \* bytes of each frame
    FifoSize,  \* 256 in the chip
    TxBase,    \* external: what RegFifoTxBaseAddr holds, 128 in the chip
    MaxFaults  \* bound: transfers on the SPI bus that fail

Frames == TxFrames \cup RxFrames

ASSUME RadioAssumption ==
    /\ NoCaller \notin Callers
    /\ NoFrame \notin Frames
    /\ TxFrames \cap RxFrames = {}
    /\ FifoSize \in Nat \ {0}
    /\ TxBase \in 0..FifoSize - 1
    /\ Length \in [Frames -> 1..FifoSize]
    /\ MaxFaults \in Nat

VARIABLES
    chip,       \* the registers and the FIFO of the chip
    mu,         \* holder of SX127xSPI.mu for longer than one access
    kind,       \* the call each goroutine is in
    at,         \* where it stands in that call
    frame,      \* the payload of its Send
    length,     \* extractReceivedPayload: the length it read
    addr,       \* extractReceivedPayload: the address it read
    payload,    \* the bytes it has written to or read from the FIFO
    cancelled,  \* is the context of its call done?
    result,     \* history: how the Send of each payload ended
    transmitted, \* history: how often each payload went out as the driver held it
    garbled,    \* history: something else was transmitted
    aired,      \* history: payloads that have been on the air whole
    abandoned,  \* history: a Send failed while the chip was transmitting
    arrived,    \* history: the frames of others that came in, and how
    delivered,  \* history: how often Recv returned each of them
    misread,    \* history: Recv returned something else
    overrun,    \* history: a frame came in while one was being read out
    faults      \* history: the number of transfers that failed

localVars == <<kind, frame, length, addr, payload, cancelled>>
sendVars  == <<result, transmitted, garbled, aired, abandoned>>
recvVars  == <<arrived, delivered, misread, overrun>>
vars == <<chip, mu, at, localVars, sendVars, recvVars, faults>>

Modes == {"sleep", "standby", "tx", "rx"}
Irqs == {"TxDone", "RxDone", "PayloadCrc"}
Noise == <<NoFrame, 0>>
Cells == (Frames \X (1..FifoSize)) \cup {Noise}

\* What the frame looks like in the FIFO and on the air.
Bytes(f) == [n \in 1..Length[f] |-> <<f, n>>]

Locations ==
    {"idle", "ok", "failed",
     "prepareTx", "setTxPtr", "writeFifo", "writeLength", "clearIrq", "startTx", "waitTxDone", "ackTx", "endTx",
     "enterRx", "waitRxDone", "dropFrame", "readLength", "readAddr", "setRxPtr", "readFifo", "ackRx", "endRx", "stopRx",
     "firstSetting", "lastSetting", "sleep",
     "lbtRx", "lbtRssi", "lbtStandby"}

Kinds == {"none", "Send", "Recv", "Set", "Close", "LBT"}

TypeOK ==
    /\ chip \in [mode : Modes, irq : SUBSET Irqs, fifo : [0..FifoSize - 1 -> Cells],
                 ptr : 0..FifoSize - 1, txLen : 0..FifoSize, rxLen : 0..FifoSize, rxAddr : 0..FifoSize - 1,
                 retuned : BOOLEAN]
    /\ mu \in Callers \cup {NoCaller}
    /\ kind \in [Callers -> Kinds]
    /\ at \in [Callers -> Locations]
    /\ frame \in [Callers -> TxFrames \cup {NoFrame}]
    /\ length \in [Callers -> 0..FifoSize]
    /\ addr \in [Callers -> 0..FifoSize - 1]
    /\ payload \in [Callers -> Seq(Cells)]
    /\ cancelled \in [Callers -> BOOLEAN]
    /\ result \in [TxFrames -> {"none", "pending", "ok", "failed"}]
    /\ transmitted \in [TxFrames -> Nat]
    /\ aired \subseteq TxFrames
    /\ arrived \in [RxFrames -> {"none", "good", "damaged"}]
    /\ delivered \in [RxFrames -> Nat]
    /\ {garbled, abandoned, misread, overrun} \subseteq BOOLEAN
    /\ faults \in Nat

\* The constructor leaves the chip in standby; the FIFO holds anything.
Init ==
    /\ chip = [mode |-> "standby", irq |-> {}, fifo |-> [n \in 0..FifoSize - 1 |-> Noise],
               ptr |-> 0, txLen |-> 0, rxLen |-> 0, rxAddr |-> 0, retuned |-> FALSE]
    /\ mu = NoCaller
    /\ kind = [c \in Callers |-> "none"]
    /\ at = [c \in Callers |-> "idle"]
    /\ frame = [c \in Callers |-> NoFrame]
    /\ length = [c \in Callers |-> 0]
    /\ addr = [c \in Callers |-> 0]
    /\ payload = [c \in Callers |-> <<>>]
    /\ cancelled = [c \in Callers |-> FALSE]
    /\ result = [f \in TxFrames |-> "none"]
    /\ transmitted = [f \in TxFrames |-> 0]
    /\ aired = {}
    /\ arrived = [f \in RxFrames |-> "none"]
    /\ delivered = [f \in RxFrames |-> 0]
    /\ garbled = FALSE
    /\ abandoned = FALSE
    /\ misread = FALSE
    /\ overrun = FALSE
    /\ faults = 0

-----------------------------------------------------------------------------
(* Register accesses *)

Goto(c, l) == at' = [at EXCEPT ![c] = l]

\* RegOpMode: a new mode also ends a transmission.
OpMode(m) == [chip EXCEPT !.mode = m, !.retuned = FALSE]
\* RegIrqFlags is cleared by writing ones.
IrqFlagsCleared == [chip EXCEPT !.irq = {}]
\* RegFrf, RegModemConfig: matter to a frame that is on the air.
Setting == [chip EXCEPT !.retuned = chip.mode = "tx"]
\* Each access of RegFifo moves its pointer along.
FifoMoved == (chip.ptr + 1) % FifoSize

\* Mutant: startTransmission leaves the interrupt flags as they are.
StartTransmissionStale(c) ==
    [writeLength |-> [after |-> [chip EXCEPT !.txLen = Len(payload[c])], to |-> "startTx"],
     clearIrq |-> [after |-> IrqFlagsCleared, to |-> "startTx"],
     startTx |-> [after |-> OpMode("tx"), to |-> "waitTxDone"]]

\* writePayloadToFIFO (its end), startTransmission
StartTransmission(c) ==
    [writeLength |-> [after |-> [chip EXCEPT !.txLen = Len(payload[c])], to |-> "clearIrq"],
     clearIrq |-> [after |-> IrqFlagsCleared, to |-> "startTx"],
     startTx |-> [after |-> OpMode("tx"), to |-> "waitTxDone"]]

\* prepareTxMode
PrepareTxMode ==
    [prepareTx |-> [after |-> OpMode("standby"), to |-> "setTxPtr"],
     setTxPtr |-> [after |-> [chip EXCEPT !.ptr = 0], to |-> "writeFifo"]]

\* enterRxMode, and extractReceivedPayload where it turns to the FIFO
EnterRxMode(c) ==
    [enterRx |-> [after |-> OpMode("rx"), to |-> "waitRxDone"],
     setRxPtr |-> [after |-> [chip EXCEPT !.ptr = addr[c]], to |-> "readFifo"]]

\* SetFrequency writes three registers; SetSpreadingFactor and SetBandwidth
\* read one and write it back, which is the last write alone.
Settings ==
    [firstSetting |-> [after |-> Setting, to |-> "lastSetting"],
     lastSetting |-> [after |-> Setting, to |-> "ok"]]

\* isChannelClear, under the mutex it has locked: receive, read the signal
\* strength, go back to standby.
IsChannelClear ==
    [lbtRx |-> [after |-> OpMode("rx"), to |-> "lbtRssi"],
     lbtRssi |-> [after |-> chip, to |-> "lbtStandby"],
     lbtStandby |-> [after |-> OpMode("standby"), to |-> "ok"]]

\* writeRegister and readRegister lock the mutex for the access; a transfer
\* that fails may have reached the chip, and its error ends the call.
Transfer(c, after, to) ==
    /\ mu = NoCaller
    /\ \/ chip' = after /\ Goto(c, to) /\ UNCHANGED faults
       \/ /\ faults < MaxFaults
          /\ chip' \in {chip, after}
          /\ Goto(c, "failed")
          /\ faults' = faults + 1

AccessRegister(c) ==
    /\ \E accesses \in {PrepareTxMode, StartTransmission(c), EnterRxMode(c), Settings, IsChannelClear} :
           /\ at[c] \in DOMAIN accesses
           /\ Transfer(c, accesses[at[c]].after, accesses[at[c]].to)
    /\ UNCHANGED <<mu, localVars, sendVars, recvVars>>

\* Mutant: Recv leaves the interrupt flags as they are.
ClosingUnacked ==
    [ackTx |-> [after |-> IrqFlagsCleared, to |-> "endTx"],
     endTx |-> [after |-> OpMode("standby"), to |-> "ok"],
     dropFrame |-> [after |-> IrqFlagsCleared, to |-> "failed"],
     ackRx |-> [after |-> chip, to |-> "endRx"],
     endRx |-> [after |-> OpMode("standby"), to |-> "ok"],
     stopRx |-> [after |-> OpMode("standby"), to |-> "failed"],
     sleep |-> [after |-> OpMode("sleep"), to |-> "ok"]]

\* Writes whose error the code ignores: the end of a call that succeeded, and
\* what an error or the context leaves to tidy up.
Closing ==
    [ackTx |-> [after |-> IrqFlagsCleared, to |-> "endTx"],
     endTx |-> [after |-> OpMode("standby"), to |-> "ok"],
     dropFrame |-> [after |-> IrqFlagsCleared, to |-> "failed"],
     ackRx |-> [after |-> IrqFlagsCleared, to |-> "endRx"],
     endRx |-> [after |-> OpMode("standby"), to |-> "ok"],
     stopRx |-> [after |-> OpMode("standby"), to |-> "failed"],
     sleep |-> [after |-> OpMode("sleep"), to |-> "ok"]]

CloseOff(c) ==
    /\ at[c] \in DOMAIN Closing
    /\ mu = NoCaller
    /\ Goto(c, Closing[at[c]].to)
    /\ \/ chip' = Closing[at[c]].after /\ UNCHANGED faults
       \/ faults < MaxFaults /\ chip' = chip /\ faults' = faults + 1
    /\ UNCHANGED <<mu, localVars, sendVars, recvVars>>

-----------------------------------------------------------------------------
(* The FIFO and what is read from the chip *)

\* writePayloadToFIFO: one byte.
WriteFifo(c) ==
    LET n == Len(payload[c]) + 1
        byte == Bytes(frame[c])[n]
    IN  /\ at[c] = "writeFifo"
        /\ Transfer(c, [chip EXCEPT !.fifo[chip.ptr] = byte, !.ptr = FifoMoved],
                    IF n = Length[frame[c]] THEN "writeLength" ELSE "writeFifo")
        /\ payload' = [payload EXCEPT ![c] = Append(@, byte)]
        /\ UNCHANGED <<mu, kind, frame, length, addr, cancelled, sendVars, recvVars>>

\* extractReceivedPayload: RegRxNbBytes.
ReadLength(c) ==
    /\ at[c] = "readLength"
    /\ Transfer(c, chip, "readAddr")
    /\ length' = [length EXCEPT ![c] = chip.rxLen]
    /\ UNCHANGED <<mu, kind, frame, addr, payload, cancelled, sendVars, recvVars>>

\* extractReceivedPayload: RegFifoRxCurrentAddr.
ReadAddr(c) ==
    /\ at[c] = "readAddr"
    /\ Transfer(c, chip, "setRxPtr")
    /\ addr' = [addr EXCEPT ![c] = chip.rxAddr]
    /\ UNCHANGED <<mu, kind, frame, length, payload, cancelled, sendVars, recvVars>>

\* readPayloadFromFIFO: one byte.
ReadFifo(c) ==
    /\ at[c] = "readFifo"
    /\ Transfer(c, [chip EXCEPT !.ptr = FifoMoved],
                IF Len(payload[c]) + 1 = length[c] THEN "ackRx" ELSE "readFifo")
    /\ payload' = [payload EXCEPT ![c] = Append(@, chip.fifo[chip.ptr])]
    /\ UNCHANGED <<mu, kind, frame, length, addr, cancelled, sendVars, recvVars>>

\* pollWithTicker: the flags are read every 10 ms.  A poll that finds nothing
\* changes nothing; one whose read fails ends the call, also in mid-air.
WaitForTxDone(c) ==
    /\ at[c] = "waitTxDone"
    /\ Transfer(c, chip, IF "TxDone" \in chip.irq THEN "ackTx" ELSE at[c])
    /\ UNCHANGED <<mu, localVars, sendVars, recvVars>>

WaitForRxDone(c) ==
    /\ at[c] = "waitRxDone"
    /\ Transfer(c, chip, IF "RxDone" \notin chip.irq THEN at[c]
                         ELSE IF "PayloadCrc" \in chip.irq THEN "dropFrame" ELSE "readLength")
    /\ UNCHANGED <<mu, localVars, sendVars, recvVars>>

\* Mutant: the wait for a frame ignores the context.
PollCancelledSendOnly(c) ==
    /\ cancelled[c]
    /\ at[c] = "waitTxDone"
    /\ Goto(c, "failed")
    /\ UNCHANGED <<chip, mu, localVars, sendVars, recvVars, faults>>

\* pollWithTicker finds the context done: Send leaves the chip as it is, Recv
\* puts it into standby.
PollCancelled(c) ==
    /\ cancelled[c]
    /\ at[c] \in {"waitTxDone", "waitRxDone"}
    /\ Goto(c, IF at[c] = "waitTxDone" THEN "failed" ELSE "stopRx")
    /\ UNCHANGED <<chip, mu, localVars, sendVars, recvVars, faults>>

-----------------------------------------------------------------------------
(* Calls *)

Begin(c, k, l) ==
    /\ kind[c] = "none"
    /\ kind' = [kind EXCEPT ![c] = k]
    /\ Goto(c, l)

\* A payload above 255 bytes is refused before anything happens.
Send(c, f) ==
    /\ result[f] = "none"
    /\ Begin(c, "Send", "prepareTx")
    /\ frame' = [frame EXCEPT ![c] = f]
    /\ result' = [result EXCEPT ![f] = "pending"]
    /\ UNCHANGED <<chip, mu, length, addr, payload, cancelled, transmitted, garbled, aired, abandoned, recvVars, faults>>

Recv(c) ==
    /\ Begin(c, "Recv", "enterRx")
    /\ UNCHANGED <<chip, mu, frame, length, addr, payload, cancelled, sendVars, recvVars, faults>>

\* SetFrequency; SetSpreadingFactor and SetBandwidth.
SetRadio(c) ==
    /\ \E l \in {"firstSetting", "lastSetting"} : Begin(c, "Set", l)
    /\ UNCHANGED <<chip, mu, frame, length, addr, payload, cancelled, sendVars, recvVars, faults>>

Close(c) ==
    /\ Begin(c, "Close", "sleep")
    /\ UNCHANGED <<chip, mu, frame, length, addr, payload, cancelled, sendVars, recvVars, faults>>

\* PerformLBT up to the lock of isChannelClear.  A retry repeats the same.
PerformLBT(c) ==
    /\ mu = NoCaller
    /\ Begin(c, "LBT", "lbtRx")
    /\ mu' = c
    /\ UNCHANGED <<chip, frame, length, addr, payload, cancelled, sendVars, recvVars, faults>>

\* The context of a call is cancelled or runs into its deadline.
Cancel(c) ==
    /\ kind[c] \in {"Send", "Recv", "LBT"}
    /\ ~cancelled[c]
    /\ cancelled' = [cancelled EXCEPT ![c] = TRUE]
    /\ UNCHANGED <<chip, mu, at, kind, frame, length, addr, payload, sendVars, recvVars, faults>>

\* What every return takes with it, the deferred unlock included.
Leave(c) ==
    /\ at[c] \in {"ok", "failed"}
    /\ Goto(c, "idle")
    /\ mu' = IF mu = c THEN NoCaller ELSE mu
    /\ kind' = [kind EXCEPT ![c] = "none"]
    /\ frame' = [frame EXCEPT ![c] = NoFrame]
    /\ length' = [length EXCEPT ![c] = 0]
    /\ addr' = [addr EXCEPT ![c] = 0]
    /\ payload' = [payload EXCEPT ![c] = <<>>]
    /\ cancelled' = [cancelled EXCEPT ![c] = FALSE]
    /\ UNCHANGED <<chip, faults>>

SendReturns(c) ==
    /\ kind[c] = "Send"
    /\ Leave(c)
    /\ result' = [result EXCEPT ![frame[c]] = at[c]]
    /\ abandoned' = (abandoned \/ (at[c] = "failed" /\ chip.mode = "tx"))
    /\ UNCHANGED <<transmitted, garbled, aired, recvVars>>

RecvReturns(c) ==
    /\ kind[c] = "Recv"
    /\ Leave(c)
    /\ LET whole == {f \in RxFrames : arrived[f] = "good" /\ payload[c] = Bytes(f)}
       IN  IF at[c] = "failed"
           THEN UNCHANGED <<delivered, misread>>
           ELSE /\ delivered' = [f \in RxFrames |-> IF f \in whole THEN delivered[f] + 1 ELSE delivered[f]]
                /\ misread' = (misread \/ whole = {})
    /\ UNCHANGED <<arrived, overrun, sendVars>>

CallReturns(c) ==
    /\ kind[c] \in {"Set", "Close", "LBT"}
    /\ Leave(c)
    /\ UNCHANGED <<sendVars, recvVars>>

-----------------------------------------------------------------------------
(* The chip *)

\* What the driver means to send: it fills the FIFO from address 0.
Held == [n \in 1..chip.txLen |-> chip.fifo[n - 1]]

\* What the chip sends.
OnAir == [n \in 1..chip.txLen |-> chip.fifo[(TxBase + n - 1) % FifoSize]]

\* The transmission ends: TxDone, and standby by itself.
TxDone ==
    /\ chip.mode = "tx"
    /\ chip' = [chip EXCEPT !.mode = "standby", !.irq = @ \cup {"TxDone"}, !.retuned = FALSE]
    /\ LET whole(bytes) == {f \in TxFrames : bytes = Bytes(f) /\ ~chip.retuned}
       IN  /\ transmitted' = [f \in TxFrames |->
                                   IF f \in whole(Held) THEN transmitted[f] + 1 ELSE transmitted[f]]
           /\ garbled' = (garbled \/ whole(Held) = {})
           /\ aired' = aired \cup whole(OnAir)
    /\ UNCHANGED <<mu, at, localVars, result, abandoned, recvVars, faults>>

ReadingOut == \E c \in Callers : at[c] \in {"readLength", "readAddr", "setRxPtr", "readFifo"}

\* A frame comes in and is stored somewhere, sound or damaged.
RxDone(f) ==
    /\ chip.mode = "rx"
    /\ arrived[f] = "none"
    /\ \E a \in 0..FifoSize - Length[f], sound \in BOOLEAN :
           /\ chip' = [chip EXCEPT
                  !.irq = @ \cup (IF sound THEN {"RxDone"} ELSE {"RxDone", "PayloadCrc"}),
                  !.fifo = [n \in 0..FifoSize - 1 |->
                      IF n \notin a..a + Length[f] - 1 THEN chip.fifo[n]
                      ELSE IF sound THEN Bytes(f)[n - a + 1] ELSE Noise],
                  !.rxLen = Length[f],
                  !.rxAddr = a]
           /\ arrived' = [arrived EXCEPT ![f] = IF sound THEN "good" ELSE "damaged"]
    /\ overrun' = (overrun \/ ReadingOut)
    /\ UNCHANGED <<mu, at, localVars, sendVars, delivered, misread, faults>>

-----------------------------------------------------------------------------

Driver(c) ==
    \/ AccessRegister(c)
    \/ CloseOff(c)
    \/ WriteFifo(c)
    \/ ReadLength(c)
    \/ ReadAddr(c)
    \/ ReadFifo(c)
    \/ WaitForTxDone(c)
    \/ WaitForRxDone(c)
    \/ PollCancelled(c)
    \/ SendReturns(c)
    \/ RecvReturns(c)
    \/ CallReturns(c)

Call(c) ==
    \/ \E f \in TxFrames : Send(c, f)
    \/ Recv(c)
    \/ SetRadio(c)
    \/ Close(c)
    \/ PerformLBT(c)
    \/ Cancel(c)

Next ==
    \/ \E c \in Callers : Driver(c) \/ Call(c)
    \/ TxDone
    \/ \E f \in RxFrames : RxDone(f)

Spec == Init /\ [][Next]_vars

\* A call goes on, and a transmission comes to its end.  Nobody has to call or
\* to cancel, and nothing has to be received.
Fairness ==
    /\ \A c \in Callers : WF_vars(Driver(c))
    /\ WF_vars(TxDone)

FairSpec == Spec /\ Fairness

-----------------------------------------------------------------------------
(* Properties, for one goroutine at a time *)

\* For a Send that succeeds the chip has carried out one transmission, from its
\* start to TxDone, with the payload whole in the FIFO and its length set; for
\* one that fails at most one, and there is no other, unless a failed Send left
\* its frame on the air and a setting changed under it.  Neither a flag left
\* over from an earlier call nor one whose clearing failed ends the wait of a
\* later one.
TransmittedOnce ==
    /\ \A f \in TxFrames : transmitted[f] <= 1
    /\ \A f \in TxFrames : result[f] = "ok" => transmitted[f] = 1
    /\ \A f \in TxFrames : result[f] = "none" => transmitted[f] = 0
    /\ garbled => abandoned

\* "Send transmits a payload": when it succeeds, the payload itself has been on
\* the air, whole.
PayloadOnAir == \A f \in TxFrames : result[f] = "ok" => f \in aired

\* Recv returns sound frames whole, and each at most once, however calls were
\* cancelled before; but not if a frame came in while another was being read
\* out, as nothing stops the receiver, and not after a failed transfer, as a
\* frame whose clearing failed is found again by the next call.
ReceivedWhole ==
    ~overrun /\ faults = 0 =>
        /\ ~misread
        /\ \A f \in RxFrames : delivered[f] <= 1

\* A call comes back: Send by itself, Recv when its context is done, the others
\* always; but nobody does once a channel check has locked the mutex.
CallsReturn ==
    \A c \in Callers :
        (kind[c] \notin {"none", "Recv"} \/ cancelled[c]) ~> (kind[c] = "none" \/ mu # NoCaller)

=============================================================================
