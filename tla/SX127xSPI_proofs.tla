-------------------------- MODULE SX127xSPI_proofs --------------------------
(***************************************************************************)
(* Proofs about the radio driver, for any number of goroutines what needs  *)
(* only their own call, and for one goroutine what they rely on the chip   *)
(* for; any payloads, any frames of others, any FIFO and any number of     *)
(* failing transfers.                                                      *)
(***************************************************************************)
EXTENDS SX127xSPI, SequenceTheorems, TLAPS

\* The places of a call of each kind.
SendPlaces == {"prepareTx", "setTxPtr", "writeFifo", "writeLength", "clearIrq", "startTx",
               "waitTxDone", "ackTx", "endTx", "ok", "failed"}
RecvPlaces == {"enterRx", "waitRxDone", "dropFrame", "readLength", "readAddr", "setRxPtr", "readFifo",
               "ackRx", "endRx", "stopRx", "ok", "failed"}
OtherPlaces == {"firstSetting", "lastSetting", "sleep", "lbtRx", "lbtRssi", "lbtStandby", "ok", "failed"}

\* What a goroutine that stands at l knows of its own call, whatever the
\* others do.
Place(c, l) ==
    /\ kind[c] = "none" => l = "idle" /\ payload[c] = <<>>
    /\ kind[c] = "Send" => l \in SendPlaces /\ frame[c] \in TxFrames
    /\ kind[c] = "Recv" => l \in RecvPlaces
    /\ kind[c] \in {"Set", "Close", "LBT"} => l \in OtherPlaces
    /\ l \in {"prepareTx", "setTxPtr", "enterRx", "waitRxDone", "readLength", "readAddr", "setRxPtr"} =>
           payload[c] = <<>>
    /\ l = "writeFifo" => Len(payload[c]) < Length[frame[c]]
    /\ l \in {"writeLength", "clearIrq", "startTx"} => Len(payload[c]) = Length[frame[c]]

CallInv(c) == Place(c, at[c])
CallsInv == \A c \in Callers : CallInv(c)

-----------------------------------------------------------------------------
(* Register accesses *)

\* AccessRegister takes its step from a table: the steps one by one.
LEMMA AccessCases ==
    ASSUME NEW c \in Callers, AccessRegister(c)
    PROVE  \/ at[c] = "prepareTx" /\ Transfer(c, OpMode("standby"), "setTxPtr")
           \/ at[c] = "setTxPtr" /\ Transfer(c, [chip EXCEPT !.ptr = 0], "writeFifo")
           \/ at[c] = "writeLength" /\ Transfer(c, [chip EXCEPT !.txLen = Len(payload[c])], "clearIrq")
           \/ at[c] = "clearIrq" /\ Transfer(c, IrqFlagsCleared, "startTx")
           \/ at[c] = "startTx" /\ Transfer(c, OpMode("tx"), "waitTxDone")
           \/ at[c] = "enterRx" /\ Transfer(c, OpMode("rx"), "waitRxDone")
           \/ at[c] = "setRxPtr" /\ Transfer(c, [chip EXCEPT !.ptr = addr[c]], "readFifo")
           \/ at[c] = "firstSetting" /\ Transfer(c, Setting, "lastSetting")
           \/ at[c] = "lastSetting" /\ Transfer(c, Setting, "ok")
           \/ at[c] = "lbtRx" /\ Transfer(c, OpMode("rx"), "lbtRssi")
           \/ at[c] = "lbtRssi" /\ Transfer(c, chip, "lbtStandby")
           \/ at[c] = "lbtStandby" /\ Transfer(c, OpMode("standby"), "ok")
<1>1. PICK accesses \in {PrepareTxMode, StartTransmission(c), EnterRxMode(c), Settings, IsChannelClear} :
          /\ at[c] \in DOMAIN accesses
          /\ Transfer(c, accesses[at[c]].after, accesses[at[c]].to)
  BY DEF AccessRegister
<1>2. CASE accesses = PrepareTxMode
  <2>1. at[c] \in {"prepareTx", "setTxPtr"}
    BY <1>1, <1>2 DEF PrepareTxMode
  <2> QED
    BY <1>1, <1>2, <2>1 DEF PrepareTxMode
<1>3. CASE accesses = StartTransmission(c)
  <2>1. at[c] \in {"writeLength", "clearIrq", "startTx"}
    BY <1>1, <1>3 DEF StartTransmission
  <2> QED
    BY <1>1, <1>3, <2>1 DEF StartTransmission
<1>4. CASE accesses = EnterRxMode(c)
  <2>1. at[c] \in {"enterRx", "setRxPtr"}
    BY <1>1, <1>4 DEF EnterRxMode
  <2> QED
    BY <1>1, <1>4, <2>1 DEF EnterRxMode
<1>5. CASE accesses = Settings
  <2>1. at[c] \in {"firstSetting", "lastSetting"}
    BY <1>1, <1>5 DEF Settings
  <2> QED
    BY <1>1, <1>5, <2>1 DEF Settings
<1>6. CASE accesses = IsChannelClear
  <2>1. at[c] \in {"lbtRx", "lbtRssi", "lbtStandby"}
    BY <1>1, <1>6 DEF IsChannelClear
  <2> QED
    BY <1>1, <1>6, <2>1 DEF IsChannelClear
<1> QED
  BY <1>1, <1>2, <1>3, <1>4, <1>5, <1>6

\* The writes whose error is ignored, one by one.
LEMMA ClosingCases ==
    ASSUME NEW c \in Callers, CloseOff(c)
    PROVE  \/ at[c] = "ackTx" /\ Closing[at[c]].after = IrqFlagsCleared /\ Closing[at[c]].to = "endTx"
           \/ at[c] = "endTx" /\ Closing[at[c]].after = OpMode("standby") /\ Closing[at[c]].to = "ok"
           \/ at[c] = "dropFrame" /\ Closing[at[c]].after = IrqFlagsCleared /\ Closing[at[c]].to = "failed"
           \/ at[c] = "ackRx" /\ Closing[at[c]].after = IrqFlagsCleared /\ Closing[at[c]].to = "endRx"
           \/ at[c] = "endRx" /\ Closing[at[c]].after = OpMode("standby") /\ Closing[at[c]].to = "ok"
           \/ at[c] = "stopRx" /\ Closing[at[c]].after = OpMode("standby") /\ Closing[at[c]].to = "failed"
           \/ at[c] = "sleep" /\ Closing[at[c]].after = OpMode("sleep") /\ Closing[at[c]].to = "ok"
<1>1. at[c] \in {"ackTx", "endTx", "dropFrame", "ackRx", "endRx", "stopRx", "sleep"}
  BY DEF CloseOff, Closing
<1> QED
  BY <1>1 DEF Closing

-----------------------------------------------------------------------------
(* Types *)

ChipStates ==
    [mode : Modes, irq : SUBSET Irqs, fifo : [0..FifoSize - 1 -> Cells],
     ptr : 0..FifoSize - 1, txLen : 0..FifoSize, rxLen : 0..FifoSize, rxAddr : 0..FifoSize - 1,
     retuned : BOOLEAN]

\* The registers keep their types in every access.
LEMMA ChipTypes ==
    ASSUME TypeOK
    PROVE  /\ chip \in ChipStates
           /\ \A m \in Modes : OpMode(m) \in ChipStates
           /\ IrqFlagsCleared \in ChipStates
           /\ Setting \in ChipStates
           /\ \A p \in 0..FifoSize - 1 : [chip EXCEPT !.ptr = p] \in ChipStates
           /\ \A n \in 0..FifoSize : [chip EXCEPT !.txLen = n] \in ChipStates
           /\ FifoMoved \in 0..FifoSize - 1
           /\ \A byte \in Cells : [chip EXCEPT !.fifo[chip.ptr] = byte, !.ptr = FifoMoved] \in ChipStates
<1>1. chip \in ChipStates
  BY DEF TypeOK, ChipStates
<1>2. \A m \in Modes : OpMode(m) \in ChipStates
  BY <1>1 DEF OpMode, ChipStates
<1>3. IrqFlagsCleared \in ChipStates
  BY <1>1 DEF IrqFlagsCleared, ChipStates
<1>4. Setting \in ChipStates
  BY <1>1 DEF Setting, ChipStates
<1>5. \A p \in 0..FifoSize - 1 : [chip EXCEPT !.ptr = p] \in ChipStates
  BY <1>1 DEF ChipStates
<1>6. \A n \in 0..FifoSize : [chip EXCEPT !.txLen = n] \in ChipStates
  BY <1>1 DEF ChipStates
<1>7. FifoMoved \in 0..FifoSize - 1
  <2>1. chip.ptr + 1 \in Nat /\ FifoSize \in Nat \ {0}
    BY <1>1, RadioAssumption DEF ChipStates
  <2> QED
    BY <2>1 DEF FifoMoved
<1>8. ASSUME NEW byte \in Cells
      PROVE  [chip EXCEPT !.fifo[chip.ptr] = byte, !.ptr = FifoMoved] \in ChipStates
  BY <1>1, <1>7 DEF ChipStates
<1> QED
  BY <1>1, <1>2, <1>3, <1>4, <1>5, <1>6, <1>7, <1>8

\* What an access does to the variables it changes.
LEMMA TransferFacts ==
    ASSUME TypeOK, NEW c \in Callers, NEW after \in ChipStates, NEW to \in Locations, Transfer(c, after, to)
    PROVE  /\ chip' \in ChipStates
           /\ at' \in [Callers -> Locations]
           /\ at'[c] \in {to, "failed"}
           /\ \A d \in Callers \ {c} : at'[d] = at[d]
           /\ faults' \in Nat
<1>1. "failed" \in Locations
  BY DEF Locations
<1>2. chip \in ChipStates
  BY ChipTypes
<1>3. at \in [Callers -> Locations] /\ faults \in Nat
  BY DEF TypeOK
<1>4. chip' \in ChipStates
  BY <1>2 DEF Transfer
<1>5. faults' \in Nat
  BY <1>3 DEF Transfer
<1> QED
  BY <1>1, <1>3, <1>4, <1>5 DEF Transfer, Goto

\* The bytes of a frame are one for each place.
LEMMA BytesFacts ==
    ASSUME NEW f \in Frames
    PROVE  /\ Length[f] \in 1..FifoSize /\ Length[f] \in Nat \ {0} /\ FifoSize \in Nat
           /\ \A n \in 1..Length[f] : Bytes(f)[n] = <<f, n>> /\ Bytes(f)[n] \in Cells
<1>1. Length[f] \in 1..FifoSize /\ FifoSize \in Nat
  BY RadioAssumption
<1>2. Length[f] \in Nat \ {0} /\ 1..Length[f] \subseteq 1..FifoSize
  BY <1>1
<1> QED
  BY <1>1, <1>2 DEF Bytes, Cells

\* No two frames look the same.
LEMMA BytesDiffer ==
    ASSUME NEW f \in Frames, NEW g \in Frames, Bytes(f) = Bytes(g)
    PROVE  f = g
<1>1. Length[f] \in Nat \ {0} /\ Length[g] \in Nat \ {0}
  BY BytesFacts
<1>2. Bytes(g)[1] = <<g, 1>> /\ Bytes(f)[1] = <<f, 1>>
  BY <1>1 DEF Bytes
<1> QED
  BY <1>2

\* From each place the call may go where its next access leads.
LEMMA Onward ==
    ASSUME TypeOK, NEW c \in Callers, CallInv(c)
    PROVE  /\ at[c] # "idle" => Place(c, "failed")
           /\ at[c] = "prepareTx" => Place(c, "setTxPtr")
           /\ at[c] = "setTxPtr" => Place(c, "writeFifo")
           /\ at[c] = "writeLength" => Place(c, "clearIrq")
           /\ at[c] = "clearIrq" => Place(c, "startTx")
           /\ at[c] = "startTx" => Place(c, "waitTxDone")
           /\ at[c] = "waitTxDone" => Place(c, "ackTx")
           /\ at[c] = "ackTx" => Place(c, "endTx")
           /\ at[c] = "endTx" => Place(c, "ok")
           /\ at[c] = "enterRx" => Place(c, "waitRxDone")
           /\ at[c] = "waitRxDone" => Place(c, "dropFrame") /\ Place(c, "readLength") /\ Place(c, "stopRx")
           /\ at[c] = "readLength" => Place(c, "readAddr")
           /\ at[c] = "readAddr" => Place(c, "setRxPtr")
           /\ at[c] = "setRxPtr" => Place(c, "readFifo")
           /\ at[c] = "readFifo" => Place(c, "ackRx")
           /\ at[c] = "ackRx" => Place(c, "endRx")
           /\ at[c] = "endRx" => Place(c, "ok")
           /\ at[c] = "firstSetting" => Place(c, "lastSetting")
           /\ at[c] = "lastSetting" => Place(c, "ok")
           /\ at[c] = "sleep" => Place(c, "ok")
           /\ at[c] = "lbtRx" => Place(c, "lbtRssi")
           /\ at[c] = "lbtRssi" => Place(c, "lbtStandby")
           /\ at[c] = "lbtStandby" => Place(c, "ok")
<1>1. kind[c] \in Kinds /\ Place(c, at[c])
  BY DEF TypeOK, CallInv
<1>2. CASE kind[c] = "none"
  BY <1>1, <1>2 DEF Place
<1>3. CASE kind[c] = "Send"
  <2>1. at[c] \in SendPlaces /\ frame[c] \in TxFrames
    BY <1>1, <1>3 DEF Place
  <2>2. Length[frame[c]] \in Nat \ {0}
    BY <2>1, BytesFacts DEF Frames
  <2>3. Len(<<>>) = 0
    OBVIOUS
  <2> QED
    BY <1>1, <1>3, <2>1, <2>2, <2>3 DEF Place, SendPlaces
<1>4. CASE kind[c] = "Recv"
  BY <1>1, <1>4 DEF Place, RecvPlaces
<1>5. CASE kind[c] \in {"Set", "Close", "LBT"}
  BY <1>1, <1>5 DEF Place, OtherPlaces
<1> QED
  BY <1>1, <1>2, <1>3, <1>4, <1>5 DEF Kinds
\* The other goroutines stay where they are.
OthersStay(c) ==
    \A d \in Callers \ {c} :
        at'[d] = at[d] /\ kind'[d] = kind[d] /\ frame'[d] = frame[d] /\ payload'[d] = payload[d]

LEMMA StayingIsKept ==
    ASSUME CallsInv, NEW c \in Callers, OthersStay(c), CallInv(c)'
    PROVE  CallsInv'
BY DEF CallsInv, CallInv, Place, OthersStay

\* Accesses that change nothing but the chip lead from a place of the call to
\* another, or to its end.
LEMMA AccessType ==
    ASSUME TypeOK, CallsInv, NEW c \in Callers,
           NEW after \in ChipStates, NEW to \in Locations, Transfer(c, after, to),
           at[c] # "idle", Place(c, to),
           UNCHANGED <<mu, localVars, sendVars, recvVars>>
    PROVE  TypeOK' /\ CallsInv'
<1>1. /\ chip' \in ChipStates /\ at' \in [Callers -> Locations] /\ faults' \in Nat
      /\ at'[c] \in {to, "failed"} /\ \A d \in Callers \ {c} : at'[d] = at[d]
  BY TransferFacts
<1>2. Place(c, at'[c])
  BY <1>1, Onward DEF CallsInv
<1>3. CallInv(c)'
  BY <1>2 DEF CallInv, Place, localVars
<1>4. OthersStay(c)
  BY <1>1 DEF OthersStay, localVars
<1>5. CallsInv'
  BY <1>3, <1>4, StayingIsKept
<1>6. TypeOK'
  BY <1>1 DEF TypeOK, ChipStates, localVars, sendVars, recvVars
<1> QED
  BY <1>5, <1>6

\* writePayloadToFIFO and readPayloadFromFIFO add one byte to the payload.
LEMMA ByteType ==
    ASSUME TypeOK, CallsInv, NEW c \in Callers,
           NEW after \in ChipStates, NEW to \in Locations, Transfer(c, after, to),
           NEW byte \in Cells, payload' = [payload EXCEPT ![c] = Append(@, byte)],
           at[c] # "idle", CallInv(c)',
           UNCHANGED <<mu, kind, frame, length, addr, cancelled, sendVars, recvVars>>
    PROVE  TypeOK' /\ CallsInv'
<1>1. /\ chip' \in ChipStates /\ at' \in [Callers -> Locations] /\ faults' \in Nat
      /\ at'[c] \in {to, "failed"} /\ \A d \in Callers \ {c} : at'[d] = at[d]
  BY TransferFacts
<1>2. Append(payload[c], byte) \in Seq(Cells)
  BY DEF TypeOK
<1>3. payload' \in [Callers -> Seq(Cells)]
  BY <1>2 DEF TypeOK
<1>4. OthersStay(c)
  BY <1>1 DEF OthersStay, TypeOK
<1>5. CallsInv'
  BY <1>4, StayingIsKept
<1>6. TypeOK'
  BY <1>1, <1>3 DEF TypeOK, ChipStates, sendVars, recvVars
<1> QED
  BY <1>5, <1>6

LEMMA LeaveType ==
    ASSUME TypeOK, CallsInv, NEW c \in Callers, Leave(c)
    PROVE  /\ chip' \in ChipStates
           /\ mu' \in Callers \cup {NoCaller}
           /\ kind' \in [Callers -> Kinds] /\ at' \in [Callers -> Locations]
           /\ frame' \in [Callers -> TxFrames \cup {NoFrame}]
           /\ length' \in [Callers -> 0..FifoSize] /\ addr' \in [Callers -> 0..FifoSize - 1]
           /\ payload' \in [Callers -> Seq(Cells)]
           /\ cancelled' \in [Callers -> BOOLEAN]
           /\ faults' \in Nat
           /\ CallsInv'
<1>1. chip' \in ChipStates
  BY ChipTypes DEF Leave
<1>2. 0 \in 0..FifoSize /\ 0 \in 0..FifoSize - 1
  BY RadioAssumption
<1>3. <<>> \in Seq(Cells) /\ "idle" \in Locations /\ "none" \in Kinds
  BY DEF Locations, Kinds
<1>4. OthersStay(c)
  BY DEF OthersStay, Leave, Goto, TypeOK
<1>5. at'[c] = "idle" /\ kind'[c] = "none" /\ payload'[c] = <<>>
  BY DEF Leave, Goto, TypeOK
<1>6. CallInv(c)'
  BY <1>5 DEF CallInv, Place
<1>7. CallsInv'
  BY <1>4, <1>6, StayingIsKept
<1>8. /\ length' \in [Callers -> 0..FifoSize] /\ addr' \in [Callers -> 0..FifoSize - 1]
      /\ payload' \in [Callers -> Seq(Cells)]
  BY <1>2, <1>3 DEF Leave, TypeOK
<1>9. /\ kind' \in [Callers -> Kinds] /\ at' \in [Callers -> Locations]
      /\ frame' \in [Callers -> TxFrames \cup {NoFrame}]
      /\ mu' \in Callers \cup {NoCaller}
      /\ cancelled' \in [Callers -> BOOLEAN]
      /\ faults' \in Nat
  BY <1>3 DEF Leave, Goto, TypeOK
<1> QED
  BY <1>1, <1>7, <1>8, <1>9

LEMMA BeginType ==
    ASSUME TypeOK, CallsInv, NEW c \in Callers, NEW k \in Kinds \ {"none"}, NEW l \in Locations, Begin(c, k, l),
           NEW f \in TxFrames \cup {NoFrame}, frame' = [frame EXCEPT ![c] = f],
           UNCHANGED payload,
           k = "Send" => l = "prepareTx" /\ f \in TxFrames,
           k = "Recv" => l = "enterRx",
           k \in {"Set", "Close", "LBT"} => l \in {"firstSetting", "lastSetting", "sleep", "lbtRx"}
    PROVE  /\ kind' \in [Callers -> Kinds] /\ at' \in [Callers -> Locations]
           /\ frame' \in [Callers -> TxFrames \cup {NoFrame}]
           /\ CallsInv'
<1>1. kind'[c] = k /\ at'[c] = l /\ frame'[c] = f /\ payload'[c] = <<>>
  BY DEF Begin, Goto, TypeOK, CallsInv, CallInv, Place
<1>2. OthersStay(c)
  BY DEF OthersStay, Begin, Goto, TypeOK
<1>3. CallInv(c)'
  BY <1>1 DEF CallInv, Place, SendPlaces, RecvPlaces, OtherPlaces, Kinds
<1>4. CallsInv'
  BY <1>2, <1>3, StayingIsKept
<1> QED
  BY <1>4 DEF Begin, Goto, TypeOK

LEMMA AccessRegisterType ==
    ASSUME TypeOK, CallsInv, NEW c \in Callers, AccessRegister(c)
    PROVE  TypeOK' /\ CallsInv'
<1>1. CallInv(c) /\ Place(c, at[c]) /\ UNCHANGED <<mu, localVars, sendVars, recvVars>>
  BY DEF CallsInv, CallInv, AccessRegister
<1>2. PICK to \in Locations, after \in ChipStates :
          Transfer(c, after, to) /\ Place(c, to) /\ at[c] # "idle"
  <2>1. at[c] = "writeLength" => Len(payload[c]) \in 0..FifoSize
    <3>1. SUFFICES ASSUME at[c] = "writeLength" PROVE Len(payload[c]) \in 0..FifoSize
      OBVIOUS
    <3>2. kind[c] \in Kinds
      BY DEF TypeOK
    <3>3. frame[c] \in TxFrames /\ Len(payload[c]) = Length[frame[c]]
      BY <1>1, <3>1, <3>2 DEF Place, Kinds, RecvPlaces, OtherPlaces
    <3> QED
      BY <3>3, BytesFacts DEF Frames
  <2>2. 0 \in 0..FifoSize - 1 /\ addr[c] \in 0..FifoSize - 1
    BY RadioAssumption DEF TypeOK
  <2> DEFINE Goal == \E to \in Locations, after \in ChipStates :
                         Transfer(c, after, to) /\ Place(c, to) /\ at[c] # "idle"
  <2>3. CASE at[c] = "prepareTx" /\ Transfer(c, OpMode("standby"), "setTxPtr")
    <3>1. Place(c, "setTxPtr") /\ "setTxPtr" \in Locations /\ OpMode("standby") \in ChipStates
      BY <1>1, <2>1, <2>2, <2>3, Onward, ChipTypes DEF Locations, Modes
    <3> QED
      BY <2>3, <3>1
  <2>4. CASE at[c] = "setTxPtr" /\ Transfer(c, [chip EXCEPT !.ptr = 0], "writeFifo")
    <3>1. Place(c, "writeFifo") /\ "writeFifo" \in Locations /\ [chip EXCEPT !.ptr = 0] \in ChipStates
      BY <1>1, <2>1, <2>2, <2>4, Onward, ChipTypes DEF Locations, Modes
    <3> QED
      BY <2>4, <3>1
  <2>5. CASE at[c] = "writeLength" /\ Transfer(c, [chip EXCEPT !.txLen = Len(payload[c])], "clearIrq")
    <3>1. Place(c, "clearIrq") /\ "clearIrq" \in Locations /\ [chip EXCEPT !.txLen = Len(payload[c])] \in ChipStates
      BY <1>1, <2>1, <2>2, <2>5, Onward, ChipTypes DEF Locations, Modes
    <3> QED
      BY <2>5, <3>1
  <2>6. CASE at[c] = "clearIrq" /\ Transfer(c, IrqFlagsCleared, "startTx")
    <3>1. Place(c, "startTx") /\ "startTx" \in Locations /\ IrqFlagsCleared \in ChipStates
      BY <1>1, <2>1, <2>2, <2>6, Onward, ChipTypes DEF Locations, Modes
    <3> QED
      BY <2>6, <3>1
  <2>7. CASE at[c] = "startTx" /\ Transfer(c, OpMode("tx"), "waitTxDone")
    <3>1. Place(c, "waitTxDone") /\ "waitTxDone" \in Locations /\ OpMode("tx") \in ChipStates
      BY <1>1, <2>1, <2>2, <2>7, Onward, ChipTypes DEF Locations, Modes
    <3> QED
      BY <2>7, <3>1
  <2>8. CASE at[c] = "enterRx" /\ Transfer(c, OpMode("rx"), "waitRxDone")
    <3>1. Place(c, "waitRxDone") /\ "waitRxDone" \in Locations /\ OpMode("rx") \in ChipStates
      BY <1>1, <2>1, <2>2, <2>8, Onward, ChipTypes DEF Locations, Modes
    <3> QED
      BY <2>8, <3>1
  <2>9. CASE at[c] = "setRxPtr" /\ Transfer(c, [chip EXCEPT !.ptr = addr[c]], "readFifo")
    <3>1. Place(c, "readFifo") /\ "readFifo" \in Locations /\ [chip EXCEPT !.ptr = addr[c]] \in ChipStates
      BY <1>1, <2>1, <2>2, <2>9, Onward, ChipTypes DEF Locations, Modes
    <3> QED
      BY <2>9, <3>1
  <2>10. CASE at[c] = "firstSetting" /\ Transfer(c, Setting, "lastSetting")
    <3>1. Place(c, "lastSetting") /\ "lastSetting" \in Locations /\ Setting \in ChipStates
      BY <1>1, <2>1, <2>2, <2>10, Onward, ChipTypes DEF Locations, Modes
    <3> QED
      BY <2>10, <3>1
  <2>11. CASE at[c] = "lastSetting" /\ Transfer(c, Setting, "ok")
    <3>1. Place(c, "ok") /\ "ok" \in Locations /\ Setting \in ChipStates
      BY <1>1, <2>1, <2>2, <2>11, Onward, ChipTypes DEF Locations, Modes
    <3> QED
      BY <2>11, <3>1
  <2>12. CASE at[c] = "lbtRx" /\ Transfer(c, OpMode("rx"), "lbtRssi")
    <3>1. Place(c, "lbtRssi") /\ "lbtRssi" \in Locations /\ OpMode("rx") \in ChipStates
      BY <1>1, <2>1, <2>2, <2>12, Onward, ChipTypes DEF Locations, Modes
    <3> QED
      BY <2>12, <3>1
  <2>13. CASE at[c] = "lbtRssi" /\ Transfer(c, chip, "lbtStandby")
    <3>1. Place(c, "lbtStandby") /\ "lbtStandby" \in Locations /\ chip \in ChipStates
      BY <1>1, <2>1, <2>2, <2>13, Onward, ChipTypes DEF Locations, Modes
    <3> QED
      BY <2>13, <3>1
  <2>14. CASE at[c] = "lbtStandby" /\ Transfer(c, OpMode("standby"), "ok")
    <3>1. Place(c, "ok") /\ "ok" \in Locations /\ OpMode("standby") \in ChipStates
      BY <1>1, <2>1, <2>2, <2>14, Onward, ChipTypes DEF Locations, Modes
    <3> QED
      BY <2>14, <3>1
  <2> QED
    BY AccessCases, <2>3, <2>4, <2>5, <2>6, <2>7, <2>8, <2>9, <2>10, <2>11, <2>12, <2>13, <2>14
<1> QED
  BY <1>1, <1>2, AccessType

LEMMA CloseOffType ==
    ASSUME TypeOK, CallsInv, NEW c \in Callers, CloseOff(c)
    PROVE  TypeOK' /\ CallsInv'
<1> DEFINE to == Closing[at[c]].to
<1>1. at[c] # "idle" /\ Place(c, to) /\ to \in Locations /\ Closing[at[c]].after \in ChipStates
  BY ClosingCases, ChipTypes, Onward DEF CallsInv, Modes, Locations
<1>2. chip \in ChipStates /\ at \in [Callers -> Locations] /\ faults \in Nat
  BY ChipTypes DEF TypeOK
<1> HIDE DEF to
<1>3. chip' \in ChipStates /\ at' = [at EXCEPT ![c] = to] /\ faults' \in Nat
  BY <1>1, <1>2 DEF CloseOff, Goto, to
<1>4. UNCHANGED <<mu, localVars, sendVars, recvVars>>
  BY DEF CloseOff
<1>5. CallInv(c)'
  BY <1>1, <1>2, <1>3, <1>4 DEF CallInv, Place, localVars
<1>6. OthersStay(c)
  BY <1>2, <1>3, <1>4 DEF OthersStay, localVars
<1>7. CallsInv'
  BY <1>5, <1>6, StayingIsKept
<1>8. TypeOK'
  BY <1>1, <1>2, <1>3, <1>4 DEF TypeOK, ChipStates, localVars, sendVars, recvVars
<1> QED
  BY <1>7, <1>8

LEMMA WriteFifoType ==
    ASSUME TypeOK, CallsInv, NEW c \in Callers, WriteFifo(c)
    PROVE  TypeOK' /\ CallsInv'
<1> DEFINE n == Len(payload[c]) + 1
           byte == Bytes(frame[c])[n]
           to == IF n = Length[frame[c]] THEN "writeLength" ELSE "writeFifo"
           after == [chip EXCEPT !.fifo[chip.ptr] = byte, !.ptr = FifoMoved]
<1>1. /\ at[c] = "writeFifo" /\ Transfer(c, after, to)
      /\ payload' = [payload EXCEPT ![c] = Append(@, byte)]
      /\ UNCHANGED <<mu, kind, frame, length, addr, cancelled, sendVars, recvVars>>
  BY DEF WriteFifo
<1>2. kind[c] = "Send" /\ frame[c] \in TxFrames /\ Len(payload[c]) < Length[frame[c]]
  BY <1>1 DEF CallsInv, CallInv, Place, TypeOK, Kinds, RecvPlaces, OtherPlaces
<1>3. frame[c] \in Frames /\ payload[c] \in Seq(Cells)
  BY <1>2 DEF Frames, TypeOK
<1>4. Length[frame[c]] \in Nat /\ Len(payload[c]) \in Nat
  BY <1>3, BytesFacts
<1>5. n \in 1..Length[frame[c]]
  BY <1>2, <1>4
<1>6. byte \in Cells
  BY <1>3, <1>5, BytesFacts
<1>7. Len(Append(payload[c], byte)) = n
  BY <1>3, <1>6
<1> HIDE DEF byte
<1>8. after \in ChipStates /\ to \in Locations
  BY <1>6, ChipTypes DEF Locations
<1> HIDE DEF after
<1>9. at'[c] \in {to, "failed"}
  BY <1>1, <1>8, TransferFacts
<1>10. CallInv(c)'
  <2>1. kind'[c] = "Send" /\ frame'[c] = frame[c] /\ Len(payload'[c]) = n
    BY <1>1, <1>2, <1>7 DEF TypeOK
  <2> QED
    BY <2>1, <1>2, <1>4, <1>5, <1>9 DEF CallInv, Place, SendPlaces
<1> QED
  BY <1>1, <1>6, <1>8, <1>10, ByteType

LEMMA ReadFifoType ==
    ASSUME TypeOK, CallsInv, NEW c \in Callers, ReadFifo(c)
    PROVE  TypeOK' /\ CallsInv'
<1> DEFINE byte == chip.fifo[chip.ptr]
           to == IF Len(payload[c]) + 1 = length[c] THEN "ackRx" ELSE "readFifo"
           after == [chip EXCEPT !.ptr = FifoMoved]
<1>1. /\ at[c] = "readFifo" /\ Transfer(c, after, to)
      /\ payload' = [payload EXCEPT ![c] = Append(@, byte)]
      /\ UNCHANGED <<mu, kind, frame, length, addr, cancelled, sendVars, recvVars>>
  BY DEF ReadFifo
<1>2. kind[c] = "Recv"
  BY <1>1 DEF CallsInv, CallInv, Place, TypeOK, Kinds, SendPlaces, OtherPlaces
<1>3. byte \in Cells
  BY ChipTypes DEF ChipStates
<1>4. after \in ChipStates /\ to \in Locations
  BY ChipTypes DEF Locations
<1> HIDE DEF after, byte
<1>5. at'[c] \in {to, "failed"}
  BY <1>1, <1>4, TransferFacts
<1>6. CallInv(c)'
  BY <1>1, <1>2, <1>5 DEF CallInv, Place, RecvPlaces
<1> QED
  BY <1>1, <1>3, <1>4, <1>6, ByteType

\* extractReceivedPayload reads the length and the address of the frame.
LEMMA ReadRegisterType ==
    ASSUME TypeOK, CallsInv, NEW c \in Callers, ReadLength(c) \/ ReadAddr(c)
    PROVE  TypeOK' /\ CallsInv'
<1>1. chip \in ChipStates /\ chip.rxLen \in 0..FifoSize /\ chip.rxAddr \in 0..FifoSize - 1
  BY ChipTypes DEF ChipStates
<1>2. /\ length' \in [Callers -> 0..FifoSize] /\ addr' \in [Callers -> 0..FifoSize - 1]
      /\ UNCHANGED <<mu, kind, frame, payload, cancelled, sendVars, recvVars>>
  BY <1>1 DEF ReadLength, ReadAddr, TypeOK
<1>3. PICK to \in {"readAddr", "setRxPtr"} : Transfer(c, chip, to) /\ Place(c, to) /\ at[c] # "idle"
  BY Onward DEF ReadLength, ReadAddr, CallsInv
<1>4. to \in Locations
  BY DEF Locations
<1>5. /\ chip' \in ChipStates /\ at' \in [Callers -> Locations] /\ faults' \in Nat
      /\ at'[c] \in {to, "failed"} /\ \A d \in Callers \ {c} : at'[d] = at[d]
  BY <1>1, <1>3, <1>4, TransferFacts
<1>6. Place(c, at'[c])
  BY <1>3, <1>5, Onward DEF CallsInv
<1>7. CallInv(c)' /\ OthersStay(c)
  BY <1>2, <1>5, <1>6 DEF CallInv, Place, OthersStay
<1>8. CallsInv'
  BY <1>7, StayingIsKept
<1>9. TypeOK'
  BY <1>2, <1>5 DEF TypeOK, ChipStates, sendVars, recvVars
<1> QED
  BY <1>8, <1>9

\* The waits read the interrupt flags.
LEMMA WaitType ==
    ASSUME TypeOK, CallsInv, NEW c \in Callers, WaitForTxDone(c) \/ WaitForRxDone(c)
    PROVE  TypeOK' /\ CallsInv'
<1>1. CallInv(c) /\ Place(c, at[c]) /\ chip \in ChipStates
  BY ChipTypes DEF CallsInv, CallInv
<1>2. at[c] \in {"waitTxDone", "waitRxDone"} /\ UNCHANGED <<mu, localVars, sendVars, recvVars>>
  BY DEF WaitForTxDone, WaitForRxDone
<1>3. PICK to \in {at[c], "ackTx", "dropFrame", "readLength"} : Transfer(c, chip, to) /\ Place(c, to)
  BY <1>1, Onward DEF WaitForTxDone, WaitForRxDone
<1>4. to \in Locations
  BY <1>2 DEF Locations
<1> QED
  BY <1>1, <1>2, <1>3, <1>4, AccessType

LEMMA PollCancelledType ==
    ASSUME TypeOK, CallsInv, NEW c \in Callers, PollCancelled(c)
    PROVE  TypeOK' /\ CallsInv'
<1>1. CallInv(c) /\ at \in [Callers -> Locations]
  BY DEF CallsInv, TypeOK
<1>2. PICK to \in {"failed", "stopRx"} : at' = [at EXCEPT ![c] = to] /\ Place(c, to)
  BY <1>1, Onward DEF PollCancelled, Goto
<1>3. UNCHANGED <<chip, mu, localVars, sendVars, recvVars, faults>>
  BY DEF PollCancelled
<1>4. CallInv(c)' /\ OthersStay(c)
  BY <1>1, <1>2, <1>3 DEF CallInv, Place, OthersStay, localVars
<1>5. CallsInv'
  BY <1>4, StayingIsKept
<1>6. at' \in [Callers -> Locations]
  BY <1>1, <1>2 DEF Locations
<1>7. TypeOK'
  BY <1>3, <1>6 DEF TypeOK, ChipStates, localVars, sendVars, recvVars
<1> QED
  BY <1>5, <1>7

LEMMA ReturnType ==
    ASSUME TypeOK, CallsInv, NEW c \in Callers, SendReturns(c) \/ RecvReturns(c) \/ CallReturns(c)
    PROVE  TypeOK' /\ CallsInv'
<1>1. Leave(c)
  BY DEF SendReturns, RecvReturns, CallReturns
<1>2. transmitted' = transmitted /\ garbled' = garbled /\ aired' = aired /\ arrived' = arrived
        /\ overrun' = overrun
  BY DEF SendReturns, RecvReturns, CallReturns, sendVars, recvVars
<1>3. result' \in [TxFrames -> {"none", "pending", "ok", "failed"}]
  <2>1. at[c] \in {"ok", "failed"}
    BY <1>1 DEF Leave
  <2> QED
    BY <2>1 DEF SendReturns, RecvReturns, CallReturns, sendVars, TypeOK
<1>4. delivered' \in [RxFrames -> Nat]
  <2>1. delivered \in [RxFrames -> Nat]
    BY DEF TypeOK
  <2>2. CASE delivered' = delivered
    BY <2>1, <2>2
  <2>3. CASE RecvReturns(c) /\ delivered' # delivered
    <3>1. PICK whole \in SUBSET RxFrames :
            delivered' = [f \in RxFrames |-> IF f \in whole THEN delivered[f] + 1 ELSE delivered[f]]
      BY <2>3 DEF RecvReturns
    <3> QED
      BY <2>1, <3>1
  <2> QED
    BY <2>2, <2>3 DEF SendReturns, CallReturns, recvVars
<1>5. {garbled', abandoned', misread', overrun'} \subseteq BOOLEAN
  <2>1. {garbled, abandoned, misread, overrun} \subseteq BOOLEAN
    BY DEF TypeOK
  <2>2. abandoned' \in BOOLEAN /\ misread' \in BOOLEAN
    BY <2>1 DEF SendReturns, RecvReturns, CallReturns, sendVars, recvVars
  <2> QED
    BY <2>1, <2>2, <1>2
<1> QED
  BY <1>1, <1>2, <1>3, <1>4, <1>5, LeaveType DEF TypeOK, ChipStates

LEMMA CallType ==
    ASSUME TypeOK, CallsInv, NEW c \in Callers, Call(c)
    PROVE  TypeOK' /\ CallsInv'
<1>0. frame = [frame EXCEPT ![c] = frame[c]] /\ frame[c] \in TxFrames \cup {NoFrame}
  BY DEF TypeOK
<1>1. ASSUME NEW f \in TxFrames, Send(c, f) PROVE TypeOK' /\ CallsInv'
  <2>1. /\ Begin(c, "Send", "prepareTx") /\ frame' = [frame EXCEPT ![c] = f] /\ UNCHANGED payload
        /\ "Send" \in Kinds \ {"none"} /\ "prepareTx" \in Locations /\ f \in TxFrames \cup {NoFrame}
    BY <1>1 DEF Send, Kinds, Locations
  <2>2. /\ kind' \in [Callers -> Kinds] /\ at' \in [Callers -> Locations]
        /\ frame' \in [Callers -> TxFrames \cup {NoFrame}] /\ CallsInv'
    BY <2>1, BeginType
  <2> QED
    BY <1>1, <2>2 DEF Send, recvVars, TypeOK
<1>2. ASSUME NEW k \in {"Recv", "Set", "Close", "LBT"}, NEW l \in {"enterRx", "firstSetting", "lastSetting", "sleep", "lbtRx"},
             Begin(c, k, l), k = "Recv" <=> l = "enterRx",
             UNCHANGED <<chip, frame, length, addr, payload, cancelled, sendVars, recvVars, faults>>,
             mu' \in Callers \cup {NoCaller}
      PROVE  TypeOK' /\ CallsInv'
  <2>1. k \in Kinds \ {"none"} /\ l \in Locations /\ frame' = [frame EXCEPT ![c] = frame[c]]
    BY <1>0, <1>2 DEF Kinds, Locations
  <2>2. kind' \in [Callers -> Kinds] /\ at' \in [Callers -> Locations] /\ CallsInv'
    BY <1>0, <1>2, <2>1, BeginType
  <2> QED
    BY <1>2, <2>2 DEF sendVars, recvVars, TypeOK
<1>3. mu \in Callers \cup {NoCaller}
  BY DEF TypeOK
<1>4. CASE Recv(c)
  BY <1>2, <1>3, <1>4 DEF Recv
<1>5. CASE SetRadio(c)
  BY <1>2, <1>3, <1>5 DEF SetRadio
<1>6. CASE Close(c)
  BY <1>2, <1>3, <1>6 DEF Close
<1>7. CASE PerformLBT(c)
  BY <1>2, <1>7 DEF PerformLBT
<1>8. CASE Cancel(c)
  <2>1. CallsInv'
    BY <1>8 DEF Cancel, CallsInv, CallInv, Place
  <2> QED
    BY <1>8, <2>1 DEF Cancel, sendVars, recvVars, TypeOK
<1> QED
  BY <1>1, <1>4, <1>5, <1>6, <1>7, <1>8 DEF Call

\* The chip takes no part in the calls.
LEMMA ChipType ==
    ASSUME TypeOK, CallsInv, TxDone \/ \E f \in RxFrames : RxDone(f)
    PROVE  TypeOK' /\ CallsInv'
<1>1. UNCHANGED <<mu, at, localVars>>
  BY DEF TxDone, RxDone
<1>2. CallsInv'
  BY <1>1 DEF CallsInv, CallInv, Place, localVars
<1>3. chip \in ChipStates /\ {garbled, abandoned, misread, overrun} \subseteq BOOLEAN
  BY ChipTypes DEF TypeOK
<1>4. CASE TxDone
  <2>1. chip' \in ChipStates
    BY <1>3, <1>4 DEF TxDone, ChipStates, Modes, Irqs
  <2>2. transmitted' \in [TxFrames -> Nat]
    BY <1>4 DEF TxDone, TypeOK
  <2>3. garbled' \in BOOLEAN /\ aired' \subseteq TxFrames
    BY <1>3, <1>4 DEF TxDone, TypeOK
  <2> QED
    BY <1>1, <1>2, <1>4, <2>1, <2>2, <2>3 DEF TxDone, TypeOK, ChipStates, localVars, recvVars
<1>5. ASSUME NEW f \in RxFrames, RxDone(f) PROVE TypeOK' /\ CallsInv'
  <2>1. f \in Frames
    BY DEF Frames
  <2>2. Length[f] \in Nat \ {0} /\ Length[f] <= FifoSize /\ FifoSize \in Nat
    BY <2>1, BytesFacts
  <2>3. PICK a \in 0..FifoSize - Length[f], sound \in BOOLEAN :
            /\ chip' = [chip EXCEPT
                   !.irq = @ \cup (IF sound THEN {"RxDone"} ELSE {"RxDone", "PayloadCrc"}),
                   !.fifo = [n \in 0..FifoSize - 1 |->
                       IF n \notin a..a + Length[f] - 1 THEN chip.fifo[n]
                       ELSE IF sound THEN Bytes(f)[n - a + 1] ELSE Noise],
                   !.rxLen = Length[f],
                   !.rxAddr = a]
            /\ arrived' = [arrived EXCEPT ![f] = IF sound THEN "good" ELSE "damaged"]
    BY <1>5 DEF RxDone
  <2>4. a \in 0..FifoSize - 1 /\ Length[f] \in 0..FifoSize
    BY <2>2
  <2> DEFINE fifo == [n \in 0..FifoSize - 1 |->
                       IF n \notin a..a + Length[f] - 1 THEN chip.fifo[n]
                       ELSE IF sound THEN Bytes(f)[n - a + 1] ELSE Noise]
  <2>5. fifo \in [0..FifoSize - 1 -> Cells]
    <3>1. ASSUME NEW n \in 0..FifoSize - 1, n \in a..a + Length[f] - 1
          PROVE  Bytes(f)[n - a + 1] \in Cells
      <4>1. n - a + 1 \in 1..Length[f]
        BY <2>2, <2>4, <3>1
      <4> QED
        BY <2>1, <4>1, BytesFacts
    <3>2. Noise \in Cells /\ \A n \in 0..FifoSize - 1 : chip.fifo[n] \in Cells
      BY <1>3 DEF ChipStates, Cells
    <3> QED
      BY <3>1, <3>2
  <2> HIDE DEF fifo
  <2>6. chip' = [chip EXCEPT !.irq = @ \cup (IF sound THEN {"RxDone"} ELSE {"RxDone", "PayloadCrc"}),
                             !.fifo = fifo, !.rxLen = Length[f], !.rxAddr = a]
    BY <2>3 DEF fifo
  <2>7. chip' \in ChipStates
    BY <1>3, <2>4, <2>5, <2>6 DEF ChipStates, Irqs
  <2>8. arrived' \in [RxFrames -> {"none", "good", "damaged"}]
    BY <2>3 DEF TypeOK
  <2>9. overrun' \in BOOLEAN
    BY <1>3, <1>5 DEF RxDone, ReadingOut
  <2>10. UNCHANGED <<sendVars, delivered, misread, faults>>
    BY <1>5 DEF RxDone
  <2> QED
    BY <1>1, <1>2, <2>7, <2>8, <2>9, <2>10 DEF TypeOK, ChipStates, localVars, sendVars
<1> QED
  BY <1>4, <1>5

LEMMA TypeStep == TypeOK /\ CallsInv /\ [Next]_vars => TypeOK' /\ CallsInv'
<1> SUFFICES ASSUME TypeOK, CallsInv, [Next]_vars
             PROVE  TypeOK' /\ CallsInv'
  OBVIOUS
<1>1. ASSUME NEW c \in Callers, Driver(c) PROVE TypeOK' /\ CallsInv'
  BY <1>1, AccessRegisterType, CloseOffType, WriteFifoType, ReadFifoType, ReadRegisterType, WaitType,
     PollCancelledType, ReturnType DEF Driver
<1>2. ASSUME NEW c \in Callers, Call(c) PROVE TypeOK' /\ CallsInv'
  BY <1>2, CallType
<1>3. CASE TxDone \/ \E f \in RxFrames : RxDone(f)
  BY <1>3, ChipType
<1>4. CASE UNCHANGED vars
  BY <1>4 DEF vars, localVars, sendVars, recvVars, TypeOK, CallsInv, CallInv, Place
<1> QED
  BY <1>1, <1>2, <1>3, <1>4 DEF Next

\* The driver's variables and the registers keep their types, and a call stands
\* where calls of its kind can stand, for any number of goroutines at once: no
\* byte is written beyond the payload, and the payload is whole when its length
\* is written and the transmission started.
THEOREM TypeCorrect == Spec => [](TypeOK /\ CallsInv)
<1>1. Init => TypeOK /\ CallsInv
  <2> SUFFICES ASSUME Init PROVE TypeOK /\ CallsInv
    OBVIOUS
  <2>1. FifoSize \in Nat \ {0} /\ 0 \in 0..FifoSize - 1 /\ 0 \in 0..FifoSize
    BY RadioAssumption
  <2>2. Noise \in Cells
    BY DEF Cells
  <2>4. chip \in ChipStates
    BY <2>1, <2>2 DEF Init, ChipStates, Modes, Irqs
  <2>5. /\ length \in [Callers -> 0..FifoSize] /\ addr \in [Callers -> 0..FifoSize - 1]
        /\ payload \in [Callers -> Seq(Cells)] /\ faults \in Nat
        /\ transmitted \in [TxFrames -> Nat] /\ delivered \in [RxFrames -> Nat]
    BY <2>1 DEF Init
  <2>6. /\ mu \in Callers \cup {NoCaller} /\ kind \in [Callers -> Kinds] /\ at \in [Callers -> Locations]
        /\ frame \in [Callers -> TxFrames \cup {NoFrame}] /\ cancelled \in [Callers -> BOOLEAN]
        /\ result \in [TxFrames -> {"none", "pending", "ok", "failed"}]
        /\ arrived \in [RxFrames -> {"none", "good", "damaged"}]
        /\ {garbled, abandoned, misread, overrun} \subseteq BOOLEAN /\ aired \subseteq TxFrames
    BY DEF Init, Kinds, Locations
  <2>7. TypeOK
    BY <2>4, <2>5, <2>6 DEF TypeOK, ChipStates
  <2>3. CallsInv
    BY DEF Init, CallsInv, CallInv, Place
  <2> QED
    BY <2>7, <2>3
<1> QED
  BY <1>1, TypeStep, PTL DEF Spec

-----------------------------------------------------------------------------
(* What a Send relies on the chip for, with one goroutine                  *)
(*                                                                         *)
(* With two the properties do not hold: each changes the mode and takes    *)
(* the flags the other waits for, as nothing in the driver prevents it.    *)

OneCaller == \A c, d \in Callers : c = d

\* The FIFO holds the payload that the transmitter is to take from it.
Loaded(f) ==
    /\ chip.txLen = Length[f]
    /\ \A n \in 1..Length[f] : chip.fifo[n - 1] = <<f, n>>

Preparing == {"prepareTx", "setTxPtr", "writeFifo", "writeLength", "clearIrq", "startTx"}

\* From the moment a Send has put the chip into standby nothing but its own
\* accesses changes the FIFO and the registers, and no flag is left over when
\* it begins to wait for one.
SendInv(c) ==
    kind[c] = "Send" =>
        /\ result[frame[c]] = "pending"
        /\ at[c] \in Preparing => transmitted[frame[c]] = 0
        /\ at[c] \in Preparing \ {"prepareTx"} => chip.mode = "standby"
        /\ at[c] = "writeFifo" => chip.ptr = Len(payload[c])
        /\ at[c] \in {"writeFifo", "writeLength", "clearIrq", "startTx"} =>
               \A n \in 1..Len(payload[c]) : chip.fifo[n - 1] = <<frame[c], n>>
        /\ at[c] \in {"clearIrq", "startTx"} => chip.txLen = Length[frame[c]]
        /\ at[c] = "startTx" => "TxDone" \notin chip.irq
        /\ at[c] = "waitTxDone" => \/ chip.mode = "tx" /\ ~chip.retuned /\ "TxDone" \notin chip.irq
                                   \/ chip.mode # "tx" /\ transmitted[frame[c]] = 1
        /\ at[c] \in {"ackTx", "endTx", "ok"} => chip.mode # "tx" /\ transmitted[frame[c]] = 1

\* What is on the air is a payload that has not gone out before: that of the
\* Send under way, or of one that has failed and left it there.
OnTheWay(f) == \E c \in Callers : kind[c] = "Send" /\ frame[c] = f /\ at[c] \in {"waitTxDone", "failed"}
LeftBehind(f) == result[f] = "failed" /\ abandoned /\ \A c \in Callers : at[c] # "waitTxDone"
TxInv ==
    chip.mode = "tx" =>
        /\ chip.retuned => abandoned
        /\ \E f \in TxFrames : Loaded(f) /\ transmitted[f] = 0 /\ (OnTheWay(f) \/ LeftBehind(f))

SentInv == TransmittedOnce /\ TxInv /\ \A c \in Callers : SendInv(c)

\* What the transmitter takes from a FIFO that holds a payload is that payload
\* and no other.
LEMMA LoadedFacts ==
    ASSUME NEW f \in TxFrames, Loaded(f)
    PROVE  \A g \in TxFrames : Held = Bytes(g) <=> g = f
<1>1. f \in Frames
  BY DEF Frames
<1>2. Held = Bytes(f)
  BY DEF Held, Loaded, Bytes
<1> QED
  BY <1>1, <1>2, BytesDiffer DEF Frames

\* A step of the driver that does not start a transmission leaves the air as it
\* is, or ends what is on it.
LEMMA AirKept ==
    ASSUME OneCaller, TxInv, NEW c \in Callers,
           UNCHANGED <<kind, frame, transmitted, result, abandoned>>,
           chip'.mode = "tx" =>
               /\ chip.mode = "tx" /\ chip'.fifo = chip.fifo /\ chip'.txLen = chip.txLen
               /\ chip'.retuned => chip.retuned \/ abandoned
               /\ at[c] \in {"waitTxDone", "failed"} => at'[c] \in {"waitTxDone", "failed"}
               /\ at'[c] = "waitTxDone" => at[c] = "waitTxDone"
    PROVE  TxInv'
<1> SUFFICES ASSUME chip'.mode = "tx"
             PROVE  (chip.retuned => abandoned)' /\ \E f \in TxFrames : (Loaded(f) /\ transmitted[f] = 0 /\ (OnTheWay(f) \/ LeftBehind(f)))'
  BY DEF TxInv
<1>1. PICK f \in TxFrames : Loaded(f) /\ transmitted[f] = 0 /\ (OnTheWay(f) \/ LeftBehind(f))
  BY DEF TxInv
<1>2. Loaded(f)' /\ transmitted'[f] = 0 /\ (chip'.retuned => abandoned')
  BY <1>1 DEF Loaded, TxInv
<1>3. \A d \in Callers : d = c
  BY DEF OneCaller
<1>4. OnTheWay(f)' \/ LeftBehind(f)'
  BY <1>1, <1>3 DEF OnTheWay, LeftBehind
<1> QED
  BY <1>2, <1>4

\* The place tells the kind of the call.
LEMMA KindOf ==
    ASSUME TypeOK, CallsInv, NEW c \in Callers
    PROVE  /\ at[c] \in Preparing \cup {"waitTxDone", "ackTx", "endTx"} => kind[c] = "Send" /\ frame[c] \in TxFrames
           /\ at[c] \in RecvPlaces \ {"ok", "failed"} => kind[c] = "Recv"
           /\ at[c] \in OtherPlaces \ {"ok", "failed"} => kind[c] \in {"Set", "Close", "LBT"}
<1>1. kind[c] \in Kinds /\ Place(c, at[c])
  BY DEF TypeOK, CallsInv, CallInv
<1> QED
  BY <1>1 DEF Place, Kinds, Preparing, SendPlaces, RecvPlaces, OtherPlaces

LEMMA SentAccess ==
    ASSUME OneCaller, TypeOK, CallsInv, SentInv, NEW c \in Callers, AccessRegister(c)
    PROVE  SentInv'
<1>0. /\ Place(c, at[c]) /\ SendInv(c) /\ TxInv /\ TransmittedOnce
      /\ \A d \in Callers : d = c
      /\ chip \in ChipStates /\ at \in [Callers -> Locations]
  BY ChipTypes DEF TypeOK, CallsInv, CallInv, SentInv, OneCaller
<1>1. UNCHANGED <<mu, kind, frame, length, addr, payload, cancelled, result, transmitted, garbled, abandoned>>
  BY DEF AccessRegister, localVars, sendVars
<1>2. TransmittedOnce'
  BY <1>0, <1>1 DEF TransmittedOnce
<1>3. ASSUME NEW to, NEW after, Transfer(c, after, to)
      PROVE  (at'[c] = to /\ chip' = after) \/ (at'[c] = "failed" /\ chip' \in {chip, after})
  BY <1>0, <1>3 DEF Transfer, Goto
<1>4. SendInv(c)' /\ TxInv' => SentInv'
  BY <1>0, <1>2 DEF SentInv
<1>5. kind[c] # "Send" => SendInv(c)'
  BY <1>1 DEF SendInv
<1>6. ASSUME chip'.mode = "tx" => chip.mode = "tx" /\ chip'.fifo = chip.fifo /\ chip'.txLen = chip.txLen,
             chip'.mode = "tx" /\ chip'.retuned => chip.retuned \/ abandoned,
             at[c] \notin {"waitTxDone", "failed"}, at'[c] # "waitTxDone"
      PROVE  TxInv'
  BY <1>0, <1>1, <1>6, AirKept
<1> DEFINE sending == kind[c] = "Send" /\ frame[c] \in TxFrames
<1>7. CASE at[c] = "prepareTx" /\ Transfer(c, OpMode("standby"), "setTxPtr")
  <2>1. (at'[c] = "setTxPtr" /\ chip' = OpMode("standby")) \/ (at'[c] = "failed" /\ chip' \in {chip, OpMode("standby")})
    BY <1>3, <1>7
  <2>2. SendInv(c)'
    BY <1>0, <1>1, <1>7, <2>1 DEF SendInv, OpMode, ChipStates, Preparing
  <2>3. TxInv'
    BY <1>0, <1>6, <1>7, <2>1 DEF OpMode, ChipStates
  <2> QED
    BY <1>4, <2>2, <2>3
<1>8. CASE at[c] = "setTxPtr" /\ Transfer(c, [chip EXCEPT !.ptr = 0], "writeFifo")
  <2>1. \/ at'[c] = "writeFifo" /\ chip' = [chip EXCEPT !.ptr = 0]
        \/ at'[c] = "failed" /\ chip' \in {chip, [chip EXCEPT !.ptr = 0]}
    BY <1>3, <1>8
  <2>2. payload[c] = <<>> /\ Len(<<>>) = 0
    BY <1>0, <1>8 DEF Place
  <2>3. SendInv(c)'
    BY <1>0, <1>1, <1>8, <2>1, <2>2 DEF SendInv, ChipStates, Preparing
  <2>4. TxInv'
    BY <1>0, <1>6, <1>8, <2>1 DEF ChipStates
  <2> QED
    BY <1>4, <2>3, <2>4
<1>9. CASE at[c] = "writeLength" /\ Transfer(c, [chip EXCEPT !.txLen = Len(payload[c])], "clearIrq")
  <2> DEFINE after == [chip EXCEPT !.txLen = Len(payload[c])]
  <2>1. (at'[c] = "clearIrq" /\ chip' = after) \/ (at'[c] = "failed" /\ chip' \in {chip, after})
    BY <1>3, <1>9
  <2>2. Len(payload[c]) = Length[frame[c]] /\ kind[c] = "Send"
    BY <1>0, <1>9, KindOf DEF Place, Preparing
  <2>3. chip.mode = "standby"
    BY <1>0, <1>9, <2>2 DEF SendInv, Preparing
  <2>4. SendInv(c)'
    BY <1>0, <1>1, <1>9, <2>1, <2>2 DEF SendInv, ChipStates, Preparing
  <2>5. TxInv'
    BY <1>0, <1>6, <1>9, <2>1, <2>3 DEF ChipStates
  <2> QED
    BY <1>4, <2>4, <2>5
<1>10. CASE at[c] = "clearIrq" /\ Transfer(c, IrqFlagsCleared, "startTx")
  <2>1. (at'[c] = "startTx" /\ chip' = IrqFlagsCleared) \/ (at'[c] = "failed" /\ chip' \in {chip, IrqFlagsCleared})
    BY <1>3, <1>10
  <2>2. SendInv(c)'
    BY <1>0, <1>1, <1>10, <2>1 DEF SendInv, ChipStates, Preparing, IrqFlagsCleared
  <2>3. TxInv'
    BY <1>0, <1>6, <1>10, <2>1 DEF ChipStates, IrqFlagsCleared
  <2> QED
    BY <1>4, <2>2, <2>3
<1>11. CASE at[c] = "startTx" /\ Transfer(c, OpMode("tx"), "waitTxDone")
  <2>1. (at'[c] = "waitTxDone" /\ chip' = OpMode("tx")) \/ (at'[c] = "failed" /\ chip' \in {chip, OpMode("tx")})
    BY <1>3, <1>11
  <2>2. kind[c] = "Send" /\ frame[c] \in TxFrames /\ Len(payload[c]) = Length[frame[c]]
    BY <1>0, <1>11, KindOf DEF Place, Preparing
  <2>3. /\ transmitted[frame[c]] = 0 /\ chip.mode = "standby" /\ "TxDone" \notin chip.irq
        /\ Loaded(frame[c])
    BY <1>0, <1>11, <2>2 DEF SendInv, Preparing, Loaded
  <2>4. SendInv(c)'
    BY <1>0, <1>1, <1>11, <2>1, <2>3 DEF SendInv, OpMode, ChipStates, Preparing
  <2>5. CASE chip' = chip
    <3>1. chip'.mode # "tx"
      BY <2>3, <2>5
    <3>2. TxInv'
      BY <3>1 DEF TxInv
    <3> QED
      BY <1>4, <2>4, <3>2
  <2>6. CASE chip' = OpMode("tx")
    <3>1. chip'.txLen = chip.txLen /\ chip'.fifo = chip.fifo /\ ~chip'.retuned
      BY <1>0, <2>6 DEF OpMode, ChipStates
    <3>2. Loaded(frame[c])' /\ OnTheWay(frame[c])' /\ transmitted'[frame[c]] = 0
      BY <1>0, <1>1, <2>1, <2>2, <2>3, <3>1 DEF Loaded, OnTheWay
    <3>3. \E f \in TxFrames : (Loaded(f) /\ transmitted[f] = 0 /\ (OnTheWay(f) \/ LeftBehind(f)))'
      BY <1>1, <2>2, <3>2
    <3>4. (chip.retuned => abandoned)'
      BY <3>1
    <3>5. TxInv'
      BY <3>3, <3>4 DEF TxInv
    <3> QED
      BY <1>4, <2>4, <3>5
  <2> QED
    BY <2>1, <2>5, <2>6
<1>12. CASE at[c] = "enterRx" /\ Transfer(c, OpMode("rx"), "waitRxDone")
  <2>1. kind[c] # "Send"
    BY <1>12, KindOf DEF RecvPlaces
  <2>2. chip' \in {chip, OpMode("rx")} /\ at'[c] \in {"waitRxDone", "failed"}
    BY <1>3, <1>12
  <2> QED
    BY <1>0, <1>4, <1>5, <1>6, <1>12, <2>1, <2>2 DEF OpMode, ChipStates
<1>13. CASE at[c] = "setRxPtr" /\ Transfer(c, [chip EXCEPT !.ptr = addr[c]], "readFifo")
  <2>1. kind[c] # "Send"
    BY <1>13, KindOf DEF RecvPlaces
  <2>2. chip' \in {chip, [chip EXCEPT !.ptr = addr[c]]} /\ at'[c] \in {"readFifo", "failed"}
    BY <1>3, <1>13
  <2> QED
    BY <1>0, <1>4, <1>5, <1>6, <1>13, <2>1, <2>2 DEF ChipStates
<1>14. CASE at[c] \in {"firstSetting", "lastSetting"} /\ \E to \in {"lastSetting", "ok"} : Transfer(c, Setting, to)
  <2>1. kind[c] \in {"Set", "Close", "LBT"}
    BY <1>14, KindOf DEF OtherPlaces
  <2>2. chip' \in {chip, Setting} /\ at'[c] \in {"lastSetting", "ok", "failed"}
    BY <1>3, <1>14
  <2>3. chip.mode = "tx" => abandoned
    BY <1>0, <2>1 DEF TxInv, OnTheWay, LeftBehind
  <2> QED
    BY <1>0, <1>4, <1>5, <1>6, <1>14, <2>1, <2>2, <2>3 DEF Setting, ChipStates
<1>15. CASE /\ at[c] \in {"lbtRx", "lbtRssi", "lbtStandby"}
            /\ \E to \in {"lbtRssi", "lbtStandby", "ok"}, after \in {OpMode("rx"), chip, OpMode("standby")} :
                   Transfer(c, after, to)
  <2>1. kind[c] # "Send"
    BY <1>15, KindOf DEF OtherPlaces
  <2>2. chip' \in {chip, OpMode("rx"), OpMode("standby")} /\ at'[c] \in {"lbtRssi", "lbtStandby", "ok", "failed"}
    BY <1>3, <1>15
  <2> QED
    BY <1>0, <1>4, <1>5, <1>6, <1>15, <2>1, <2>2 DEF OpMode, ChipStates
<1> QED
  BY AccessCases, <1>7, <1>8, <1>9, <1>10, <1>11, <1>12, <1>13, <1>14, <1>15

LEMMA SentCloseOff ==
    ASSUME OneCaller, TypeOK, CallsInv, SentInv, NEW c \in Callers, CloseOff(c)
    PROVE  SentInv'
<1>0. /\ SendInv(c) /\ TxInv /\ TransmittedOnce /\ \A d \in Callers : d = c
      /\ chip \in ChipStates /\ at \in [Callers -> Locations]
  BY ChipTypes DEF TypeOK, SentInv, OneCaller
<1>1. UNCHANGED <<mu, kind, frame, length, addr, payload, cancelled, result, transmitted, garbled, abandoned>>
  BY DEF CloseOff, localVars, sendVars
<1>2. TransmittedOnce'
  BY <1>0, <1>1 DEF TransmittedOnce
<1>3. at'[c] = Closing[at[c]].to /\ chip' \in {chip, Closing[at[c]].after}
  BY <1>0 DEF CloseOff, Goto
<1>4. /\ at[c] \in {"ackTx", "endTx", "dropFrame", "ackRx", "endRx", "stopRx", "sleep"}
      /\ at'[c] \in {"endTx", "ok", "failed", "endRx"}
      /\ chip' \in {chip, IrqFlagsCleared, OpMode("standby"), OpMode("sleep")}
      /\ at[c] \in {"ackTx", "endTx"} => at'[c] \in {"endTx", "ok"}
  BY <1>3, ClosingCases
<1>5. chip'.mode = "tx" => chip.mode = "tx" /\ chip'.fifo = chip.fifo /\ chip'.txLen = chip.txLen /\ chip'.retuned = chip.retuned
  BY <1>0, <1>4 DEF IrqFlagsCleared, OpMode, ChipStates
<1>6. TxInv'
  BY <1>0, <1>1, <1>4, <1>5, AirKept
<1>7. CASE at[c] \in {"ackTx", "endTx"}
  <2>1. SendInv(c)'
    BY <1>0, <1>1, <1>4, <1>5, <1>7 DEF SendInv, Preparing
  <2> QED
    BY <1>0, <1>2, <1>6, <2>1 DEF SentInv
<1>8. CASE at[c] \notin {"ackTx", "endTx"}
  <2>1. kind[c] # "Send"
    BY <1>4, <1>8, KindOf DEF RecvPlaces, OtherPlaces
  <2>2. SendInv(c)'
    BY <1>1, <2>1 DEF SendInv
  <2> QED
    BY <1>0, <1>2, <1>6, <2>2 DEF SentInv
<1> QED
  BY <1>7, <1>8

LEMMA SentWriteFifo ==
    ASSUME OneCaller, TypeOK, CallsInv, SentInv, NEW c \in Callers, WriteFifo(c)
    PROVE  SentInv'
<1> DEFINE k == Len(payload[c])
           byte == Bytes(frame[c])[k + 1]
           after == [chip EXCEPT !.fifo[chip.ptr] = byte, !.ptr = FifoMoved]
           to == IF k + 1 = Length[frame[c]] THEN "writeLength" ELSE "writeFifo"
<1>0. /\ SendInv(c) /\ TxInv /\ TransmittedOnce /\ \A d \in Callers : d = c
      /\ chip \in ChipStates /\ at \in [Callers -> Locations] /\ payload[c] \in Seq(Cells)
  BY ChipTypes DEF TypeOK, SentInv, OneCaller
<1>1. /\ at[c] = "writeFifo" /\ Transfer(c, after, to)
      /\ payload' = [payload EXCEPT ![c] = Append(@, byte)]
      /\ UNCHANGED <<mu, kind, frame, length, addr, cancelled, result, transmitted, garbled, abandoned>>
  BY DEF WriteFifo, sendVars
<1>2. /\ kind[c] = "Send" /\ frame[c] \in TxFrames /\ frame[c] \in Frames
      /\ k < Length[frame[c]]
  BY <1>1, KindOf DEF Preparing, Frames, CallsInv, CallInv, Place
<1>3. Length[frame[c]] \in Nat /\ Length[frame[c]] <= FifoSize /\ k \in Nat /\ FifoSize \in Nat
  BY <1>0, <1>2, BytesFacts
<1>4. byte = <<frame[c], k + 1>> /\ byte \in Cells
  <2>1. k + 1 \in 1..Length[frame[c]]
    BY <1>2, <1>3
  <2> QED
    BY <1>2, <2>1, BytesFacts
<1>5. /\ result[frame[c]] = "pending" /\ transmitted[frame[c]] = 0 /\ chip.mode = "standby" /\ chip.ptr = k
      /\ \A n \in 1..k : chip.fifo[n - 1] = <<frame[c], n>>
  BY <1>0, <1>1, <1>2 DEF SendInv, Preparing
<1> HIDE DEF byte, k
<1>6. payload'[c] = Append(payload[c], byte)
  BY <1>1 DEF TypeOK
<1>7. Len(payload'[c]) = k + 1
  BY <1>0, <1>4, <1>6 DEF k
<1>8. TransmittedOnce'
  BY <1>0, <1>1 DEF TransmittedOnce
<1>9. chip' \in {chip, after} /\ ((at'[c] = to /\ chip' = after) \/ at'[c] = "failed")
  BY <1>0, <1>1 DEF Transfer, Goto
<1>10. chip'.mode = "standby"
  BY <1>0, <1>5, <1>9 DEF ChipStates
<1>11. SendInv(c)'
  <2>1. CASE at'[c] = "failed"
    BY <1>1, <1>5, <2>1 DEF SendInv, Preparing
  <2>2. CASE at'[c] = to /\ chip' = after
    <3>1. chip'.fifo = [chip.fifo EXCEPT ![k] = byte] /\ chip'.ptr = FifoMoved
      BY <1>0, <1>5, <2>2 DEF ChipStates
    <3>2. \A n \in 1..k + 1 : chip'.fifo[n - 1] = <<frame[c], n>>
      <4>1. ASSUME NEW n \in 1..k + 1 PROVE chip'.fifo[n - 1] = <<frame[c], n>>
        <5>1. n - 1 \in 0..FifoSize - 1 /\ chip.fifo \in [0..FifoSize - 1 -> Cells]
          BY <1>0, <1>2, <1>3 DEF ChipStates, k
        <5>2. CASE n = k + 1
          BY <1>3, <1>4, <3>1, <5>1, <5>2
        <5>3. CASE n # k + 1
          <6>1. n \in 1..k /\ n - 1 # k
            BY <1>3, <5>3
          <6> QED
            BY <1>5, <3>1, <5>1, <6>1
        <5> QED
          BY <5>2, <5>3
      <4> QED
        BY <4>1
    <3>3. to = "writeFifo" => chip'.ptr = k + 1
      <4>1. SUFFICES ASSUME to = "writeFifo" PROVE FifoMoved = k + 1
        BY <3>1
      <4>2. k + 1 < FifoSize
        BY <1>2, <1>3, <4>1 DEF k
      <4> QED
        BY <1>3, <1>5, <4>2 DEF FifoMoved
    <3> QED
      BY <1>1, <1>5, <1>7, <1>10, <2>2, <3>2, <3>3 DEF SendInv, Preparing
  <2> QED
    BY <1>9, <2>1, <2>2
<1>12. TxInv'
  BY <1>10 DEF TxInv
<1> QED
  BY <1>0, <1>8, <1>11, <1>12 DEF SentInv

\* The accesses of a Recv that follow its wait, and the waits, change no
\* register a transmission depends on.
LEMMA SentRead ==
    ASSUME OneCaller, TypeOK, CallsInv, SentInv, NEW c \in Callers,
           ReadLength(c) \/ ReadAddr(c) \/ ReadFifo(c) \/ WaitForTxDone(c) \/ WaitForRxDone(c) \/ PollCancelled(c)
    PROVE  SentInv'
<1>0. /\ SendInv(c) /\ TxInv /\ TransmittedOnce /\ \A d \in Callers : d = c
      /\ chip \in ChipStates /\ at \in [Callers -> Locations]
  BY ChipTypes DEF TypeOK, SentInv, OneCaller
<1>1. UNCHANGED <<kind, frame, result, transmitted, garbled, abandoned>>
  BY DEF ReadLength, ReadAddr, ReadFifo, WaitForTxDone, WaitForRxDone, PollCancelled, localVars, sendVars
<1>2. TransmittedOnce'
  BY <1>0, <1>1 DEF TransmittedOnce
<1>3. CASE ReadLength(c) \/ ReadAddr(c) \/ ReadFifo(c) \/ WaitForRxDone(c) \/ (PollCancelled(c) /\ at[c] = "waitRxDone")
  <2>1. /\ at[c] \in {"waitRxDone", "readLength", "readAddr", "readFifo"}
        /\ at'[c] \in {"waitRxDone", "readLength", "readAddr", "setRxPtr", "readFifo", "ackRx", "dropFrame", "stopRx", "failed"}
        /\ chip' \in {chip, [chip EXCEPT !.ptr = FifoMoved]}
    BY <1>0, <1>3 DEF ReadLength, ReadAddr, ReadFifo, WaitForRxDone, PollCancelled, Transfer, Goto
  <2>2. kind[c] # "Send"
    BY <2>1, KindOf DEF RecvPlaces
  <2>3. SendInv(c)'
    BY <1>1, <2>2 DEF SendInv
  <2>4. chip'.mode = chip.mode /\ chip'.fifo = chip.fifo /\ chip'.txLen = chip.txLen /\ chip'.retuned = chip.retuned
    BY <1>0, <2>1 DEF ChipStates
  <2>5. TxInv'
    BY <1>0, <1>1, <2>1, <2>4, AirKept
  <2> QED
    BY <1>0, <1>2, <2>3, <2>5 DEF SentInv
<1>4. CASE WaitForTxDone(c) \/ (PollCancelled(c) /\ at[c] = "waitTxDone")
  <2>1. at[c] = "waitTxDone" /\ chip' = chip
    BY <1>4 DEF WaitForTxDone, PollCancelled, Transfer
  <2>2. at'[c] \in {"waitTxDone", "failed"} \/ (at'[c] = "ackTx" /\ "TxDone" \in chip.irq)
    BY <1>0, <1>4 DEF WaitForTxDone, PollCancelled, Transfer, Goto
  <2>3. SendInv(c)'
    BY <1>0, <1>1, <2>1, <2>2 DEF SendInv, Preparing
  <2>4. chip.mode = "tx" => at'[c] \in {"waitTxDone", "failed"}
    BY <1>0, <2>1, <2>2, KindOf DEF SendInv
  <2>5. TxInv'
    BY <1>0, <1>1, <2>1, <2>4, AirKept
  <2> QED
    BY <1>0, <1>2, <2>3, <2>5 DEF SentInv
<1> QED
  BY <1>3, <1>4 DEF PollCancelled

LEMMA SentReturn ==
    ASSUME OneCaller, TypeOK, CallsInv, SentInv, NEW c \in Callers,
           SendReturns(c) \/ RecvReturns(c) \/ CallReturns(c)
    PROVE  SentInv'
<1>0. /\ SendInv(c) /\ TxInv /\ TransmittedOnce /\ \A d \in Callers : d = c
      /\ at \in [Callers -> Locations] /\ kind \in [Callers -> Kinds]
      /\ result \in [TxFrames -> {"none", "pending", "ok", "failed"}]
  BY DEF TypeOK, SentInv, OneCaller
<1>1. /\ at[c] \in {"ok", "failed"} /\ at'[c] = "idle" /\ kind'[c] = "none" /\ chip' = chip
      /\ transmitted' = transmitted /\ garbled' = garbled
  BY <1>0 DEF SendReturns, RecvReturns, CallReturns, Leave, Goto, sendVars
<1>2. SendInv(c)'
  BY <1>1 DEF SendInv
<1>3. CASE SendReturns(c)
  <2>1. /\ kind[c] = "Send" /\ result' = [result EXCEPT ![frame[c]] = at[c]]
        /\ abandoned' = (abandoned \/ (at[c] = "failed" /\ chip.mode = "tx"))
    BY <1>3 DEF SendReturns
  <2>2. frame[c] \in TxFrames /\ result[frame[c]] = "pending"
    BY <1>0, <2>1 DEF CallsInv, CallInv, Place, SendInv
  <2>3. at[c] = "ok" => transmitted[frame[c]] = 1 /\ chip.mode # "tx"
    BY <1>0, <2>1 DEF SendInv
  <2>4. abandoned => abandoned'
    BY <2>1
  <2>5. TransmittedOnce'
    <3>1. \A f \in TxFrames : transmitted'[f] <= 1
      BY <1>0, <1>1 DEF TransmittedOnce
    <3>2. \A f \in TxFrames : result'[f] = "ok" => transmitted'[f] = 1
      BY <1>0, <1>1, <2>1, <2>2, <2>3 DEF TransmittedOnce
    <3>3. \A f \in TxFrames : result'[f] = "none" => transmitted'[f] = 0
      BY <1>0, <1>1, <2>1, <2>2 DEF TransmittedOnce
    <3>4. garbled' => abandoned'
      BY <1>0, <1>1, <2>4 DEF TransmittedOnce
    <3> QED
      BY <3>1, <3>2, <3>3, <3>4 DEF TransmittedOnce
  <2>6. TxInv'
    <3>1. SUFFICES ASSUME chip.mode = "tx" PROVE TxInv'
      BY <1>1 DEF TxInv
    <3>2. PICK f \in TxFrames : Loaded(f) /\ transmitted[f] = 0 /\ (OnTheWay(f) \/ LeftBehind(f))
      BY <1>0, <3>1 DEF TxInv
    <3>3. at[c] = "failed"
      BY <1>1, <2>3, <3>1
    <3>4. abandoned'
      BY <2>1, <3>1, <3>3
    <3>5. result'[f] = "failed"
      <4>1. CASE OnTheWay(f)
        BY <1>0, <2>1, <3>3, <4>1 DEF OnTheWay
      <4>2. CASE LeftBehind(f)
        BY <1>0, <2>1, <2>2, <4>2 DEF LeftBehind
      <4> QED
        BY <3>2, <4>1, <4>2
    <3>6. Loaded(f)' /\ LeftBehind(f)' /\ transmitted'[f] = 0
      BY <1>0, <1>1, <3>2, <3>4, <3>5 DEF Loaded, LeftBehind
    <3>7. \E g \in TxFrames : (Loaded(g) /\ transmitted[g] = 0 /\ (OnTheWay(g) \/ LeftBehind(g)))'
      BY <3>6
    <3> QED
      BY <3>4, <3>7 DEF TxInv
  <2> QED
    BY <1>0, <1>2, <2>5, <2>6 DEF SentInv
<1>4. CASE RecvReturns(c) \/ CallReturns(c)
  <2>1. UNCHANGED <<result, abandoned>> /\ kind[c] # "Send"
    BY <1>4 DEF RecvReturns, CallReturns, sendVars
  <2>2. TransmittedOnce'
    BY <1>0, <1>1, <2>1 DEF TransmittedOnce
  <2>3. TxInv'
    <3>1. SUFFICES ASSUME chip.mode = "tx" PROVE TxInv'
      BY <1>1 DEF TxInv
    <3>2. PICK f \in TxFrames : Loaded(f) /\ transmitted[f] = 0 /\ (OnTheWay(f) \/ LeftBehind(f))
      BY <1>0, <3>1 DEF TxInv
    <3>3. LeftBehind(f)
      BY <1>0, <2>1, <3>2 DEF OnTheWay
    <3>4. Loaded(f)' /\ LeftBehind(f)' /\ transmitted'[f] = 0 /\ abandoned'
      BY <1>0, <1>1, <2>1, <3>2, <3>3 DEF Loaded, LeftBehind
    <3>5. \E g \in TxFrames : (Loaded(g) /\ transmitted[g] = 0 /\ (OnTheWay(g) \/ LeftBehind(g)))'
      BY <3>4
    <3> QED
      BY <3>4, <3>5 DEF TxInv
  <2> QED
    BY <1>0, <1>2, <2>2, <2>3 DEF SentInv
<1> QED
  BY <1>3, <1>4

LEMMA SentCall ==
    ASSUME OneCaller, TypeOK, CallsInv, SentInv, NEW c \in Callers, Call(c)
    PROVE  SentInv'
<1>0. /\ SendInv(c) /\ TxInv /\ TransmittedOnce /\ \A d \in Callers : d = c
      /\ at \in [Callers -> Locations] /\ kind \in [Callers -> Kinds]
      /\ frame \in [Callers -> TxFrames \cup {NoFrame}]
      /\ result \in [TxFrames -> {"none", "pending", "ok", "failed"}]
  BY DEF TypeOK, SentInv, OneCaller
<1>1. chip' = chip /\ transmitted' = transmitted /\ garbled' = garbled /\ abandoned' = abandoned
  BY DEF Call, Send, Recv, SetRadio, Close, PerformLBT, Cancel, sendVars
<1>2. CASE Cancel(c)
  <2>1. UNCHANGED <<at, kind, frame, payload, result>>
    BY <1>2 DEF Cancel, sendVars
  <2> QED
    BY <1>0, <1>1, <2>1 DEF SentInv, TransmittedOnce, TxInv, SendInv, Loaded, OnTheWay, LeftBehind
<1>3. CASE ~Cancel(c)
  <2>1. PICK l \in {"prepareTx", "enterRx", "firstSetting", "lastSetting", "sleep", "lbtRx"}, k \in Kinds \ {"none"} :
            /\ kind[c] = "none" /\ kind'[c] = k /\ at'[c] = l
            /\ \/ /\ k = "Send" /\ l = "prepareTx"
                  /\ \E f \in TxFrames : /\ result[f] = "none" /\ frame'[c] = f
                                         /\ result' = [result EXCEPT ![f] = "pending"]
               \/ k # "Send" /\ result' = result
    BY <1>0, <1>3 DEF Call, Send, Recv, SetRadio, Close, PerformLBT, Begin, Goto, Kinds, sendVars
  <2>2. \A f \in TxFrames : result'[f] = result[f] \/ (result[f] = "none" /\ result'[f] = "pending")
    BY <1>0, <2>1
  <2>3. TransmittedOnce'
    BY <1>0, <1>1, <2>2 DEF TransmittedOnce
  <2>4. SendInv(c)'
    BY <1>0, <1>1, <2>1 DEF SendInv, TransmittedOnce, Preparing
  <2>5. TxInv'
    <3>1. SUFFICES ASSUME chip.mode = "tx" PROVE TxInv'
      BY <1>1 DEF TxInv
    <3>2. PICK f \in TxFrames : Loaded(f) /\ transmitted[f] = 0 /\ (OnTheWay(f) \/ LeftBehind(f))
      BY <1>0, <3>1 DEF TxInv
    <3>3. LeftBehind(f)
      BY <1>0, <2>1, <3>2 DEF OnTheWay
    <3>4. Loaded(f)' /\ LeftBehind(f)' /\ transmitted'[f] = 0 /\ abandoned'
      BY <1>0, <1>1, <2>1, <2>2, <3>2, <3>3 DEF Loaded, LeftBehind
    <3>5. \E g \in TxFrames : (Loaded(g) /\ transmitted[g] = 0 /\ (OnTheWay(g) \/ LeftBehind(g)))'
      BY <3>4
    <3> QED
      BY <3>4, <3>5 DEF TxInv
  <2> QED
    BY <1>0, <2>3, <2>4, <2>5 DEF SentInv
<1> QED
  BY <1>2, <1>3

\* The payload on the air counts as sent, whole if no setting changed.
LEMMA SentTxDone ==
    ASSUME OneCaller, TypeOK, CallsInv, SentInv, TxDone
    PROVE  SentInv'
<1>0. /\ TxInv /\ TransmittedOnce /\ chip \in ChipStates /\ transmitted \in [TxFrames -> Nat]
  BY ChipTypes DEF TypeOK, SentInv
<1>1. /\ chip.mode = "tx" /\ chip'.mode = "standby" /\ chip'.fifo = chip.fifo
      /\ UNCHANGED <<at, kind, frame, payload, result, abandoned>>
  BY <1>0 DEF TxDone, ChipStates, localVars
<1>2. PICK f \in TxFrames : Loaded(f) /\ transmitted[f] = 0 /\ (OnTheWay(f) \/ LeftBehind(f))
  BY <1>0, <1>1 DEF TxInv
<1>3. \A g \in TxFrames : Held = Bytes(g) <=> g = f
  BY <1>2, LoadedFacts
<1>4. /\ \A g \in TxFrames : transmitted'[g] = IF g = f /\ ~chip.retuned THEN transmitted[g] + 1 ELSE transmitted[g]
      /\ garbled' => garbled \/ chip.retuned
  BY <1>2, <1>3 DEF TxDone
<1>5. chip.retuned => abandoned
  BY <1>0, <1>1 DEF TxInv
<1>6. result[f] \in {"pending", "failed"}
  <2>1. CASE OnTheWay(f)
    BY <2>1 DEF OnTheWay, SentInv, SendInv
  <2>2. CASE LeftBehind(f)
    BY <2>2 DEF LeftBehind
  <2> QED
    BY <1>2, <2>1, <2>2
<1>7. TransmittedOnce'
  <2>1. \A g \in TxFrames : transmitted'[g] <= 1
    BY <1>0, <1>2, <1>4 DEF TransmittedOnce
  <2>2. \A g \in TxFrames : result'[g] \in {"ok", "none"} => transmitted'[g] = transmitted[g]
    BY <1>1, <1>4, <1>6
  <2>3. garbled' => abandoned'
    BY <1>0, <1>1, <1>4, <1>5 DEF TransmittedOnce
  <2> QED
    BY <1>0, <1>1, <2>1, <2>2, <2>3 DEF TransmittedOnce
<1>8. TxInv'
  BY <1>1 DEF TxInv
<1>9. ASSUME NEW c \in Callers, kind[c] = "Send"
      PROVE  SendInv(c)'
  <2>1. SendInv(c) /\ frame[c] \in TxFrames /\ at[c] \in SendPlaces /\ result[frame[c]] = "pending"
    BY <1>9 DEF SentInv, CallsInv, CallInv, Place, SendInv
  <2>2. at[c] \notin Preparing \ {"prepareTx"} /\ at[c] \notin {"ackTx", "endTx", "ok"}
    BY <1>1, <1>9, <2>1 DEF SendInv
  <2>3. CASE at[c] = "waitTxDone"
    <3>1. f = frame[c] /\ ~chip.retuned
      <4>1. ~LeftBehind(f)
        BY <2>3 DEF LeftBehind
      <4> QED
        BY <1>1, <1>2, <1>9, <2>1, <2>3, <4>1 DEF OnTheWay, OneCaller, SendInv
    <3>2. transmitted'[frame[c]] = 1
      BY <1>0, <1>2, <1>4, <2>1, <3>1
    <3> QED
      BY <1>1, <2>1, <2>3, <3>2 DEF SendInv, Preparing
  <2>4. CASE at[c] = "prepareTx"
    <3>1. f # frame[c]
      <4>1. ~OnTheWay(f)
        BY <2>4 DEF OnTheWay, OneCaller
      <4> QED
        BY <1>2, <2>1, <4>1 DEF LeftBehind
    <3>2. transmitted'[frame[c]] = 0
      BY <1>4, <1>9, <2>1, <2>4, <3>1 DEF SendInv, Preparing
    <3> QED
      BY <1>1, <2>1, <2>4, <3>2 DEF SendInv, Preparing
  <2>5. CASE at[c] = "failed"
    BY <1>1, <2>1, <2>5 DEF SendInv, Preparing
  <2> QED
    BY <2>1, <2>2, <2>3, <2>4, <2>5 DEF SendPlaces, Preparing
<1>10. \A c \in Callers : SendInv(c)'
  BY <1>1, <1>9 DEF SendInv
<1> QED
  BY <1>7, <1>8, <1>10 DEF SentInv

\* A frame comes in while the chip receives: no Send depends on the FIFO then.
LEMMA SentRxDone ==
    ASSUME TypeOK, CallsInv, SentInv, NEW f \in RxFrames, RxDone(f)
    PROVE  SentInv'
<1>0. TxInv /\ TransmittedOnce /\ chip \in ChipStates
  BY ChipTypes DEF TypeOK, SentInv
<1>1. /\ chip.mode = "rx" /\ chip'.mode = "rx"
      /\ UNCHANGED <<at, kind, frame, payload, result, transmitted, garbled, abandoned>>
  BY <1>0 DEF RxDone, ChipStates, localVars, sendVars
<1>2. ASSUME NEW c \in Callers PROVE SendInv(c)'
  BY <1>1 DEF SentInv, SendInv, Preparing
<1>3. TransmittedOnce' /\ TxInv'
  BY <1>0, <1>1 DEF TransmittedOnce, TxInv
<1> QED
  BY <1>2, <1>3 DEF SentInv

LEMMA SentStep == OneCaller /\ TypeOK /\ CallsInv /\ SentInv /\ [Next]_vars => SentInv'
<1> SUFFICES ASSUME OneCaller, TypeOK, CallsInv, SentInv, [Next]_vars
             PROVE  SentInv'
  OBVIOUS
<1>1. ASSUME NEW c \in Callers, Driver(c) PROVE SentInv'
  BY <1>1, SentAccess, SentCloseOff, SentWriteFifo, SentRead, SentReturn DEF Driver
<1>2. ASSUME NEW c \in Callers, Call(c) PROVE SentInv'
  BY <1>2, SentCall
<1>3. CASE TxDone
  BY <1>3, SentTxDone
<1>4. ASSUME NEW f \in RxFrames, RxDone(f) PROVE SentInv'
  BY <1>4, SentRxDone
<1>5. CASE UNCHANGED vars
  BY <1>5 DEF vars, localVars, sendVars, SentInv, TransmittedOnce, TxInv, SendInv, Loaded, OnTheWay, LeftBehind
<1> QED
  BY <1>1, <1>2, <1>3, <1>4, <1>5 DEF Next

\* Payloads are transmitted once, as the results of Send say, for any payloads,
\* lengths and FIFO and however many transfers on the SPI bus fail, when one
\* goroutine uses the radio.
THEOREM SendsOnce ==
    ASSUME OneCaller
    PROVE  Spec => []TransmittedOnce
<1>1. Init => SentInv
  BY DEF Init, SentInv, TransmittedOnce, TxInv, SendInv
<1>2. TypeOK /\ CallsInv /\ SentInv /\ [Next]_vars => SentInv'
  BY SentStep
<1>3. Spec => [](TypeOK /\ CallsInv)
  BY TypeCorrect
<1>4. Spec => []SentInv
  BY <1>1, <1>2, <1>3, PTL DEF Spec
<1>5. SentInv => TransmittedOnce
  BY DEF SentInv
<1> QED
  BY <1>4, <1>5, PTL

\* A remainder of what is smaller than the divisor.
LEMMA SmallRemainder == ASSUME NEW n \in Nat, NEW k \in 0..n - 1 PROVE k % n = k
OBVIOUS

\* A chip whose base address were 0 would send what the driver holds.
LEMMA HeldOnAir == ASSUME TypeOK, TxBase = 0 PROVE OnAir = Held
<1>1. FifoSize \in Nat /\ chip.txLen \in 0..FifoSize
  BY RadioAssumption DEF TypeOK
<1>2. \A n \in 1..chip.txLen : n - 1 \in 0..FifoSize - 1 /\ TxBase + n - 1 = n - 1
  BY <1>1
<1>3. \A n \in 1..chip.txLen : (TxBase + n - 1) % FifoSize = n - 1
  BY <1>1, <1>2, SmallRemainder
<1> QED
  BY <1>3 DEF OnAir, Held

\* With a base address of 0 a Send that succeeds has put its payload on the
\* air: the address the driver leaves unwritten is all that PayloadOnAir lacks.
THEOREM SendsFromZero ==
    ASSUME OneCaller, TxBase = 0
    PROVE  Spec => []PayloadOnAir
<1> DEFINE AiredInv == \A f \in TxFrames : transmitted[f] # 0 => f \in aired
<1>1. Init => AiredInv
  BY DEF Init
<1>2. TypeOK /\ AiredInv /\ [Next]_vars => AiredInv'
  <2> SUFFICES ASSUME TypeOK, AiredInv, [Next]_vars PROVE AiredInv'
    OBVIOUS
  <2>1. ASSUME UNCHANGED <<transmitted, aired>> PROVE AiredInv'
    BY <2>1
  <2>2. CASE TxDone
    <3>1. OnAir = Held
      BY HeldOnAir
    <3> DEFINE whole == {f \in TxFrames : Held = Bytes(f) /\ ~chip.retuned}
    <3>2. /\ transmitted' = [f \in TxFrames |-> IF f \in whole THEN transmitted[f] + 1 ELSE transmitted[f]]
          /\ aired' = aired \cup whole
      BY <2>2, <3>1 DEF TxDone
    <3> HIDE DEF whole
    <3> QED
      BY <3>2
  <2>3. ASSUME NEW c \in Callers, Driver(c) PROVE AiredInv'
    BY <2>1, <2>3 DEF Driver, AccessRegister, CloseOff, WriteFifo, ReadLength, ReadAddr, ReadFifo, WaitForTxDone,
       WaitForRxDone, PollCancelled, SendReturns, RecvReturns, CallReturns, sendVars
  <2>4. ASSUME NEW c \in Callers, Call(c) PROVE AiredInv'
    BY <2>1, <2>4 DEF Call, Send, Recv, SetRadio, Close, PerformLBT, Cancel, sendVars
  <2>5. ASSUME NEW f \in RxFrames, RxDone(f) PROVE AiredInv'
    BY <2>1, <2>5 DEF RxDone, sendVars
  <2>6. CASE UNCHANGED vars
    BY <2>1, <2>6 DEF vars, sendVars
  <2> QED
    BY <2>2, <2>3, <2>4, <2>5, <2>6 DEF Next
<1>3. Spec => []TypeOK
  BY TypeCorrect, PTL
<1>4. Spec => []TransmittedOnce
  BY SendsOnce
<1>5. TransmittedOnce /\ AiredInv => PayloadOnAir
  BY DEF TransmittedOnce, PayloadOnAir
<1> HIDE DEF AiredInv
<1>6. Spec => []AiredInv
  BY <1>1, <1>2, <1>3, PTL DEF Spec
<1> QED
  BY <1>4, <1>5, <1>6, PTL

-----------------------------------------------------------------------------
(* What a Recv relies on the chip for, with one goroutine                  *)

Writing == {"writeFifo", "writeLength", "clearIrq"}
ReadPlaces == {"readLength", "readAddr", "setRxPtr", "readFifo"}

\* The next Recv will find a frame announced as sound.
Flagged == "RxDone" \in chip.irq /\ "PayloadCrc" \notin chip.irq

\* The chip says where in its FIFO the frame is, and it is there.
Stored(f) ==
    /\ chip.rxLen = Length[f]
    /\ chip.rxAddr + Length[f] <= FifoSize
    /\ \A n \in 1..Length[f] : chip.fifo[(chip.rxAddr + n) - 1] = <<f, n>>

\* It came in sound, and no Recv has returned it.
Fresh(f) == arrived[f] = "good" /\ delivered[f] = 0

HasRead(c) == kind[c] = "Recv" /\ at[c] \in {"endRx", "ok"}

\* What is announced is a frame that no Recv has returned or is about to
\* return, unless a Send has begun to overwrite it, which clears the flags
\* before it is done.
FlagInv ==
    Flagged /\ (\A c \in Callers : at[c] \notin Writing) =>
        \E f \in RxFrames : Fresh(f) /\ Stored(f) /\ \A c \in Callers : HasRead(c) => payload[c] # Bytes(f)

\* What has been read so far is what the chip has stored.
ReadInv(c) ==
    kind[c] = "Recv" =>
        /\ at[c] \in ReadPlaces => Flagged
        /\ at[c] \in ReadPlaces \ {"readLength"} => length[c] = chip.rxLen
        /\ at[c] \in {"setRxPtr", "readFifo"} => addr[c] = chip.rxAddr
        /\ at[c] = "readFifo" =>
               /\ Len(payload[c]) < length[c]
               /\ chip.ptr = addr[c] + Len(payload[c])
               /\ \A n \in 1..Len(payload[c]) : payload[c][n] = chip.fifo[(addr[c] + n) - 1]
        /\ at[c] \in {"ackRx", "endRx", "ok"} => \E f \in RxFrames : Fresh(f) /\ payload[c] = Bytes(f)

DeliveryInv ==
    /\ misread = FALSE
    /\ \A f \in RxFrames : delivered[f] <= 1 /\ (arrived[f] # "good" => delivered[f] = 0)

Received == DeliveryInv /\ FlagInv /\ \A c \in Callers : ReadInv(c)

RecvInv == overrun = FALSE /\ faults = 0 => Received

\* Without failing transfers an access does what it is for.
LEMMA NoFault ==
    ASSUME TypeOK, faults' = 0
    PROVE  /\ \A c \in Callers : \A to, after : Transfer(c, after, to) => chip' = after /\ at' = [at EXCEPT ![c] = to] /\ faults = 0
           /\ \A c \in Callers : CloseOff(c) =>
                  chip' = Closing[at[c]].after /\ at' = [at EXCEPT ![c] = Closing[at[c]].to] /\ faults = 0
<1>1. faults \in Nat
  BY DEF TypeOK
<1> QED
  BY <1>1 DEF Transfer, CloseOff, Goto

\* A step that announces nothing, and overwrites nothing, leaves what is
\* announced as it is.
LEMMA FlagKept ==
    ASSUME FlagInv, Flagged' => Flagged,
           chip'.fifo = chip.fifo, chip'.rxLen = chip.rxLen, chip'.rxAddr = chip.rxAddr,
           UNCHANGED <<arrived, delivered>>,
           \A c \in Callers : at'[c] \notin Writing => at[c] \notin Writing,
           \A c \in Callers : HasRead(c)' => HasRead(c) /\ payload'[c] = payload[c]
    PROVE  FlagInv'
<1> SUFFICES ASSUME Flagged', \A c \in Callers : at'[c] \notin Writing
             PROVE  \E f \in RxFrames : (Fresh(f) /\ Stored(f) /\ \A c \in Callers : HasRead(c) => payload[c] # Bytes(f))'
  BY DEF FlagInv
<1>1. PICK f \in RxFrames : Fresh(f) /\ Stored(f) /\ \A c \in Callers : HasRead(c) => payload[c] # Bytes(f)
  BY DEF FlagInv
<1>2. Fresh(f)' /\ Stored(f)'
  BY <1>1 DEF Fresh, Stored
<1>3. \A c \in Callers : HasRead(c)' => payload'[c] # Bytes(f)
  BY <1>1
<1> QED
  BY <1>2, <1>3 DEF Bytes

LEMMA ReceivedAccess ==
    ASSUME OneCaller, TypeOK, CallsInv, Received, NEW c \in Callers, AccessRegister(c), faults' = 0
    PROVE  Received'
<1>0. /\ ReadInv(c) /\ FlagInv /\ DeliveryInv /\ Place(c, at[c]) /\ \A d \in Callers : d = c
      /\ chip \in ChipStates /\ at \in [Callers -> Locations]
  BY ChipTypes DEF TypeOK, CallsInv, CallInv, Received, OneCaller
<1>1. UNCHANGED <<kind, frame, length, addr, payload, arrived, delivered, misread>>
  BY DEF AccessRegister, localVars, recvVars
<1>2. DeliveryInv'
  BY <1>0, <1>1 DEF DeliveryInv
<1>3. ReadInv(c)' /\ FlagInv' => Received'
  BY <1>0, <1>2 DEF Received
<1>4. kind[c] # "Recv" => ReadInv(c)'
  BY <1>1 DEF ReadInv
<1>5. ASSUME chip'.fifo = chip.fifo, chip'.rxLen = chip.rxLen, chip'.rxAddr = chip.rxAddr, chip'.irq \in {chip.irq, {}},
             at'[c] \notin Writing => at[c] \notin Writing, at'[c] \in {"endRx", "ok"} => kind[c] # "Recv"
      PROVE  FlagInv'
  <2>1. Flagged' => Flagged
    BY <1>5 DEF Flagged
  <2>2. \A d \in Callers : HasRead(d)' => HasRead(d) /\ payload'[d] = payload[d]
    BY <1>0, <1>1, <1>5 DEF HasRead
  <2> QED
    BY <1>0, <1>1, <1>5, <2>1, <2>2, FlagKept
<1>6. ASSUME NEW to, NEW after, Transfer(c, after, to)
      PROVE  chip' = after /\ at'[c] = to
  BY <1>0, <1>6, NoFault
<1>7. CASE /\ at[c] \in {"prepareTx", "setTxPtr", "startTx"}
           /\ \/ Transfer(c, OpMode("standby"), "setTxPtr") \/ Transfer(c, OpMode("tx"), "waitTxDone")
              \/ Transfer(c, [chip EXCEPT !.ptr = 0], "writeFifo")
  <2>1. /\ at'[c] \in {"setTxPtr", "waitTxDone", "writeFifo"}
        /\ chip' \in {OpMode("standby"), OpMode("tx"), [chip EXCEPT !.ptr = 0]}
    BY <1>6, <1>7
  <2>2. chip'.fifo = chip.fifo /\ chip'.rxLen = chip.rxLen /\ chip'.rxAddr = chip.rxAddr /\ chip'.irq = chip.irq
    BY <1>0, <2>1 DEF OpMode, ChipStates
  <2>3. kind[c] # "Recv" /\ at[c] \notin Writing
    BY <1>7, KindOf DEF Preparing, Writing
  <2> QED
    BY <1>3, <1>4, <1>5, <2>1, <2>2, <2>3
<1>12. CASE at[c] = "writeLength" /\ Transfer(c, [chip EXCEPT !.txLen = Len(payload[c])], "clearIrq")
  <2>1. at'[c] = "clearIrq" /\ chip' = [chip EXCEPT !.txLen = Len(payload[c])]
    BY <1>6, <1>12
  <2>2. chip'.fifo = chip.fifo /\ chip'.rxLen = chip.rxLen /\ chip'.rxAddr = chip.rxAddr /\ chip'.irq = chip.irq
    BY <1>0, <2>1 DEF ChipStates
  <2>3. kind[c] # "Recv" /\ at'[c] \in Writing
    BY <1>12, <2>1, KindOf DEF Preparing, Writing
  <2> QED
    BY <1>3, <1>4, <1>5, <2>1, <2>2, <2>3
<1>8. CASE at[c] = "clearIrq" /\ Transfer(c, IrqFlagsCleared, "startTx")
  <2>1. chip'.irq = {} /\ kind[c] # "Recv"
    BY <1>0, <1>6, <1>8, KindOf DEF IrqFlagsCleared, ChipStates, Preparing
  <2>2. FlagInv'
    BY <2>1 DEF FlagInv, Flagged
  <2> QED
    BY <1>3, <1>4, <2>1, <2>2
<1>9. CASE at[c] = "enterRx" /\ Transfer(c, OpMode("rx"), "waitRxDone")
  <2>0. chip' = OpMode("rx") /\ at'[c] = "waitRxDone"
    BY <1>6, <1>9
  <2>1. /\ chip'.fifo = chip.fifo /\ chip'.rxLen = chip.rxLen /\ chip'.rxAddr = chip.rxAddr /\ chip'.irq = chip.irq
        /\ at'[c] = "waitRxDone"
    BY <1>0, <2>0 DEF OpMode, ChipStates
  <2>2. ReadInv(c)'
    BY <2>1 DEF ReadInv, ReadPlaces
  <2> QED
    BY <1>3, <1>5, <1>9, <2>1, <2>2 DEF Writing
<1>10. CASE at[c] = "setRxPtr" /\ Transfer(c, [chip EXCEPT !.ptr = addr[c]], "readFifo")
  <2>1. /\ chip'.fifo = chip.fifo /\ chip'.rxLen = chip.rxLen /\ chip'.rxAddr = chip.rxAddr /\ chip'.irq = chip.irq
        /\ chip'.ptr = addr[c] /\ at'[c] = "readFifo"
    BY <1>0, <1>6, <1>10 DEF ChipStates
  <2>2. kind[c] = "Recv" /\ payload[c] = <<>> /\ Len(<<>>) = 0 /\ Flagged /\ length[c] = chip.rxLen /\ addr[c] = chip.rxAddr
    BY <1>0, <1>10, KindOf DEF RecvPlaces, Place, ReadInv, ReadPlaces
  <2>3. chip.rxLen > 0
    <3>1. \A d \in Callers : at[d] \notin Writing
      BY <1>0, <1>10 DEF Writing
    <3>2. PICK f \in RxFrames : Stored(f)
      BY <1>0, <2>2, <3>1 DEF FlagInv
    <3> QED
      BY <3>2, BytesFacts DEF Stored, Frames
  <2>4. addr[c] \in Nat
    BY RadioAssumption DEF TypeOK
  <2>5. ReadInv(c)'
    BY <1>1, <2>1, <2>2, <2>3, <2>4 DEF ReadInv, ReadPlaces, Flagged
  <2> QED
    BY <1>3, <1>5, <1>10, <2>1, <2>5 DEF Writing
<1>11. CASE /\ at[c] \in {"firstSetting", "lastSetting", "lbtRx", "lbtRssi", "lbtStandby"}
            /\ \E to \in {"lastSetting", "ok", "lbtRssi", "lbtStandby"},
                  after \in {Setting, chip, OpMode("rx"), OpMode("standby")} : Transfer(c, after, to)
  <2>0. chip' \in {Setting, chip, OpMode("rx"), OpMode("standby")}
    BY <1>6, <1>11
  <2>1. /\ chip'.fifo = chip.fifo /\ chip'.rxLen = chip.rxLen /\ chip'.rxAddr = chip.rxAddr /\ chip'.irq = chip.irq
    BY <1>0, <2>0 DEF OpMode, Setting, ChipStates
  <2>2. at[c] \notin Writing
    BY <1>11 DEF Writing
  <2>3. kind[c] # "Recv"
    BY <1>11, KindOf DEF OtherPlaces
  <2> QED
    BY <1>3, <1>4, <1>5, <2>1, <2>2, <2>3
<1> QED
  BY AccessCases, <1>7, <1>8, <1>9, <1>10, <1>11, <1>12

LEMMA ReceivedCloseOff ==
    ASSUME OneCaller, TypeOK, CallsInv, Received, NEW c \in Callers, CloseOff(c), faults' = 0
    PROVE  Received'
<1>0. /\ ReadInv(c) /\ FlagInv /\ DeliveryInv /\ \A d \in Callers : d = c
      /\ chip \in ChipStates /\ at \in [Callers -> Locations]
  BY ChipTypes DEF TypeOK, Received, OneCaller
<1>1. UNCHANGED <<kind, payload, arrived, delivered, misread>>
  BY DEF CloseOff, localVars, recvVars
<1>2. DeliveryInv'
  BY <1>0, <1>1 DEF DeliveryInv
<1>3. at'[c] = Closing[at[c]].to /\ chip' = Closing[at[c]].after
  BY <1>0, NoFault
<1>4. /\ at[c] \in {"ackTx", "endTx", "dropFrame", "ackRx", "endRx", "stopRx", "sleep"}
      /\ at'[c] \in {"endTx", "ok", "failed", "endRx"}
      /\ at'[c] \in {"endRx", "ok"} /\ kind[c] = "Recv" => at[c] \in {"ackRx", "endRx"}
      /\ at'[c] = "endRx" => chip' = IrqFlagsCleared
      /\ chip' \in {IrqFlagsCleared, OpMode("standby"), OpMode("sleep")}
  BY <1>3, ClosingCases, KindOf DEF Preparing, OtherPlaces
<1>5. /\ chip'.fifo = chip.fifo /\ chip'.rxLen = chip.rxLen /\ chip'.rxAddr = chip.rxAddr /\ chip'.irq \in {chip.irq, {}}
      /\ chip' = IrqFlagsCleared => chip'.irq = {}
  BY <1>0, <1>4 DEF IrqFlagsCleared, OpMode, ChipStates
<1>6. ReadInv(c)'
  BY <1>0, <1>1, <1>4 DEF ReadInv, ReadPlaces, Fresh, Bytes
<1>7. FlagInv'
  <2>1. CASE chip'.irq = {}
    BY <2>1 DEF FlagInv, Flagged
  <2>2. CASE chip'.irq = chip.irq /\ chip'.irq # {}
    <3>1. at'[c] # "endRx"
      BY <1>4, <1>5, <2>2
    <3>2. HasRead(c)' => HasRead(c)
      BY <1>1, <1>3, <1>4, <1>5, <2>2, <3>1, ClosingCases DEF HasRead
    <3>3. Flagged' => Flagged
      BY <2>2 DEF Flagged
    <3>4. at[c] \notin Writing
      BY <1>4 DEF Writing
    <3> QED
      BY <1>0, <1>1, <1>5, <3>2, <3>3, <3>4, FlagKept
  <2> QED
    BY <1>5, <2>1, <2>2
<1> QED
  BY <1>0, <1>2, <1>6, <1>7 DEF Received

LEMMA ReceivedWriteFifo ==
    ASSUME OneCaller, TypeOK, CallsInv, Received, NEW c \in Callers, WriteFifo(c), faults' = 0
    PROVE  Received'
<1>0. DeliveryInv /\ at \in [Callers -> Locations]
  BY DEF TypeOK, Received
<1>1. /\ at[c] = "writeFifo" /\ at'[c] \in Writing
      /\ UNCHANGED <<kind, arrived, delivered, misread>>
  BY <1>0, NoFault DEF WriteFifo, recvVars, Writing
<1>2. kind[c] = "Send"
  BY <1>1, KindOf DEF Preparing
<1>3. ReadInv(c)' /\ FlagInv' /\ DeliveryInv'
  BY <1>0, <1>1, <1>2 DEF ReadInv, FlagInv, DeliveryInv
<1> QED
  BY <1>3 DEF Received, OneCaller

\* The place of the next byte.
LEMMA NextPlace ==
    ASSUME NEW a \in Nat, NEW k \in Nat, NEW l \in Nat, k < l
    PROVE  k + 1 \in 1..l /\ (a + (k + 1)) - 1 = a + k /\ a + (k + 1) = (a + k) + 1
  OBVIOUS

\* extractReceivedPayload takes the frame that is announced, byte by byte.
LEMMA ReceivedRead ==
    ASSUME OneCaller, TypeOK, CallsInv, Received, NEW c \in Callers,
           ReadLength(c) \/ ReadAddr(c) \/ ReadFifo(c), faults' = 0
    PROVE  Received'
<1>0. /\ ReadInv(c) /\ FlagInv /\ DeliveryInv /\ Place(c, at[c]) /\ \A d \in Callers : d = c
      /\ chip \in ChipStates /\ at \in [Callers -> Locations] /\ payload[c] \in Seq(Cells)
      /\ length[c] \in Nat /\ addr[c] \in Nat /\ FifoSize \in Nat \ {0}
  <2>1. /\ ReadInv(c) /\ FlagInv /\ DeliveryInv /\ Place(c, at[c]) /\ \A d \in Callers : d = c
        /\ chip \in ChipStates /\ at \in [Callers -> Locations]
    BY ChipTypes DEF TypeOK, CallsInv, CallInv, Received, OneCaller
  <2>2. payload[c] \in Seq(Cells) /\ length[c] \in 0..FifoSize /\ addr[c] \in 0..FifoSize - 1
    BY DEF TypeOK
  <2>3. FifoSize \in Nat \ {0}
    BY RadioAssumption
  <2>4. length[c] \in Nat /\ addr[c] \in Nat
    BY <2>2, <2>3
  <2> QED
    BY <2>1, <2>2, <2>3, <2>4
<1>1. /\ at[c] \in {"readLength", "readAddr", "readFifo"}
      /\ at'[c] \in {"readAddr", "setRxPtr", "readFifo", "ackRx"}
      /\ chip' \in {chip, [chip EXCEPT !.ptr = FifoMoved]}
      /\ UNCHANGED <<kind, arrived, delivered, misread>>
  BY <1>0, NoFault DEF ReadLength, ReadAddr, ReadFifo, recvVars
<1>2. kind[c] = "Recv" /\ Flagged
  BY <1>0, <1>1, KindOf DEF RecvPlaces, ReadInv, ReadPlaces
<1>3. chip'.fifo = chip.fifo /\ chip'.rxLen = chip.rxLen /\ chip'.rxAddr = chip.rxAddr /\ chip'.irq = chip.irq
  BY <1>0, <1>1 DEF ChipStates
<1>4. DeliveryInv'
  BY <1>0, <1>1 DEF DeliveryInv
<1>5. Flagged' /\ ~HasRead(c)'
  BY <1>1, <1>2, <1>3 DEF Flagged, HasRead
<1>6. FlagInv'
  BY <1>0, <1>1, <1>2, <1>3, <1>5, FlagKept DEF Writing
<1>7. PICK f \in RxFrames : Fresh(f) /\ Stored(f)
  BY <1>0, <1>1, <1>2 DEF FlagInv, Writing
<1>8. f \in Frames /\ Length[f] \in Nat \ {0}
  BY BytesFacts DEF Frames
<1>9. CASE ReadLength(c)
  <2>1. at[c] = "readLength" /\ at'[c] = "readAddr" /\ length'[c] = chip.rxLen
    BY <1>0, <1>9, NoFault DEF ReadLength, TypeOK
  <2>2. ReadInv(c)'
    BY <1>3, <1>5, <2>1 DEF ReadInv, ReadPlaces
  <2> QED
    BY <1>0, <1>4, <1>6, <2>2 DEF Received
<1>10. CASE ReadAddr(c)
  <2>1. at[c] = "readAddr" /\ at'[c] = "setRxPtr" /\ addr'[c] = chip.rxAddr /\ length' = length
    BY <1>0, <1>10, NoFault DEF ReadAddr, TypeOK
  <2>2. ReadInv(c)'
    BY <1>0, <1>2, <1>3, <1>5, <2>1 DEF ReadInv, ReadPlaces
  <2> QED
    BY <1>0, <1>4, <1>6, <2>2 DEF Received
<1>11. CASE ReadFifo(c)
  <2> DEFINE k == Len(payload[c])
             byte == chip.fifo[chip.ptr]
  <2>1. /\ at[c] = "readFifo" /\ at'[c] = IF k + 1 = length[c] THEN "ackRx" ELSE "readFifo"
        /\ chip' = [chip EXCEPT !.ptr = FifoMoved] /\ payload'[c] = Append(payload[c], byte)
        /\ length' = length /\ addr' = addr
    <3>1. at[c] = "readFifo" /\ Transfer(c, [chip EXCEPT !.ptr = FifoMoved], IF k + 1 = length[c] THEN "ackRx" ELSE "readFifo")
      BY <1>11 DEF ReadFifo
    <3>2. at'[c] = IF k + 1 = length[c] THEN "ackRx" ELSE "readFifo"
      BY <1>0, <3>1, NoFault
    <3>3. chip' = [chip EXCEPT !.ptr = FifoMoved]
      BY <3>1, NoFault
    <3>4. payload'[c] = Append(payload[c], byte) /\ length' = length /\ addr' = addr
      BY <1>11 DEF ReadFifo, TypeOK
    <3> QED
      BY <3>1, <3>2, <3>3, <3>4
  <2>2. /\ length[c] = Length[f] /\ addr[c] + Length[f] <= FifoSize /\ addr[c] = chip.rxAddr
        /\ k < length[c] /\ chip.ptr = addr[c] + k /\ k \in Nat
        /\ \A n \in 1..k : payload[c][n] = chip.fifo[(addr[c] + n) - 1]
        /\ \A n \in 1..Length[f] : chip.fifo[(addr[c] + n) - 1] = <<f, n>>
    <3>1. /\ length[c] = chip.rxLen /\ addr[c] = chip.rxAddr
          /\ k < length[c] /\ chip.ptr = addr[c] + k
          /\ \A n \in 1..k : payload[c][n] = chip.fifo[(addr[c] + n) - 1]
      BY <1>0, <1>2, <2>1 DEF ReadInv, ReadPlaces
    <3>2. k \in Nat
      BY <1>0, LenProperties
    <3>3. /\ length[c] = Length[f] /\ addr[c] + Length[f] <= FifoSize
          /\ \A n \in 1..Length[f] : chip.fifo[(addr[c] + n) - 1] = <<f, n>>
      BY <1>7, <3>1 DEF Stored
    <3> QED
      BY <3>1, <3>2, <3>3
  <2>3. byte \in Cells
    BY <1>0 DEF ChipStates
  <2> HIDE DEF k, byte
  <2>4. k + 1 \in 1..Length[f] /\ (addr[c] + (k + 1)) - 1 = chip.ptr /\ addr[c] + (k + 1) = chip.ptr + 1
    <3>1. k \in Nat /\ addr[c] \in Nat /\ Length[f] \in Nat /\ k < Length[f]
      BY <1>0, <1>8, <2>2
    <3> QED
      BY <2>2, <3>1, NextPlace
  <2>5. /\ Append(payload[c], byte) \in Seq(Cells) /\ Len(Append(payload[c], byte)) = k + 1
        /\ Append(payload[c], byte)[k + 1] = byte
        /\ \A n \in 1..k : Append(payload[c], byte)[n] = payload[c][n]
    BY <1>0, <2>3, AppendProperties DEF k
  <2>6. Len(payload'[c]) = k + 1 /\ \A n \in 1..k + 1 : payload'[c][n] = chip.fifo[(addr[c] + n) - 1]
    <3>1. ASSUME NEW n \in 1..k + 1 PROVE payload'[c][n] = chip.fifo[(addr[c] + n) - 1]
      <4>1. CASE n = k + 1
        BY <2>1, <2>4, <2>5, <4>1 DEF byte
      <4>2. CASE n # k + 1
        <5>1. n \in 1..k
          BY <2>2, <4>2
        <5> QED
          BY <2>1, <2>2, <2>5, <5>1
      <4> QED
        BY <4>1, <4>2
    <3> QED
      BY <2>1, <2>5, <3>1
  <2>7. CASE k + 1 = length[c]
    <3>1. payload'[c] = Bytes(f)
      <4>1. payload'[c] = [n \in 1..k + 1 |-> payload'[c][n]]
        BY <2>1, <2>5
      <4>2. \A n \in 1..k + 1 : payload'[c][n] = <<f, n>>
        BY <2>2, <2>6, <2>7
      <4> QED
        BY <2>2, <2>7, <4>1, <4>2 DEF Bytes
    <3>2. Fresh(f)' /\ at'[c] = "ackRx"
      BY <1>1, <1>7, <2>1, <2>7 DEF Fresh
    <3>3. \E g \in RxFrames : (Fresh(g) /\ payload[c] = Bytes(g))'
      BY <3>1, <3>2 DEF Bytes
    <3>4. ReadInv(c)'
      BY <3>2, <3>3 DEF ReadInv, ReadPlaces
    <3> QED
      BY <1>0, <1>4, <1>6, <3>4 DEF Received
  <2>8. CASE k + 1 # length[c]
    <3>1. at'[c] = "readFifo" /\ k + 1 < length'[c]
      BY <1>0, <2>1, <2>2, <2>8
    <3>2. chip'.ptr = addr'[c] + (k + 1)
      <4>1. chip.ptr + 1 < FifoSize /\ chip.ptr + 1 \in Nat
        BY <1>0, <1>8, <2>2, <2>8
      <4>2. FifoMoved = chip.ptr + 1
        BY <1>0, <4>1 DEF FifoMoved
      <4>3. chip'.ptr = FifoMoved
        BY <1>0, <2>1 DEF ChipStates
      <4> QED
        BY <2>1, <2>4, <4>2, <4>3
    <3>3. ReadInv(c)'
      BY <1>2, <1>3, <1>5, <2>1, <2>2, <1>7, <2>6, <3>1, <3>2 DEF ReadInv, ReadPlaces, Stored
    <3> QED
      BY <1>0, <1>4, <1>6, <3>3 DEF Received
  <2> QED
    BY <2>7, <2>8
<1> QED
  BY <1>9, <1>10, <1>11

LEMMA ReceivedWait ==
    ASSUME OneCaller, TypeOK, CallsInv, Received, NEW c \in Callers,
           WaitForTxDone(c) \/ WaitForRxDone(c) \/ PollCancelled(c), faults' = 0
    PROVE  Received'
<1>0. /\ FlagInv /\ DeliveryInv /\ \A d \in Callers : d = c
      /\ at \in [Callers -> Locations]
  BY DEF TypeOK, Received, OneCaller
<1>1. /\ at[c] \in {"waitTxDone", "waitRxDone"} /\ chip' = chip
      /\ at'[c] \in {"waitTxDone", "ackTx", "waitRxDone", "dropFrame", "readLength", "failed", "stopRx"}
      /\ at'[c] = "readLength" => Flagged
      /\ UNCHANGED <<kind, payload, length, addr, arrived, delivered, misread>>
  BY <1>0, NoFault DEF WaitForTxDone, WaitForRxDone, PollCancelled, Goto, localVars, recvVars, Flagged
<1>2. ReadInv(c)' /\ DeliveryInv'
  BY <1>0, <1>1 DEF ReadInv, ReadPlaces, DeliveryInv, Flagged
<1>3. FlagInv'
  BY <1>0, <1>1, FlagKept DEF Flagged, HasRead, Writing
<1> QED
  BY <1>0, <1>2, <1>3 DEF Received

LEMMA ReceivedReturn ==
    ASSUME OneCaller, TypeOK, CallsInv, Received, NEW c \in Callers,
           SendReturns(c) \/ RecvReturns(c) \/ CallReturns(c)
    PROVE  Received'
<1>0. /\ ReadInv(c) /\ FlagInv /\ DeliveryInv /\ \A d \in Callers : d = c
      /\ at \in [Callers -> Locations] /\ kind \in [Callers -> Kinds]
  BY DEF TypeOK, Received, OneCaller
<1>1. /\ at[c] \in {"ok", "failed"} /\ at'[c] = "idle" /\ kind'[c] = "none" /\ chip' = chip /\ arrived' = arrived
  BY <1>0 DEF SendReturns, RecvReturns, CallReturns, Leave, Goto, recvVars
<1>2. ReadInv(c)' /\ ~HasRead(c)'
  BY <1>1 DEF ReadInv, HasRead
<1>3. CASE delivered' = delivered /\ misread' = misread
  <2>1. FlagInv'
    BY <1>0, <1>1, <1>2, <1>3, FlagKept DEF Flagged, Writing
  <2> QED
    BY <1>0, <1>1, <1>2, <1>3, <2>1 DEF Received, DeliveryInv
<1>4. CASE RecvReturns(c) /\ at[c] = "ok"
  <2> DEFINE whole == {g \in RxFrames : arrived[g] = "good" /\ payload[c] = Bytes(g)}
  <2>1. /\ kind[c] = "Recv"
        /\ delivered' = [g \in RxFrames |-> IF g \in whole THEN delivered[g] + 1 ELSE delivered[g]]
        /\ misread' = (misread \/ whole = {})
    BY <1>4 DEF RecvReturns
  <2>2. PICK f \in RxFrames : Fresh(f) /\ payload[c] = Bytes(f)
    BY <1>0, <1>4, <2>1 DEF ReadInv
  <2>3. whole = {f}
    BY <2>2, BytesDiffer DEF Fresh, Frames
  <2>4. DeliveryInv'
    <3>1. misread' = FALSE
      BY <1>0, <2>1, <2>3 DEF DeliveryInv
    <3>2. \A g \in RxFrames : delivered'[g] = IF g = f THEN 1 ELSE delivered[g]
      BY <2>1, <2>2, <2>3 DEF Fresh
    <3> QED
      BY <1>0, <1>1, <2>2, <3>1, <3>2 DEF DeliveryInv, Fresh
  <2>5. FlagInv'
    <3>1. SUFFICES ASSUME Flagged PROVE FlagInv'
      BY <1>1 DEF FlagInv, Flagged
    <3>2. \A d \in Callers : at[d] \notin Writing
      BY <1>0, <1>1 DEF Writing
    <3>3. PICK g \in RxFrames : Fresh(g) /\ Stored(g) /\ \A d \in Callers : HasRead(d) => payload[d] # Bytes(g)
      BY <1>0, <3>1, <3>2 DEF FlagInv
    <3>4. payload[c] # Bytes(g)
      BY <1>4, <2>1, <3>3 DEF HasRead
    <3>5. Fresh(g)' /\ Stored(g)'
      BY <1>1, <2>1, <3>3, <3>4 DEF Fresh, Stored
    <3>6. \E h \in RxFrames : (Fresh(h) /\ Stored(h) /\ \A d \in Callers : HasRead(d) => payload[d] # Bytes(h))'
      BY <1>0, <1>2, <3>5
    <3> QED
      BY <3>6 DEF FlagInv
  <2> QED
    BY <1>0, <1>2, <2>4, <2>5 DEF Received
<1> QED
  BY <1>1, <1>3, <1>4 DEF SendReturns, RecvReturns, CallReturns, recvVars

LEMMA ReceivedCall ==
    ASSUME OneCaller, TypeOK, CallsInv, Received, NEW c \in Callers, Call(c)
    PROVE  Received'
<1>0. /\ ReadInv(c) /\ FlagInv /\ DeliveryInv /\ CallInv(c) /\ \A d \in Callers : d = c
      /\ at \in [Callers -> Locations] /\ kind \in [Callers -> Kinds]
  BY DEF TypeOK, CallsInv, Received, OneCaller
<1>1. UNCHANGED <<chip, length, addr, payload, arrived, delivered, misread>>
  BY DEF Call, Send, Recv, SetRadio, Close, PerformLBT, Cancel, recvVars
<1>2. DeliveryInv'
  BY <1>0, <1>1 DEF DeliveryInv
<1>3. \/ kind'[c] = kind[c] /\ at'[c] = at[c]
      \/ kind[c] = "none" /\ at'[c] \in {"prepareTx", "enterRx", "firstSetting", "lastSetting", "sleep", "lbtRx"}
  BY <1>0 DEF Call, Send, Recv, SetRadio, Close, PerformLBT, Cancel, Begin, Goto
<1>4. ReadInv(c)'
  BY <1>0, <1>1, <1>3 DEF ReadInv, ReadPlaces, Flagged, Fresh, Bytes
<1>5. HasRead(c)' => HasRead(c)
  BY <1>3 DEF HasRead
<1>6. at'[c] \notin Writing => at[c] \notin Writing
  BY <1>0, <1>3 DEF Writing, CallInv, Place
<1>7. FlagInv'
  BY <1>0, <1>1, <1>5, <1>6, FlagKept DEF Flagged
<1> QED
  BY <1>0, <1>2, <1>4, <1>7 DEF Received

LEMMA ReceivedTxDone ==
    ASSUME TypeOK, Received, TxDone
    PROVE  Received'
<1>1. /\ FlagInv /\ DeliveryInv /\ chip \in ChipStates
  BY ChipTypes DEF Received
<1>2. UNCHANGED <<at, kind, length, addr, payload, arrived, delivered, misread>>
  BY DEF TxDone, localVars, recvVars
<1>3. /\ chip'.fifo = chip.fifo /\ chip'.rxLen = chip.rxLen /\ chip'.rxAddr = chip.rxAddr /\ chip'.ptr = chip.ptr
      /\ chip'.irq = chip.irq \cup {"TxDone"}
  BY <1>1 DEF TxDone, ChipStates
<1>4. Flagged' <=> Flagged
  BY <1>3 DEF Flagged
<1>5. FlagInv' /\ DeliveryInv'
  BY <1>1, <1>2, <1>3, <1>4, FlagKept DEF DeliveryInv, HasRead
<1>6. ASSUME NEW c \in Callers PROVE ReadInv(c)'
  BY <1>2, <1>3, <1>4 DEF Received, ReadInv, Fresh, Bytes
<1> QED
  BY <1>5, <1>6 DEF Received

\* A frame comes in while none is being read out.
LEMMA ReceivedRxDone ==
    ASSUME TypeOK, CallsInv, Received, NEW f \in RxFrames, RxDone(f), overrun' = FALSE
    PROVE  Received'
<1>0. /\ FlagInv /\ DeliveryInv /\ chip \in ChipStates /\ arrived \in [RxFrames -> {"none", "good", "damaged"}]
  BY ChipTypes DEF Received, TypeOK
<1>1. /\ UNCHANGED <<at, kind, length, addr, payload, delivered, misread>>
      /\ arrived[f] = "none"
      /\ \A c \in Callers : at[c] \notin ReadPlaces
  BY DEF RxDone, localVars, ReadingOut, ReadPlaces
<1>2. f \in Frames /\ Length[f] \in Nat \ {0} /\ Length[f] <= FifoSize /\ FifoSize \in Nat
  BY BytesFacts DEF Frames
<1>3. PICK a \in 0..FifoSize - Length[f], sound \in BOOLEAN :
          /\ chip' = [chip EXCEPT
                 !.irq = @ \cup (IF sound THEN {"RxDone"} ELSE {"RxDone", "PayloadCrc"}),
                 !.fifo = [n \in 0..FifoSize - 1 |->
                     IF n \notin a..a + Length[f] - 1 THEN chip.fifo[n]
                     ELSE IF sound THEN Bytes(f)[n - a + 1] ELSE Noise],
                 !.rxLen = Length[f],
                 !.rxAddr = a]
          /\ arrived' = [arrived EXCEPT ![f] = IF sound THEN "good" ELSE "damaged"]
  BY DEF RxDone
<1>4. delivered[f] = 0
  BY <1>0, <1>1 DEF DeliveryInv
<1>5. \A g \in RxFrames : Fresh(g) => g # f /\ Fresh(g)'
  BY <1>0, <1>1, <1>3 DEF Fresh
<1>6. DeliveryInv'
  BY <1>0, <1>1, <1>3, <1>4 DEF DeliveryInv
<1>7. ASSUME NEW c \in Callers PROVE ReadInv(c)'
  <2>1. kind[c] = "Recv" /\ at[c] \in {"ackRx", "endRx", "ok"} =>
            \E g \in RxFrames : (Fresh(g) /\ payload[c] = Bytes(g))'
    BY <1>1, <1>5 DEF Received, ReadInv, Bytes
  <2> QED
    BY <1>1, <2>1 DEF ReadInv, ReadPlaces
<1>8. FlagInv'
  <2>1. CASE ~sound
    <3>1. "PayloadCrc" \in chip'.irq
      BY <1>0, <1>3, <2>1 DEF ChipStates
    <3> QED
      BY <3>1 DEF FlagInv, Flagged
  <2>2. CASE sound
    <3> DEFINE fifo == [n \in 0..FifoSize - 1 |->
                           IF n \notin a..a + Length[f] - 1 THEN chip.fifo[n]
                           ELSE IF sound THEN Bytes(f)[n - a + 1] ELSE Noise]
    <3>1. chip'.fifo = fifo /\ chip'.rxLen = Length[f] /\ chip'.rxAddr = a
      BY <1>0, <1>3 DEF ChipStates
    <3>2. ASSUME NEW n \in 1..Length[f] PROVE fifo[(a + n) - 1] = <<f, n>>
      <4>1. (a + n) - 1 \in 0..FifoSize - 1 /\ (a + n) - 1 \in a..a + Length[f] - 1 /\ ((a + n) - 1) - a + 1 = n
        BY <1>2
      <4>2. Bytes(f)[n] = <<f, n>>
        BY <1>2, BytesFacts
      <4> QED
        BY <2>2, <4>1, <4>2
    <3> HIDE DEF fifo
    <3>3. Stored(f)'
      BY <1>2, <3>1, <3>2 DEF Stored
    <3>4. Fresh(f)'
      BY <1>0, <1>1, <1>3, <1>4, <2>2 DEF Fresh
    <3>5. ASSUME NEW c \in Callers, HasRead(c)' PROVE payload'[c] # Bytes(f)
      <4>1. PICK g \in RxFrames : Fresh(g) /\ payload[c] = Bytes(g)
        BY <1>1, <3>5 DEF HasRead, Received, ReadInv
      <4> QED
        BY <1>1, <1>2, <1>5, <4>1, BytesDiffer DEF Frames
    <3>6. \E g \in RxFrames : (Fresh(g) /\ Stored(g) /\ \A c \in Callers : HasRead(c) => payload[c] # Bytes(g))'
      BY <3>3, <3>4, <3>5 DEF Bytes
    <3> QED
      BY <3>6 DEF FlagInv
  <2> QED
    BY <2>1, <2>2
<1> QED
  BY <1>6, <1>7, <1>8 DEF Received

LEMMA ReceivedStep == OneCaller /\ TypeOK /\ CallsInv /\ RecvInv /\ [Next]_vars => RecvInv'
<1> SUFFICES ASSUME OneCaller, TypeOK, CallsInv, RecvInv, [Next]_vars, overrun' = FALSE, faults' = 0
             PROVE  Received'
  BY DEF RecvInv
<1>1. overrun = FALSE /\ faults = 0
  <2>1. faults \in Nat /\ overrun \in BOOLEAN
    BY DEF TypeOK
  <2>2. ASSUME NEW c \in Callers, Driver(c) PROVE overrun' = overrun /\ faults = 0
    BY <2>1, <2>2, NoFault, AccessCases
       DEF Driver, AccessRegister, CloseOff, WriteFifo, ReadLength, ReadAddr, ReadFifo, WaitForTxDone, WaitForRxDone,
           PollCancelled, SendReturns, RecvReturns, CallReturns, Leave, recvVars
  <2>3. ASSUME NEW c \in Callers, Call(c) PROVE overrun' = overrun /\ faults' = faults
    BY <2>3 DEF Call, Send, Recv, SetRadio, Close, PerformLBT, Cancel, recvVars
  <2>4. CASE TxDone
    BY <2>4 DEF TxDone, recvVars
  <2>5. ASSUME NEW f \in RxFrames, RxDone(f) PROVE overrun = FALSE /\ faults = 0
    BY <2>1, <2>5 DEF RxDone
  <2>6. CASE UNCHANGED vars
    BY <2>6 DEF vars, recvVars
  <2> QED
    BY <2>2, <2>3, <2>4, <2>5, <2>6 DEF Next
<1>2. Received
  BY <1>1 DEF RecvInv
<1>3. ASSUME NEW c \in Callers, Driver(c) PROVE Received'
  BY <1>2, <1>3, ReceivedAccess, ReceivedCloseOff, ReceivedWriteFifo, ReceivedRead, ReceivedWait, ReceivedReturn DEF Driver
<1>4. ASSUME NEW c \in Callers, Call(c) PROVE Received'
  BY <1>2, <1>4, ReceivedCall
<1>5. CASE TxDone
  BY <1>2, <1>5, ReceivedTxDone
<1>6. ASSUME NEW f \in RxFrames, RxDone(f) PROVE Received'
  BY <1>2, <1>6, ReceivedRxDone
<1>7. CASE UNCHANGED vars
  BY <1>2, <1>7 DEF vars, localVars, recvVars, Received, DeliveryInv, FlagInv, Flagged, Fresh, Stored, HasRead, ReadInv, Bytes
<1> QED
  BY <1>3, <1>4, <1>5, <1>6, <1>7 DEF Next

\* While no transfer fails and no frame comes in over one that is being read,
\* Recv returns only sound frames, whole and once, however its calls and those
\* of Send are cancelled, for any frames and lengths and any FIFO, when one
\* goroutine uses the radio.
THEOREM ReceptionsWhole ==
    ASSUME OneCaller
    PROVE  Spec => []ReceivedWhole
<1>1. Init => RecvInv
  BY DEF Init, RecvInv, Received, DeliveryInv, FlagInv, Flagged, ReadInv
<1>2. TypeOK /\ CallsInv /\ RecvInv /\ [Next]_vars => RecvInv'
  BY ReceivedStep
<1>3. Spec => [](TypeOK /\ CallsInv)
  BY TypeCorrect
<1>4. Spec => [](TypeOK /\ RecvInv)
  BY <1>1, <1>2, <1>3, PTL DEF Spec
<1>5. TypeOK /\ RecvInv => ReceivedWhole
  BY DEF TypeOK, RecvInv, Received, DeliveryInv, ReceivedWhole
<1> QED
  BY <1>4, <1>5, PTL

-----------------------------------------------------------------------------
(* The channel check, which locks what its own accesses lock again *)

\* Whoever holds the mutex stands before the first access of the check.
LockInv == mu # NoCaller => mu \in Callers /\ kind[mu] = "LBT" /\ at[mu] = "lbtRx"

\* While the mutex is held nobody lets it go, the check does not get on, and
\* nobody else gets at the registers.
LockedOut ==
    mu # NoCaller => /\ mu' = mu /\ kind'[mu] = kind[mu] /\ at'[mu] = at[mu]
                     /\ chip' = chip \/ TxDone \/ \E f \in RxFrames : RxDone(f)

LEMMA LockedStep ==
    ASSUME TypeOK, LockInv, mu # NoCaller, [Next]_vars
    PROVE  LockedOut /\ mu' = mu /\ kind'[mu] = "LBT" /\ at'[mu] = "lbtRx"
<1>0. /\ mu \in Callers /\ kind[mu] = "LBT" /\ at[mu] = "lbtRx"
      /\ kind \in [Callers -> Kinds] /\ at \in [Callers -> Locations]
  BY DEF TypeOK, LockInv
<1>1. SUFFICES /\ mu' = mu /\ kind'[mu] = kind[mu] /\ at'[mu] = at[mu]
               /\ chip' = chip \/ TxDone \/ \E f \in RxFrames : RxDone(f)
  BY <1>0 DEF LockedOut
<1>2. ASSUME NEW c \in Callers, NEW to, NEW after PROVE ~Transfer(c, after, to)
  BY DEF Transfer
<1>3. ASSUME NEW c \in Callers, Driver(c)
      PROVE  mu' = mu /\ kind'[mu] = kind[mu] /\ at'[mu] = at[mu] /\ chip' = chip
  <2>1. PollCancelled(c) \/ SendReturns(c) \/ RecvReturns(c) \/ CallReturns(c)
    BY <1>2, <1>3 DEF Driver, AccessRegister, CloseOff, WriteFifo, ReadLength, ReadAddr, ReadFifo, WaitForTxDone, WaitForRxDone
  <2>2. CASE PollCancelled(c)
    BY <1>0, <2>2 DEF PollCancelled, Goto, localVars
  <2>3. CASE Leave(c)
    <3>1. c # mu
      BY <1>0, <2>3 DEF Leave
    <3> QED
      BY <1>0, <2>3, <3>1 DEF Leave, Goto
  <2> QED
    BY <2>1, <2>2, <2>3 DEF SendReturns, RecvReturns, CallReturns
<1>4. ASSUME NEW c \in Callers, Call(c)
      PROVE  mu' = mu /\ kind'[mu] = kind[mu] /\ at'[mu] = at[mu] /\ chip' = chip
  <2>1. CASE Cancel(c)
    BY <2>1 DEF Cancel
  <2>2. ASSUME NEW k, NEW l, Begin(c, k, l) PROVE kind'[mu] = kind[mu] /\ at'[mu] = at[mu]
    BY <1>0, <2>2 DEF Begin, Goto
  <2>3. mu' = mu /\ chip' = chip
    BY <1>4 DEF Call, Send, Recv, SetRadio, Close, PerformLBT, Cancel
  <2>4. CASE ~Cancel(c)
    BY <1>4, <2>2, <2>3, <2>4 DEF Call, Send, Recv, SetRadio, Close, PerformLBT
  <2> QED
    BY <2>1, <2>3, <2>4
<1>5. CASE TxDone \/ \E f \in RxFrames : RxDone(f)
  BY <1>5 DEF TxDone, RxDone, localVars
<1>6. CASE UNCHANGED vars
  BY <1>6 DEF vars, localVars
<1> QED
  BY <1>3, <1>4, <1>5, <1>6 DEF Next

LEMMA LockKept == TypeOK /\ LockInv /\ [Next]_vars => LockInv'
<1> SUFFICES ASSUME TypeOK, LockInv, [Next]_vars PROVE LockInv'
  OBVIOUS
<1>1. CASE mu # NoCaller
  BY <1>1, LockedStep DEF LockInv
<1>2. CASE mu = NoCaller
  <2>1. ASSUME NEW c \in Callers, PerformLBT(c) PROVE LockInv'
    BY <2>1 DEF PerformLBT, Begin, Goto, LockInv, TypeOK
  <2>2. ASSUME mu' = mu PROVE LockInv'
    BY <1>2, <2>2 DEF LockInv
  <2>3. ASSUME NEW c \in Callers, Driver(c) PROVE mu' = mu
    BY <1>2, <2>3 DEF Driver, AccessRegister, CloseOff, WriteFifo, ReadLength, ReadAddr, ReadFifo, WaitForTxDone,
       WaitForRxDone, PollCancelled, SendReturns, RecvReturns, CallReturns, Leave
  <2>4. ASSUME NEW c \in Callers, Call(c), ~PerformLBT(c) PROVE mu' = mu
    BY <2>4 DEF Call, Send, Recv, SetRadio, Close, Cancel
  <2>5. (TxDone \/ \E f \in RxFrames : RxDone(f)) => mu' = mu
    BY DEF TxDone, RxDone
  <2>6. UNCHANGED vars => mu' = mu
    BY DEF vars
  <2> QED
    BY <2>1, <2>2, <2>3, <2>4, <2>5, <2>6 DEF Next
<1> QED
  BY <1>1, <1>2

\* isChannelClear locks the mutex that writeRegister takes again: a channel
\* check that has the mutex never goes on, and from then on no goroutine, of any
\* number, gets at a register of the chip.
THEOREM CheckLocksOut == Spec => [][LockedOut]_vars
<1>1. Init => LockInv
  BY DEF Init, LockInv
<1>2. TypeOK /\ LockInv /\ [Next]_vars => LockInv'
  BY LockKept
<1>3. TypeOK /\ LockInv /\ [Next]_vars => [LockedOut]_vars
  BY LockedStep DEF LockedOut
<1>4. Spec => []TypeOK
  BY TypeCorrect, PTL
<1> QED
  BY <1>1, <1>2, <1>3, <1>4, PTL DEF Spec

=============================================================================
