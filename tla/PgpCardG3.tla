------------------------------ MODULE PgpCardG3 ------------------------------
(***************************************************************************)
(* The data path of the Linux driver (PgpCardG3.c) on top of the card: one *)
(* thread that writes, one that reads (the way xRate uses a descriptor)    *)
(* and the interrupt handler.  The driver takes no lock, so the three      *)
(* interleave between any two accesses to shared memory or to a register.  *)
(*                                                                         *)
(* Init is the state PgpCard_Probe leaves behind.                          *)
(***************************************************************************)
EXTENDS PciDescriptors

CONSTANT WriteLanes   \* the values an application passes as pgpLane

ASSUME DriverAssumption == WriteLanes \subseteq Nat

VARIABLES
    isOpen,                    \* PgpDevice.isOpen
    txQueue, txRead, txWrite,  \* ring of TX buffers ready for PgpCard_Write
    rxQueue, rxRead, rxWrite,  \* ring of RX buffers ready for PgpCard_Read
    rxBuffer,                  \* descriptor fields the handler keeps per RX buffer
    wPc, wLane, wFrame,        \* PgpCard_Write: program counter and arguments
    rPc, rRet,                 \* PgpCard_Read: program counter and what it copied out
    isrPc, isrBuf, isrDesc,    \* PgpCard_IRQHandler: program counter, address read, descA
    submitted,                 \* history: frames handed to each lane of the card
    acked,                     \* history: frames whose Write returned the write count
    delivered,                 \* history: frames Read returned, per lane
    dropped                    \* history: frames the handler or a failed copy discarded

openVars  == isOpen
txqVars   == <<txQueue, txRead, txWrite>>
rxqVars   == <<rxQueue, rxRead, rxWrite, rxBuffer>>
wVars     == <<wPc, wLane, wFrame, submitted, acked>>
rVars     == <<rPc, rRet, delivered, dropped>>
isrVars   == <<isrPc, isrBuf, isrDesc>>
hostVars  == <<openVars, txqVars, rxqVars, wVars, rVars, isrVars>>
vars      == <<cardVars, hostVars>>

TxIndex == 0 .. (TxBuffCnt + 1)
RxIndex == 0 .. (RxBuffCnt + 1)

(* Mutants: a ring with one spare entry only. *)
TxSucc_Short(i) == (i + 1) % (TxBuffCnt + 1)
RxSucc_Short(i) == (i + 1) % (RxBuffCnt + 1)

(* Mutant: the pointer is not wrapped. *)
TxSucc_NoWrap(i) == i + 1

TxSucc(i) == (i + 1) % (TxBuffCnt + 2)
RxSucc(i) == (i + 1) % (RxBuffCnt + 2)

(* What Read copies out: descriptor fields, payload (0: copy failed),      *)
(* whether the payload was cut short, and the lengthErr flag.              *)
NoRet == [hdr |-> 0, lane |-> 0, data |-> 0, cut |-> FALSE, err |-> FALSE]
Ret   == [hdr : RxFrames, lane : Lanes, data : RxFrames, cut : BOOLEAN, err : BOOLEAN]

WPcs   == {"idle", "check", "asleep", "descA", "descB", "advance"}
RPcs   == {"idle", "check", "asleep", "cmd", "advance"}
IsrPcs == {"idle", "disable", "txStat", "txPop", "txFill", "txPublish",
           "rxStat", "rxReadA", "rxReadB", "rxFill", "rxPublish", "enable"}

TypeOK ==
    /\ CardTypeOK
    /\ isOpen \in BOOLEAN
    /\ txQueue \in [TxIndex -> TxBufs \cup {NoBuf}] /\ txRead \in TxIndex /\ txWrite \in TxIndex
    /\ rxQueue \in [RxIndex -> RxBufs \cup {NoBuf}] /\ rxRead \in RxIndex /\ rxWrite \in RxIndex
    /\ rxBuffer \in [RxBufs -> [hdr : RxFrames, lane : Lanes, lenErr : BOOLEAN]]
    /\ wPc \in WPcs /\ wLane \in Nat /\ wFrame \in TxFrames
    /\ rPc \in RPcs /\ rRet \in Ret
    /\ isrPc \in IsrPcs /\ isrDesc \in RxDesc \cup {NoRxDesc}
    /\ isrBuf \in TxBufs \cup RxBufs \cup {NoBuf}
    /\ submitted \in [Lanes -> Seq(TxFrames)]
    /\ acked \subseteq TxFrames
    /\ delivered \in [Lanes -> Seq(Ret)]
    /\ dropped \subseteq RxFrames

Init ==
    /\ CardInit
    /\ isOpen = FALSE
    /\ txQueue = [i \in TxIndex |-> IF i \in TxBufs THEN i ELSE NoBuf]
    /\ txRead = 0 /\ txWrite = TxBuffCnt
    /\ rxQueue = [i \in RxIndex |-> NoBuf]
    /\ rxRead = 0 /\ rxWrite = 0
    /\ rxBuffer = [b \in RxBufs |-> [hdr |-> 0, lane |-> 0, lenErr |-> FALSE]]
    /\ wPc = "idle" /\ wLane = 0 /\ wFrame = 0
    /\ rPc = "idle" /\ rRet = NoRet
    /\ isrPc = "idle" /\ isrBuf = NoBuf /\ isrDesc = NoRxDesc
    /\ submitted = [l \in Lanes |-> << >>]
    /\ acked = {}
    /\ delivered = [l \in Lanes |-> << >>]
    /\ dropped = {}

-----------------------------------------------------------------------------
(* PgpCard_Open, PgpCard_Release.  The kernel releases a file only when no *)
(* system call on it is in progress.  The queues are left as they are.     *)

Open ==
    /\ ~isOpen
    /\ isOpen' = TRUE
    /\ UNCHANGED <<cardVars, txqVars, rxqVars, wVars, rVars, isrVars>>

Release ==
    /\ isOpen /\ wPc = "idle" /\ rPc = "idle"
    /\ isOpen' = FALSE
    /\ UNCHANGED <<cardVars, txqVars, rxqVars, wVars, rVars, isrVars>>

-----------------------------------------------------------------------------
(* PgpCard_Write.  A frame larger than a buffer is refused before anything *)
(* changes, so only frames that fit are written.                           *)

WGoto(from, to) == wPc = from /\ wPc' = to

WriteStart(l) ==
    /\ isOpen
    /\ wFrame < MaxTx
    /\ WGoto("idle", "check")
    /\ wLane' = l
    /\ wFrame' = wFrame + 1
    /\ UNCHANGED <<cardVars, openVars, txqVars, rxqVars, submitted, acked, rVars, isrVars>>

(* Returns that leave everything unchanged: -EAGAIN on a non-blocking file *)
(* and -ERESTARTSYS on a signal, when no buffer is free; ERROR when the    *)
(* payload cannot be copied.                                               *)
WriteReturn ==
    /\ \/ "again" \in Faults /\ txRead = txWrite /\ WGoto("check", "idle")
       \/ "signal" \in Faults /\ WGoto("asleep", "idle")
       \/ "copyFrom" \in Faults /\ txRead # txWrite /\ WGoto("check", "idle")
    /\ UNCHANGED <<cardVars, openVars, txqVars, rxqVars, wLane, wFrame, submitted, acked, rVars, isrVars>>

WriteSleep ==
    /\ txRead = txWrite
    /\ WGoto("check", "asleep")
    /\ UNCHANGED <<cardVars, openVars, txqVars, rxqVars, wLane, wFrame, submitted, acked, rVars, isrVars>>

(* copy_from_user into the buffer at the read pointer. *)
WriteCopy ==
    /\ txRead # txWrite
    /\ WGoto("check", "descA")
    /\ txMem' = [txMem EXCEPT ![txQueue[txRead]] = wFrame]
    /\ UNCHANGED <<rxMem, txVars, rxVars, irqVars, openVars, txqVars, rxqVars,
                   wLane, wFrame, submitted, acked, rVars, isrVars>>

WriteDescA ==
    /\ wLane \in Lanes
    /\ WGoto("descA", "descB")
    /\ WriteTxA(wFrame)
    /\ UNCHANGED <<memVars, tFifo, txDma, txDone, sent, rxVars, irqVars, openVars, txqVars, rxqVars,
                   wLane, wFrame, submitted, acked, rVars, isrVars>>

(* An invalid lane is only logged: the buffer goes nowhere. *)
WriteBadLane ==
    /\ wLane \notin Lanes
    /\ WGoto("descA", "advance")
    /\ UNCHANGED <<cardVars, openVars, txqVars, rxqVars, wLane, wFrame, submitted, acked, rVars, isrVars>>

WriteDescB ==
    /\ WGoto("descB", "advance")
    /\ WriteTxB(wLane, txQueue[txRead])
    /\ submitted' = [submitted EXCEPT ![wLane] = Append(@, wFrame)]
    /\ UNCHANGED <<memVars, tFifoDin, txDma, txDone, sent, rxVars, irqVars, openVars, txqVars, rxqVars,
                   wLane, wFrame, acked, rVars, isrVars>>

WriteAdvance ==
    /\ WGoto("advance", "idle")
    /\ txRead' = TxSucc(txRead)
    /\ acked' = acked \cup {wFrame}
    /\ UNCHANGED <<cardVars, openVars, txQueue, txWrite, rxqVars, wLane, wFrame, submitted, rVars, isrVars>>

-----------------------------------------------------------------------------
(* PgpCard_Read.                                                           *)

RGoto(from, to) == rPc = from /\ rPc' = to

RxHead == rxQueue[rxRead]   \* the buffer at the read pointer

ReadStart ==
    /\ isOpen
    /\ RGoto("idle", "check")
    /\ UNCHANGED <<cardVars, openVars, txqVars, rxqVars, wVars, rRet, delivered, dropped, isrVars>>

(* Mutant: the command structure is copied back after the buffer is freed. *)
ReadReturn_AfterFree ==
    /\ "copyCmd" \in Faults /\ RGoto("advance", "idle")
    /\ UNCHANGED <<cardVars, openVars, txqVars, rxqVars, wVars, rRet, delivered, dropped, isrVars>>

(* -EAGAIN, -ERESTARTSYS, and the ERROR return when the command structure  *)
(* cannot be copied back: the frame stays at the head of the queue.        *)
ReadReturn ==
    /\ \/ "again" \in Faults /\ rxRead = rxWrite /\ RGoto("check", "idle")
       \/ "signal" \in Faults /\ RGoto("asleep", "idle")
       \/ "copyCmd" \in Faults /\ RGoto("cmd", "idle")
    /\ UNCHANGED <<cardVars, openVars, txqVars, rxqVars, wVars, rRet, delivered, dropped, isrVars>>

ReadSleep ==
    /\ rxRead = rxWrite
    /\ RGoto("check", "asleep")
    /\ UNCHANGED <<cardVars, openVars, txqVars, rxqVars, wVars, rRet, delivered, dropped, isrVars>>

(* Mutant: the error flag is read before the short copy sets it. *)
ReadCopy_FlagBefore ==
    /\ rxRead # rxWrite
    /\ RGoto("check", "cmd")
    /\ \E cut \in BOOLEAN, ok \in BOOLEAN :
         /\ cut => "short" \in Faults
         /\ ~ok => "copyTo" \in Faults
         /\ rxBuffer' = [rxBuffer EXCEPT ![RxHead].lenErr = @ \/ cut]
         /\ rRet' = [hdr  |-> rxBuffer[RxHead].hdr,
                     lane |-> rxBuffer[RxHead].lane,
                     data |-> IF ok THEN rxMem[RxHead] ELSE 0,
                     cut  |-> cut,
                     err  |-> rxBuffer[RxHead].lenErr]
    /\ UNCHANGED <<cardVars, openVars, txqVars, rxQueue, rxRead, rxWrite, wVars, delivered, dropped, isrVars>>

(* Copy the payload, or what fits of it, and the descriptor fields.  A     *)
(* short user buffer marks the frame; a failed payload copy yields ERROR   *)
(* (no data) and the frame is consumed all the same.                       *)
ReadCopy ==
    /\ rxRead # rxWrite
    /\ RGoto("check", "cmd")
    /\ \E cut \in BOOLEAN, ok \in BOOLEAN :
         /\ cut => "short" \in Faults
         /\ ~ok => "copyTo" \in Faults
         /\ rxBuffer' = [rxBuffer EXCEPT ![RxHead].lenErr = @ \/ cut]
         /\ rRet' = [hdr  |-> rxBuffer[RxHead].hdr,
                     lane |-> rxBuffer[RxHead].lane,
                     data |-> IF ok THEN rxMem[RxHead] ELSE 0,
                     cut  |-> cut,
                     err  |-> rxBuffer[RxHead].lenErr \/ cut]
    /\ UNCHANGED <<cardVars, openVars, txqVars, rxQueue, rxRead, rxWrite, wVars, delivered, dropped, isrVars>>

(* Mutant: every buffer is given back to lane 0. *)
ReadFree_Lane0 ==
    /\ RGoto("cmd", "advance")
    /\ WriteRxFree(0, RxHead)
    /\ UNCHANGED <<memVars, txVars, arrived, rxDma, rxDone, descData, irqVars, openVars, txqVars, rxqVars,
                   wVars, rRet, delivered, dropped, isrVars>>

(* Give the buffer back to the lane it came from. *)
ReadFree ==
    /\ RGoto("cmd", "advance")
    /\ WriteRxFree(rxBuffer[RxHead].lane, RxHead)
    /\ UNCHANGED <<memVars, txVars, arrived, rxDma, rxDone, descData, irqVars, openVars, txqVars, rxqVars,
                   wVars, rRet, delivered, dropped, isrVars>>

ReadAdvance ==
    /\ RGoto("advance", "idle")
    /\ rxRead' = RxSucc(rxRead)
    /\ rRet' = NoRet
    /\ IF rRet.data = 0
       THEN /\ dropped' = dropped \cup {rRet.hdr}
            /\ UNCHANGED delivered
       ELSE /\ delivered' = [delivered EXCEPT ![rRet.lane] = Append(@, rRet)]
            /\ UNCHANGED dropped
    /\ UNCHANGED <<cardVars, openVars, txqVars, rxQueue, rxWrite, rxBuffer, wVars, isrVars>>

-----------------------------------------------------------------------------
(* PgpCard_IRQHandler.  The line is shared: a call that reads activeFlag 0 *)
(* returns IRQ_NONE and changes nothing.  Every address the card returns   *)
(* is one of a buffer of the driver, so the search by address succeeds.    *)

IsrGoto(from, to) == isrPc = from /\ isrPc' = to

UnchangedButIsr == UNCHANGED <<openVars, txqVars, rxqVars, wVars, rVars>>

IsrEnter ==
    /\ IrqActive
    /\ IsrGoto("idle", "disable")
    /\ UNCHANGED <<cardVars, isrBuf, isrDesc>> /\ UnchangedButIsr

IsrDisable ==
    /\ IsrGoto("disable", "txStat")
    /\ irqEnable' = FALSE
    /\ UNCHANGED <<memVars, txVars, rxVars, irqState, isrBuf, isrDesc>> /\ UnchangedButIsr

IsrTxStat ==
    /\ IsrGoto("txStat", IF txDone = << >> THEN "rxStat" ELSE "txPop")
    /\ UNCHANGED <<cardVars, isrBuf, isrDesc>> /\ UnchangedButIsr

IsrTxPop ==
    /\ IsrGoto("txPop", IF TxReadValue = NoBuf THEN "rxStat" ELSE "txFill")
    /\ ReadTx
    /\ isrBuf' = TxReadValue
    /\ UNCHANGED <<memVars, tFifoDin, tFifo, txDma, sent, rxVars, irqVars, isrDesc>> /\ UnchangedButIsr

(* Mutant: a buffer that completes while the device is closed is not queued. *)
IsrTxFill_IfOpen ==
    /\ IsrGoto("txFill", IF isOpen THEN "txPublish" ELSE "txPop")
    /\ txQueue' = IF isOpen THEN [txQueue EXCEPT ![txWrite] = isrBuf] ELSE txQueue
    /\ UNCHANGED <<cardVars, openVars, txRead, txWrite, rxqVars, wVars, rVars, isrBuf, isrDesc>>

IsrTxFill ==
    /\ IsrGoto("txFill", "txPublish")
    /\ txQueue' = [txQueue EXCEPT ![txWrite] = isrBuf]
    /\ UNCHANGED <<cardVars, openVars, txRead, txWrite, rxqVars, wVars, rVars, isrBuf, isrDesc>>

(* Mutant: the sleeping writer is not woken up. *)
IsrTxPublish_NoWake ==
    /\ IsrGoto("txPublish", "txPop")
    /\ txWrite' = TxSucc(txWrite)
    /\ isrBuf' = NoBuf
    /\ UNCHANGED <<cardVars, openVars, txQueue, txRead, rxqVars, wVars, rVars, isrDesc>>

(* Advance the pointer and wake up a sleeping writer. *)
IsrTxPublish ==
    /\ IsrGoto("txPublish", "txPop")
    /\ txWrite' = TxSucc(txWrite)
    /\ wPc' = IF wPc = "asleep" THEN "check" ELSE wPc
    /\ isrBuf' = NoBuf
    /\ UNCHANGED <<cardVars, openVars, txQueue, txRead, rxqVars, wLane, wFrame, submitted, acked, rVars, isrDesc>>

IsrRxStat ==
    /\ IsrGoto("rxStat", IF rxDone = << >> THEN "enable" ELSE "rxReadA")
    /\ UNCHANGED <<cardVars, isrBuf, isrDesc>> /\ UnchangedButIsr

IsrRxReadA ==
    /\ IsrGoto("rxReadA", "rxReadB")
    /\ ReadRxA
    /\ isrDesc' = RxReadAValue
    /\ UNCHANGED <<memVars, txVars, arrived, rxFree, rxDma, rxDone, irqVars, isrBuf>> /\ UnchangedButIsr

IsrRxReadB ==
    /\ IsrGoto("rxReadB", IF descData = NoBuf THEN "enable" ELSE "rxFill")
    /\ ReadRxB
    /\ isrBuf' = descData
    /\ UNCHANGED <<memVars, txVars, arrived, rxFree, rxDma, irqVars, isrDesc>> /\ UnchangedButIsr

(* The device is open: keep the descriptor fields and queue the buffer ... *)
IsrRxFill ==
    /\ isOpen
    /\ IsrGoto("rxFill", "rxPublish")
    /\ rxBuffer' = [rxBuffer EXCEPT ![isrBuf] =
                       [hdr |-> isrDesc.hdr, lane |-> isrDesc.lane, lenErr |-> FALSE]]
    /\ rxQueue' = [rxQueue EXCEPT ![rxWrite] = isrBuf]
    /\ UNCHANGED <<cardVars, openVars, txqVars, rxRead, rxWrite, wVars, rVars, isrBuf, isrDesc>>

IsrRxPublish ==
    /\ IsrGoto("rxPublish", "rxReadA")
    /\ rxWrite' = RxSucc(rxWrite)
    /\ rPc' = IF rPc = "asleep" THEN "check" ELSE rPc
    /\ isrBuf' = NoBuf
    /\ UNCHANGED <<cardVars, openVars, txqVars, rxQueue, rxRead, rxBuffer, wVars,
                   rRet, delivered, dropped, isrDesc>>

(* Mutant: the buffer of a dropped frame is not given back. *)
IsrRxDrop_NoFree ==
    /\ ~isOpen
    /\ IsrGoto("rxFill", "rxReadA")
    /\ dropped' = dropped \cup {isrDesc.hdr}
    /\ isrBuf' = NoBuf
    /\ UNCHANGED <<cardVars, openVars, txqVars, rxqVars, wVars, rPc, rRet, delivered, isrDesc>>

(* ... it is not: the frame is dropped, its buffer returns to the lane.    *)
IsrRxDrop ==
    /\ ~isOpen
    /\ IsrGoto("rxFill", "rxReadA")
    /\ WriteRxFree(isrDesc.lane, isrBuf)
    /\ dropped' = dropped \cup {isrDesc.hdr}
    /\ isrBuf' = NoBuf
    /\ UNCHANGED <<memVars, txVars, arrived, rxDma, rxDone, descData, irqVars, openVars, txqVars, rxqVars,
                   wVars, rPc, rRet, delivered, isrDesc>>

(* Mutant: the handler leaves with interrupts disabled. *)
IsrEnable_Off ==
    /\ IsrGoto("enable", "idle")
    /\ UNCHANGED <<cardVars, isrBuf, isrDesc>> /\ UnchangedButIsr

IsrEnable ==
    /\ IsrGoto("enable", "idle")
    /\ irqEnable' = TRUE
    /\ UNCHANGED <<memVars, txVars, rxVars, irqState, isrBuf, isrDesc>> /\ UnchangedButIsr

-----------------------------------------------------------------------------
Writer  == \/ \E l \in WriteLanes : WriteStart(l)
           \/ WriteReturn \/ WriteSleep \/ WriteCopy
           \/ WriteDescA \/ WriteBadLane \/ WriteDescB \/ WriteAdvance

Reader  == ReadStart \/ ReadReturn \/ ReadSleep \/ ReadCopy \/ ReadFree \/ ReadAdvance

Handler == \/ IsrEnter \/ IsrDisable
           \/ IsrTxStat \/ IsrTxPop \/ IsrTxFill \/ IsrTxPublish
           \/ IsrRxStat \/ IsrRxReadA \/ IsrRxReadB \/ IsrRxFill \/ IsrRxDrop \/ IsrRxPublish
           \/ IsrEnable

Next == \/ CardStep /\ UNCHANGED hostVars
        \/ Open \/ Release
        \/ Writer
        \/ Reader
        \/ Handler

Spec == Init /\ [][Next]_vars

(* The card's clocked logic never stops.  A handler that was entered runs  *)
(* to its end, and the host answers a repeatedly asserted interrupt within *)
(* the 1 ms of the retry timer again and again (strong fairness).  The     *)
(* application finishes the calls it makes, reopens the device and keeps   *)
(* reading, like the read thread of xRate; it need not keep writing.       *)
Fairness ==
    /\ CardFairness
    /\ SF_vars(IsrEnter)
    /\ WF_vars(Handler)
    /\ WF_vars(Writer /\ wPc # "idle")
    /\ WF_vars(Open)
    /\ SF_vars(ReadStart)
    /\ WF_vars(Reader /\ rPc # "idle")

FairSpec == Spec /\ Fairness

-----------------------------------------------------------------------------
(* Where each buffer and each received frame is.                           *)

InTxWindow(i) == (i - txRead) % (TxBuffCnt + 2) < (txWrite - txRead) % (TxBuffCnt + 2)
InRxWindow(i) == (i - rxRead) % (RxBuffCnt + 2) < (rxWrite - rxRead) % (RxBuffCnt + 2)

(* The queue entries whose buffer the system call has not given away yet.  *)
TxLive == {i \in TxIndex : InTxWindow(i) /\ ~(wPc = "advance" /\ i = txRead)}
RxLive == {i \in RxIndex : InRxWindow(i) /\ ~(rPc = "advance" /\ i = rxRead)}

IsrHoldsTx == isrPc \in {"txFill", "txPublish"}
IsrHoldsRx == isrPc \in {"rxFill", "rxPublish"}

(* The buffers that are not queued: in the card or in the handler's hands. *)
TxOut == {b \in TxBufs :
             \/ \E l \in Lanes : \E k \in DOMAIN tFifo[l] : tFifo[l][k].buf = b
             \/ \E l \in Lanes : txDma[l].buf = b
             \/ \E k \in DOMAIN txDone : txDone[k] = b
             \/ IsrHoldsTx /\ isrBuf = b}
RxOut == {b \in RxBufs :
             \/ \E l \in Lanes : \E k \in DOMAIN rxFree[l] : rxFree[l][k] = b
             \/ \E l \in Lanes : rxDma[l].buf = b
             \/ \E k \in DOMAIN rxDone : rxDone[k].buf = b
             \/ IsrHoldsRx /\ isrBuf = b}

(* All places that hold a buffer.                                          *)
TxHolders(b) ==
    (UNION {{<<"fifo", l, k>> : k \in {j \in DOMAIN tFifo[l] : tFifo[l][j].buf = b}} : l \in Lanes})
    \cup {<<"dma", l, 0>> : l \in {m \in Lanes : txDma[m].buf = b}}
    \cup {<<"done", 0, k>> : k \in {j \in DOMAIN txDone : txDone[j] = b}}
    \cup {<<"isr", 0, 0>> : x \in {y \in {isrBuf} : IsrHoldsTx /\ y = b}}
    \cup {<<"queue", 0, i>> : i \in {j \in TxLive : txQueue[j] = b}}
RxHolders(b) ==
    (UNION {{<<"free", l, k>> : k \in {j \in DOMAIN rxFree[l] : rxFree[l][j] = b}} : l \in Lanes})
    \cup {<<"dma", l, 0>> : l \in {m \in Lanes : rxDma[m].buf = b}}
    \cup {<<"done", 0, k>> : k \in {j \in DOMAIN rxDone : rxDone[j].buf = b}}
    \cup {<<"isr", 0, 0>> : x \in {y \in {isrBuf} : IsrHoldsRx /\ y = b}}
    \cup {<<"queue", 0, i>> : i \in {j \in RxLive : rxQueue[j] = b}}

(* All places where a received frame is.                                   *)
FrameHolders(f) ==
    {<<"dma", l, 0>> : l \in {m \in Lanes : rxDma[m].hdr = f}}
    \cup {<<"done", 0, k>> : k \in {j \in DOMAIN rxDone : rxDone[j].hdr = f}}
    \cup {<<"isr", 0, 0>> : x \in {y \in {isrDesc.hdr} : IsrHoldsRx /\ y = f}}
    \cup {<<"queue", 0, i>> : i \in {j \in RxLive : rxBuffer[rxQueue[j]].hdr = f}}
    \cup {<<"read", 0, 0>> : x \in {y \in {rRet.hdr} : rPc = "advance" /\ y = f}}
    \cup (UNION {{<<"user", l, k>> : k \in {j \in DOMAIN delivered[l] : delivered[l][j].hdr = f}} : l \in Lanes})
    \cup {<<"dropped", 0, 0>> : x \in dropped \cap {f}}

AtMostOne(S) == \A p, q \in S : p = q

-----------------------------------------------------------------------------
(* No TX buffer is ever in two places: while the card may still read a     *)
(* buffer, PgpCard_Write does not get it, whatever the application passes. *)
TxExclusive == \A b \in TxBufs : AtMostOne(TxHolders(b))

(* Nor does one disappear, as long as the application names lanes the card *)
(* has: the driver never runs out of TX buffers for good.                  *)
TxConserved == \A b \in TxBufs : TxHolders(b) # {}

(* Each lane sends exactly the frames written to it, in the order of the   *)
(* Write calls, with the header and the payload of the same call, although *)
(* descriptors are written in two halves and buffers are reused.           *)
TxIntegrity ==
    \A l \in Lanes :
        /\ Len(sent[l]) <= Len(submitted[l])
        /\ \A k \in DOMAIN sent[l] :
               sent[l][k] = [hdr |-> submitted[l][k], data |-> submitted[l][k]]

(* A Write that returned the write count has handed its frame to the card  *)
(* (comment of PgpCard_Write: "Returns write count on success").           *)
AckedIsSubmitted ==
    \A f \in acked : \E l \in Lanes : \E k \in DOMAIN submitted[l] : submitted[l][k] = f

(* Every RX buffer is in exactly one place, so a frame that is being read  *)
(* is never overwritten and no lane's free list leaks.                     *)
RxConserved == \A b \in RxBufs : RxHolders(b) # {} /\ AtMostOne(RxHolders(b))

(* A buffer always returns to the free list of the lane it was posted to:  *)
(* no lane can end up with the buffers of another one and starve it.       *)
RxHomeLane == \A l \in Lanes : \A k \in DOMAIN rxFree[l] : rxFree[l][k] % DMA_SIZE = l

(* No received frame is lost or duplicated: each one is in exactly one     *)
(* stage between the link and the application (or was dropped).            *)
RxFrameOnce == \A f \in 1 .. arrived : FrameHolders(f) # {} /\ AtMostOne(FrameHolders(f))

(* What Read returns is a frame's own payload with its own header, a cut   *)
(* payload is flagged, and the frames of a lane keep their order.          *)
RxIntegrity ==
    \A l \in Lanes :
        /\ \A k \in DOMAIN delivered[l] :
              /\ delivered[l][k].data = delivered[l][k].hdr
              /\ delivered[l][k].cut => delivered[l][k].err
        /\ \A j, k \in DOMAIN delivered[l] : j < k => delivered[l][j].hdr < delivered[l][k].hdr

(* The two queues implement the abstract ring, hence never collide.        *)
TxRing == INSTANCE BufferRing WITH
    Bufs <- TxBufs, slots <- txQueue, read <- txRead, write <- txWrite,
    out <- TxOut, released <- (wPc = "advance")
RxRing == INSTANCE BufferRing WITH
    Bufs <- RxBufs, slots <- rxQueue, read <- rxRead, write <- rxWrite,
    out <- RxOut, released <- (rPc = "advance")

TxRingSpec == TxRing!Spec
RxRingSpec == RxRing!Spec

(* A writer that waits for a buffer gets one, as long as one is out, and   *)
(* not lost to a lane that does not exist: completions are never left in   *)
(* the card with the interrupt off, and the wake-up is never missed.       *)
WriterServed == wPc = "asleep" /\ TxOut # {} ~> wPc # "asleep"

(* Once frames have arrived there comes a moment at which each of them was *)
(* returned by Read, or dropped because the device was closed: a frame     *)
(* that the card accepted never waits for ever.                            *)
FrameSettled ==
    arrived > 0 ~> \A f \in 1 .. arrived :
        \/ f \in dropped
        \/ \E l \in Lanes : \E k \in DOMAIN delivered[l] : delivered[l][k].hdr = f
=============================================================================
