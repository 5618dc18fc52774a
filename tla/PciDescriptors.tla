--------------------------- MODULE PciDescriptors ---------------------------
(***************************************************************************)
(* The card as the driver sees it: the transmit and receive descriptor     *)
(* engines (PciTxDesc, PciRxDesc) with one DMA channel per lane on each    *)
(* side, and the legacy-interrupt state machine of PciFrontEnd.            *)
(*                                                                         *)
(* FIFOs are sequences.  A frame is a number; the header of a frame (lane, *)
(* virtual channel, length, error bits of its descriptor) and its payload  *)
(* (the content of the DMA buffer) carry the same number as long as they   *)
(* belong together.  The DMA buffers live in host memory, which the card   *)
(* reads and writes by itself.                                             *)
(***************************************************************************)
EXTENDS Integers, Sequences, FiniteSets

CONSTANTS DMA_SIZE,    \* number of DMA lanes (8 in every build)
          TxBuffCnt,   \* DEF_TX_BUF_CNT
          RxBuffCnt,   \* DEF_RX_BUF_CNT
          MaxTx,       \* bound: frames the application sends
          MaxRx,       \* bound: frames that arrive on the links
          DoneThresh,  \* almost-full threshold of the two done FIFOs
          Faults       \* the exceptional events the environment may produce

(* "retry" is the 1 ms interrupt timer, the others are failures and early  *)
(* returns of the system calls.                                            *)
FaultKinds == {"retry", "again", "signal", "copyFrom", "copyTo", "copyCmd", "short"}

ASSUME CardAssumption ==
    /\ DMA_SIZE \in Nat \ {0}
    /\ TxBuffCnt \in Nat
    /\ RxBuffCnt \in Nat
    /\ MaxTx \in Nat
    /\ MaxRx \in Nat
    /\ DoneThresh \in Nat \ {0}
    /\ Faults \subseteq FaultKinds

Lanes    == 0 .. (DMA_SIZE - 1)
TxBufs   == 0 .. (TxBuffCnt - 1)
RxBufs   == 0 .. (RxBuffCnt - 1)
NoBuf    == -1
TxFrames == 0 .. MaxTx   \* 0: no frame yet
RxFrames == 0 .. MaxRx

VARIABLES
    txMem,      \* payload in each TX buffer (host memory)
    rxMem,      \* payload in each RX buffer (host memory)
    tFifoDin,   \* PciTxDesc: low descriptor word latched by a txWrA write
    tFifo,      \* PciTxDescFifo of each lane: descriptors to transmit
    txDma,      \* PciTxDma of each lane: the descriptor being transmitted
    txDone,     \* PciTxDesc's done FIFO
    sent,       \* what each lane put on the link
    arrived,    \* number of frames received from the links
    rxFree,     \* PciRxDesc: free-list FIFO of each lane
    rxDma,      \* PciRxDma of each lane: the buffer being filled
    rxDone,     \* PciRxDesc's done FIFO
    descData,   \* PciRxDesc: address word latched by a rxRead[0] read
    irqEnable,  \* bit 0 of the irq register
    irqState    \* state of the interrupt machine

memVars  == <<txMem, rxMem>>
txVars   == <<tFifoDin, tFifo, txDma, txDone, sent>>
rxVars   == <<arrived, rxFree, rxDma, rxDone, descData>>
irqVars  == <<irqEnable, irqState>>
cardVars == <<memVars, txVars, rxVars, irqVars>>

TxDesc   == [hdr : TxFrames, buf : TxBufs]
RxDesc   == [hdr : RxFrames, lane : Lanes, buf : RxBufs]
NoTxDesc == [hdr |-> 0, buf |-> NoBuf]
NoRxDesc == [hdr |-> 0, lane |-> 0, buf |-> NoBuf]

IrqStates == {"SI_IDLE", "SI_SET", "SI_SYNC0", "SI_SERV", "SI_CLR", "SI_SYNC1"}

CardTypeOK ==
    /\ txMem \in [TxBufs -> TxFrames]
    /\ rxMem \in [RxBufs -> RxFrames]
    /\ tFifoDin \in TxFrames
    /\ tFifo \in [Lanes -> Seq(TxDesc)]
    /\ txDma \in [Lanes -> TxDesc \cup {NoTxDesc}]
    /\ txDone \in Seq(TxBufs)
    /\ sent \in [Lanes -> Seq([hdr : TxFrames, data : TxFrames])]
    /\ arrived \in RxFrames
    /\ rxFree \in [Lanes -> Seq(RxBufs)]
    /\ rxDma \in [Lanes -> RxDesc \cup {NoRxDesc}]
    /\ rxDone \in Seq(RxDesc)
    /\ descData \in RxBufs \cup {NoBuf}
    /\ irqEnable \in BOOLEAN
    /\ irqState \in IrqStates

-----------------------------------------------------------------------------
(* The RX buffers PgpCard_Probe posts to lane l (buffer idx to idx % 8),   *)
(* in the order it posts them.                                             *)
PostedCnt(l) == (RxBuffCnt + DMA_SIZE - 1 - l) \div DMA_SIZE
PostedTo(l)  == [k \in 1 .. PostedCnt(l) |-> (k - 1) * DMA_SIZE + l]

CardInit ==
    /\ txMem = [b \in TxBufs |-> 0]
    /\ rxMem = [b \in RxBufs |-> 0]
    /\ tFifoDin = 0
    /\ tFifo = [l \in Lanes |-> << >>]
    /\ txDma = [l \in Lanes |-> NoTxDesc]
    /\ txDone = << >>
    /\ sent = [l \in Lanes |-> << >>]
    /\ arrived = 0
    /\ rxFree = [l \in Lanes |-> PostedTo(l)]
    /\ rxDma = [l \in Lanes |-> NoRxDesc]
    /\ rxDone = << >>
    /\ descData = NoBuf
    /\ irqEnable = TRUE
    /\ irqState = "SI_IDLE"

-----------------------------------------------------------------------------
(* Register accesses of the driver.                                        *)

(* txWrA[lane]: the low word is latched, whichever lane it is written for. *)
WriteTxA(hdr) == tFifoDin' = hdr

(* txWrB[lane]: the address completes the latched word, and the descriptor *)
(* goes to the FIFO of the lane that this second write names.              *)
WriteTxB(l, b) ==
    tFifo' = [tFifo EXCEPT ![l] = Append(@, [hdr |-> tFifoDin, buf |-> b])]

(* Mutant: reading the done FIFO does not pop it. *)
ReadTx_NoPop == txDone' = txDone

(* txRead: the oldest completed buffer, or no valid bit; pops the FIFO.    *)
TxReadValue == IF txDone = << >> THEN NoBuf ELSE Head(txDone)
ReadTx      == txDone' = IF txDone = << >> THEN txDone ELSE Tail(txDone)

(* rxFree[lane]: add a buffer to the lane's free list.                     *)
WriteRxFree(l, b) == rxFree' = [rxFree EXCEPT ![l] = Append(@, b)]

(* Mutant: reading the second word does not pop the done FIFO. *)
ReadRxB_NoPop == rxDone' = rxDone /\ descData' = NoBuf

(* rxRead[0]: status word of the oldest descriptor; its address is latched *)
(* for the read of rxRead[1], which pops the FIFO if the latch is valid.   *)
RxReadAValue == IF rxDone = << >> THEN NoRxDesc ELSE Head(rxDone)
ReadRxA      == descData' = RxReadAValue.buf
ReadRxB      == /\ rxDone' = IF descData = NoBuf THEN rxDone ELSE Tail(rxDone)
                /\ descData' = NoBuf

-----------------------------------------------------------------------------
(* DMA channels.  The round-robin poll of the doneReq lines is the subject *)
(* of module PciDonePoll; here any lane with a request may be served next. *)

(* Mutant: the buffer is reported as done when its transfer starts. *)
TxNew_EarlyDone(l) ==
    /\ txDma[l] = NoTxDesc
    /\ tFifo[l] # << >>
    /\ Len(txDone) < DoneThresh
    /\ txDma' = [txDma EXCEPT ![l] = Head(tFifo[l])]
    /\ txDone' = Append(txDone, Head(tFifo[l]).buf)
    /\ tFifo' = [tFifo EXCEPT ![l] = Tail(@)]
    /\ UNCHANGED <<memVars, tFifoDin, sent, rxVars, irqVars>>

(* PciTxDescFifo hands the next descriptor to an idle transmit channel.    *)
TxNew(l) ==
    /\ txDma[l] = NoTxDesc
    /\ tFifo[l] # << >>
    /\ txDma' = [txDma EXCEPT ![l] = Head(tFifo[l])]
    /\ tFifo' = [tFifo EXCEPT ![l] = Tail(@)]
    /\ UNCHANGED <<memVars, tFifoDin, txDone, sent, rxVars, irqVars>>

(* The channel has read the payload out of host memory and sent the frame; *)
(* PciTxDesc queues the buffer address as done.                            *)
TxDone(l) ==
    /\ txDma[l] # NoTxDesc
    /\ Len(txDone) < DoneThresh
    /\ sent' = [sent EXCEPT ![l] =
                   Append(@, [hdr |-> txDma[l].hdr, data |-> txMem[txDma[l].buf]])]
    /\ txDone' = Append(txDone, txDma[l].buf)
    /\ txDma' = [txDma EXCEPT ![l] = NoTxDesc]
    /\ UNCHANGED <<memVars, tFifoDin, tFifo, rxVars, irqVars>>

(* A frame arrives on a lane that has a free buffer, and is written to it. *)
RxNew(l) ==
    /\ arrived < MaxRx
    /\ rxDma[l] = NoRxDesc
    /\ rxFree[l] # << >>
    /\ arrived' = arrived + 1
    /\ rxFree' = [rxFree EXCEPT ![l] = Tail(@)]
    /\ rxDma' = [rxDma EXCEPT ![l] =
                    [hdr |-> arrived + 1, lane |-> l, buf |-> Head(rxFree[l])]]
    /\ rxMem' = [rxMem EXCEPT ![Head(rxFree[l])] = arrived + 1]
    /\ UNCHANGED <<txMem, txVars, rxDone, descData, irqVars>>

(* PciRxDesc queues the filled buffer as done. *)
RxDone(l) ==
    /\ rxDma[l] # NoRxDesc
    /\ Len(rxDone) < DoneThresh
    /\ rxDone' = Append(rxDone, rxDma[l])
    /\ rxDma' = [rxDma EXCEPT ![l] = NoRxDesc]
    /\ UNCHANGED <<memVars, txVars, arrived, rxFree, descData, irqVars>>

-----------------------------------------------------------------------------
(* Interrupt machine of PciFrontEnd.  cfg_interrupt_rdy is the PCIe core's *)
(* acknowledge of an INTx assert or deassert message.                      *)

IrqReq    == txDone # << >> \/ rxDone # << >>
IrqActive == irqState \in {"SI_SYNC0", "SI_SERV", "SI_CLR"}

IrqGoto(from, to) ==
    /\ irqState = from
    /\ irqState' = to
    /\ UNCHANGED <<memVars, txVars, rxVars, irqEnable>>

IrqSet  == IrqReq /\ irqEnable /\ IrqGoto("SI_IDLE", "SI_SET")
IrqServ == /\ ~IrqReq \/ ~irqEnable \/ "retry" \in Faults
           /\ IrqGoto("SI_SERV", "SI_CLR")
IrqAck  == \/ IrqGoto("SI_SET", "SI_SYNC0")
           \/ IrqGoto("SI_SYNC0", "SI_SERV")
           \/ IrqGoto("SI_CLR", "SI_SYNC1")
           \/ IrqGoto("SI_SYNC1", "SI_IDLE")

CardStep ==
    \/ \E l \in Lanes : TxNew(l) \/ TxDone(l) \/ RxNew(l) \/ RxDone(l)
    \/ IrqSet
    \/ IrqAck
    \/ IrqServ

CardFairness ==
    /\ \A l \in Lanes : WF_cardVars(TxNew(l)) /\ SF_cardVars(TxDone(l)) /\ SF_cardVars(RxDone(l))
    /\ WF_cardVars(IrqSet)
    /\ WF_cardVars(IrqAck)
    /\ WF_cardVars(IrqServ)
=============================================================================
