------------------------ MODULE PgpCardQueueProofs -------------------------
(***************************************************************************)
(* The buffer queues of the driver and the card, for any number of lanes,  *)
(* buffers and frames: txQueue and rxQueue implement the abstract ring,    *)
(* and no buffer is in two places.  The two facts need each other: the     *)
(* ring gives the writer a buffer nobody else has, and the buffers outside *)
(* the ring stay apart because only such buffers are handed to the card.   *)
(***************************************************************************)
EXTENDS PgpCardG3, FiniteSetTheorems, TLAPS

-----------------------------------------------------------------------------
(* The transmit direction.  Its facts hold whatever lanes the application  *)
(* names.  A Write to a lane the card does not have takes a buffer from    *)
(* the queue and gives it to nobody, so the buffers that are not queued    *)
(* (TxUnqueued) may be more than those somebody has (TxOut).  The          *)
(* difference, TxMissing, grows by such calls only; without them no buffer *)
(* is lost.                                                                *)

(* The buffers that are not in the queue, and those of them nobody has.    *)
TxUnqueued == {b \in TxBufs : \A i \in TxLive : txQueue[i] # b}
TxMissing  == TxUnqueued \ TxOut

TxRingT == INSTANCE BufferRingProofs WITH
    Bufs <- TxBufs, slots <- txQueue, read <- txRead, write <- txWrite,
    out <- TxUnqueued, released <- (wPc = "advance")

TxTypeOK ==
    /\ txMem \in [TxBufs -> TxFrames]
    /\ tFifoDin \in TxFrames
    /\ tFifo \in [Lanes -> Seq(TxDesc)]
    /\ txDma \in [Lanes -> TxDesc \cup {NoTxDesc}]
    /\ txDone \in Seq(TxBufs)
    /\ sent \in [Lanes -> Seq([hdr : TxFrames, data : TxFrames])]
    /\ wPc \in WPcs /\ wLane \in Nat /\ wFrame \in TxFrames
    /\ isrPc \in IsrPcs
    /\ submitted \in [Lanes -> Seq(TxFrames)]
    /\ acked \subseteq TxFrames

(* What the program counters of the writer and the handler promise. *)
TxPcOK ==
    /\ wPc \in {"descA", "descB"} => txRead # txWrite
    /\ wPc = "descB" => wLane \in Lanes
    /\ IsrHoldsTx => isrBuf \in TxBufs
    /\ isrPc = "txPublish" => txQueue[txWrite] = isrBuf

(* The places outside the ring hold different buffers. *)
FifoApart ==
    /\ \A l, m \in Lanes : \A j \in DOMAIN tFifo[l], k \in DOMAIN tFifo[m] :
           tFifo[l][j].buf = tFifo[m][k].buf => l = m /\ j = k
    /\ \A l, m \in Lanes : \A j \in DOMAIN tFifo[l] : tFifo[l][j].buf # txDma[m].buf
    /\ \A l \in Lanes : \A j \in DOMAIN tFifo[l], k \in DOMAIN txDone : tFifo[l][j].buf # txDone[k]
    /\ \A l \in Lanes : \A j \in DOMAIN tFifo[l] : IsrHoldsTx => tFifo[l][j].buf # isrBuf
DmaApart ==
    /\ \A l, m \in Lanes : txDma[l].buf = txDma[m].buf => l = m \/ txDma[l] = NoTxDesc
    /\ \A l \in Lanes : \A k \in DOMAIN txDone : txDma[l].buf # txDone[k]
    /\ \A l \in Lanes : IsrHoldsTx => txDma[l].buf # isrBuf
DoneApart ==
    /\ \A j, k \in DOMAIN txDone : txDone[j] = txDone[k] => j = k
    /\ \A k \in DOMAIN txDone : IsrHoldsTx => txDone[k] # isrBuf

(* Nobody has a buffer that is queued. *)
QueueApart == TxOut \subseteq TxUnqueued

TxInv == /\ TxTypeOK /\ TxPcOK /\ FifoApart /\ DmaApart /\ DoneApart /\ QueueApart
         /\ TxRingT!RingInv

(* The ring of the driver is an instance of the abstract ring. *)
LEMMA TxRingConstants ==
    /\ TxRingT!RingAssumption
    /\ TxRingT!Count = TxBuffCnt
    /\ TxRingT!Size = TxBuffCnt + 2
    /\ TxRingT!Index = TxIndex
    /\ TxBuffCnt \in Nat
<1>1. IsFiniteSet(TxBufs) /\ Cardinality(TxBufs) = TxBuffCnt
  BY CardAssumption, FS_Interval DEF TxBufs
<1>2. TxRingT!RingAssumption
  BY <1>1 DEF TxRingT!RingAssumption, TxBufs, NoBuf, IsFiniteSet, TxRingT!IsFiniteSet
<1>3. TxRingT!Count = Cardinality(TxBufs)
  BY Zenon DEF TxRingT!Count, Cardinality, TxRingT!Cardinality
<1> QED BY <1>1, <1>2, <1>3, CardAssumption DEF TxRingT!Size, TxRingT!Index, TxIndex

(* The live entries of the driver's ring are those of the abstract one,    *)
(* before and after a step.                                                *)
LEMMA TxLiveIsLive ==
    /\ \A i : i \in TxLive <=> i \in TxIndex /\ TxRingT!IsLive(i)
    /\ \A i : i \in TxLive' <=> i \in TxIndex /\ TxRingT!IsLive(i)'
BY TxRingConstants DEF TxLive, InTxWindow, TxRingT!IsLive, TxRingT!InUse, TxRingT!Used, TxRingT!Dist

(* The ring as it was leaves the same buffers unqueued. *)
LEMMA TxRingSame ==
    ASSUME UNCHANGED txqVars, (wPc = "advance")' = (wPc = "advance")
    PROVE  UNCHANGED TxRingT!ringVars
BY DEF txqVars, TxUnqueued, TxLive, InTxWindow, TxRingT!ringVars

(* The ring invariant survives a step that leaves the ring alone. *)
LEMMA TxRingKept ==
    ASSUME TxInv, UNCHANGED TxRingT!ringVars
    PROVE  TxRingT!RingInv'
BY TxRingT!NextInv, TxRingConstants DEF TxInv

(* The writer gives away the buffer at the read pointer. *)
LEMMA TxRingRelease ==
    ASSUME TxInv, txRead # txWrite, wPc # "advance", wPc' = "advance", UNCHANGED txqVars
    PROVE  /\ txQueue[txRead] \in TxBufs \ TxUnqueued
           /\ TxUnqueued' = TxUnqueued \cup {txQueue[txRead]}
           /\ TxRingT!Release /\ TxRingT!RingInv'
<1>0. TxRingT!RingInv /\ UNCHANGED <<txQueue, txRead, txWrite>>
  BY DEF TxInv, txqVars
<1>1. txQueue[txRead] \in TxBufs \ TxUnqueued
  BY <1>0, TxRingT!HeadLive, TxRingConstants
<1>2. /\ txRead \in TxLive
      /\ \A i : i \in TxLive' <=> i \in TxLive /\ i # txRead
  <2>1. /\ TxRingT!IsLive(txRead)
        /\ \A i \in TxIndex : TxRingT!IsLive(i)' <=> TxRingT!IsLive(i) /\ i # txRead
    BY <1>0, TxRingT!ReleaseLive, TxRingConstants
  <2>2. txRead \in TxIndex
    BY <1>0, TxRingConstants DEF TxRingT!RingInv, TxRingT!TypeOK
  <2> QED BY <2>1, <2>2, TxLiveIsLive
<1>3. \A i \in TxLive : i # txRead => txQueue[i] # txQueue[txRead]
  BY <1>0, <1>2, TxLiveIsLive, TxRingConstants DEF TxRingT!RingInv, TxRingT!NoAliasing
<1>4. TxUnqueued' = TxUnqueued \cup {txQueue[txRead]}
  BY <1>0, <1>1, <1>2, <1>3 DEF TxUnqueued
<1>5. TxRingT!Release
  BY <1>0, <1>4 DEF TxRingT!Release
<1>6. TxRingT!RingInv'
  BY <1>0, <1>5, TxRingT!NextInv, TxRingConstants DEF TxRingT!Next
<1> QED BY <1>1, <1>4, <1>5, <1>6

(* The writer advances its pointer. *)
LEMMA TxRingAdvance ==
    ASSUME TxInv, wPc = "advance", wPc' # "advance", txRead' = TxSucc(txRead), UNCHANGED <<txQueue, txWrite>>
    PROVE  TxUnqueued' = TxUnqueued /\ TxRingT!Advance /\ TxRingT!RingInv'
<1>0. TxRingT!RingInv /\ txRead' = TxRingT!Succ(txRead)
  BY TxRingConstants DEF TxInv, TxSucc, TxRingT!Succ
<1>1. \A i : i \in TxLive' <=> i \in TxLive
  <2>1. \A i \in TxIndex : TxRingT!IsLive(i)' <=> TxRingT!IsLive(i)
    BY <1>0, TxRingT!AdvanceLive, TxRingConstants
  <2> QED BY <2>1, TxLiveIsLive
<1>2. TxUnqueued' = TxUnqueued
  BY <1>1 DEF TxUnqueued
<1>3. TxRingT!Advance
  BY <1>0, <1>2 DEF TxRingT!Advance
<1>4. TxRingT!RingInv'
  BY <1>0, <1>3, TxRingT!NextInv, TxRingConstants DEF TxRingT!Next
<1> QED BY <1>2, <1>3, <1>4

(* The handler stores a buffer of its own behind the queue. *)
LEMMA TxRingFill ==
    ASSUME TxInv, NEW b \in TxUnqueued, txQueue' = [txQueue EXCEPT ![txWrite] = b],
           UNCHANGED <<txRead, txWrite, wPc>>
    PROVE  TxUnqueued' = TxUnqueued /\ TxRingT!Fill(b) /\ TxRingT!RingInv'
<1>0. TxRingT!RingInv /\ b \in TxBufs
  BY DEF TxInv, TxUnqueued
<1>1. /\ \A i : i \in TxLive' <=> i \in TxLive
      /\ \A i \in TxLive : txQueue'[i] = txQueue[i]
  <2>1. \A i \in TxIndex : /\ TxRingT!IsLive(i)' <=> TxRingT!IsLive(i)
                           /\ TxRingT!IsLive(i) => txQueue'[i] = txQueue[i]
    BY <1>0, TxRingT!FillLive, TxRingConstants
  <2> QED BY <2>1, TxLiveIsLive
<1>2. TxUnqueued' = TxUnqueued
  BY <1>1 DEF TxUnqueued
<1>3. TxRingT!Fill(b)
  BY <1>2 DEF TxRingT!Fill
<1>4. TxRingT!RingInv'
  BY <1>0, <1>3, TxRingT!NextInv, TxRingConstants DEF TxRingT!Next
<1> QED BY <1>2, <1>3, <1>4

(* The handler advances its pointer. *)
LEMMA TxRingPublish ==
    ASSUME TxInv, txQueue[txWrite] \in TxUnqueued, txWrite' = TxSucc(txWrite),
           UNCHANGED <<txQueue, txRead>>, (wPc = "advance")' = (wPc = "advance")
    PROVE  /\ TxUnqueued' = TxUnqueued \ {txQueue[txWrite]}
           /\ TxRingT!Publish /\ TxRingT!RingInv'
<1>0. /\ TxRingT!RingInv /\ txWrite' = TxRingT!Succ(txWrite) /\ txWrite \in TxIndex
  BY TxRingConstants DEF TxInv, TxSucc, TxRingT!Succ, TxRingT!RingInv, TxRingT!TypeOK
<1>1. \A i : i \in TxLive' <=> i \in TxLive \/ i = txWrite
  <2>1. \A i \in TxIndex : TxRingT!IsLive(i)' <=> TxRingT!IsLive(i) \/ i = txWrite
    BY <1>0, TxRingT!PublishLive, TxRingConstants
  <2> QED BY <1>0, <2>1, TxLiveIsLive
<1>2. TxUnqueued' = TxUnqueued \ {txQueue[txWrite]}
  BY <1>1 DEF TxUnqueued
<1>3. TxRingT!Publish
  BY <1>0, <1>2 DEF TxRingT!Publish
<1>4. TxRingT!RingInv'
  BY <1>0, <1>3, TxRingT!NextInv, TxRingConstants DEF TxRingT!Next
<1> QED BY <1>2, <1>3, <1>4

(* What the sequence operators of the FIFOs do to the entries. *)
LEMMA TailEntries ==
    ASSUME NEW S, NEW s \in Seq(S), s # << >>
    PROVE  /\ Tail(s) \in Seq(S)
           /\ Head(s) = s[1] /\ 1 \in DOMAIN s /\ s[1] \in S
           /\ \A k \in DOMAIN Tail(s) : k + 1 \in DOMAIN s /\ k \in Nat /\ k >= 1 /\ Tail(s)[k] = s[k + 1]
           /\ \A k \in DOMAIN s : k = 1 \/ (k - 1 \in DOMAIN Tail(s) /\ Tail(s)[k - 1] = s[k])
OBVIOUS

(* The entries of a longer sequence, as facts for the provers. *)
LEMMA AppendEntries ==
    ASSUME NEW S, NEW s \in Seq(S), NEW e \in S
    PROVE  /\ Append(s, e) \in Seq(S)
           /\ \A k \in DOMAIN s : k \in DOMAIN Append(s, e) /\ Append(s, e)[k] = s[k]
           /\ Len(s) + 1 \in DOMAIN Append(s, e) /\ Append(s, e)[Len(s) + 1] = e
           /\ Len(s) + 1 \notin DOMAIN s
           /\ \A k \in DOMAIN Append(s, e) : k \in DOMAIN s \/ k = Len(s) + 1
OBVIOUS

(* A step that does not move a TX buffer keeps the invariant. *)
TxQuiet ==
    /\ UNCHANGED <<tFifo, txDma, txDone, txQueue, txRead, txWrite>>
    /\ (wPc = "advance")' = (wPc = "advance")
    /\ \/ UNCHANGED <<isrPc, isrBuf>>
       \/ ~IsrHoldsTx /\ ~IsrHoldsTx'

(* A step that moves no TX buffer keeps TxInv, provided that the writer's *)
(* program counter keeps its promise.                                     *)
LEMMA QuietStep ==
    ASSUME TxInv, TxQuiet, TxTypeOK',
           wPc' \in {"descA", "descB"} => txRead # txWrite,
           wPc' = "descB" => wLane' \in Lanes
    PROVE  TxInv' /\ UNCHANGED TxRingT!ringVars /\ TxMissing' \subseteq TxMissing
<1>1. TxOut' = TxOut
  BY DEF TxQuiet, TxOut, IsrHoldsTx
<1>2. UNCHANGED TxRingT!ringVars /\ TxUnqueued' = TxUnqueued
  BY TxRingSame DEF TxQuiet, TxRingT!ringVars, txqVars
<1>3. TxRingT!RingInv'
  BY <1>2, TxRingKept
<1>4. FifoApart' /\ DmaApart' /\ DoneApart' /\ QueueApart'
  BY <1>1, <1>2 DEF TxInv, TxQuiet, FifoApart, DmaApart, DoneApart, QueueApart, IsrHoldsTx
<1>5. TxPcOK'
  BY DEF TxInv, TxPcOK, TxQuiet, IsrHoldsTx
<1> QED BY <1>1, <1>2, <1>3, <1>4, <1>5 DEF TxInv, TxMissing

(* Remainder of a number below the divisor. *)
LEMMA SmallRemainder ==
    ASSUME NEW n \in Nat, NEW x \in 0 .. (n + 2 - 1)
    PROVE  x % (n + 2) = x
OBVIOUS

(* The transmit invariant holds initially. *)
LEMMA TxInitInv == Init => TxInv /\ TxRingT!Init /\ TxMissing = {}
<1> SUFFICES ASSUME Init PROVE TxInv /\ TxRingT!Init /\ TxMissing = {}
  OBVIOUS
<1> USE DEF Init, CardInit
<1>1. TxTypeOK
  <2>1. 0 \in TxFrames /\ 0 \in Lanes
    BY CardAssumption DEF TxFrames, Lanes
  <2> QED BY <2>1 DEF TxTypeOK, WPcs, IsrPcs
<1>2. TxPcOK /\ ~IsrHoldsTx
  BY DEF TxPcOK, IsrHoldsTx
<1>3. FifoApart /\ DmaApart /\ DoneApart
  BY <1>2 DEF FifoApart, DmaApart, DoneApart
<1>4. TxOut = {}
  BY <1>2 DEF TxOut, NoTxDesc, TxBufs, NoBuf
<1>s. TxUnqueued = {}
  <2>1. ASSUME NEW b \in TxBufs PROVE \E i \in TxLive : txQueue[i] = b
    <3>1. /\ b \in TxIndex /\ b < TxBuffCnt /\ b - 0 = b
          /\ TxBuffCnt \in 0 .. (TxBuffCnt + 2 - 1) /\ b \in 0 .. (TxBuffCnt + 2 - 1) /\ TxBuffCnt - 0 = TxBuffCnt
      BY TxRingConstants DEF TxBufs, TxIndex
    <3>m. b % (TxBuffCnt + 2) = b /\ TxBuffCnt % (TxBuffCnt + 2) = TxBuffCnt
      BY <3>1, TxRingConstants, SmallRemainder
    <3>2. InTxWindow(b) /\ wPc = "idle"
      BY <3>1, <3>m DEF InTxWindow
    <3>3. b \in TxLive /\ txQueue[b] = b
      BY <3>1, <3>2 DEF TxLive
    <3> QED BY <3>3
  <2> QED BY <2>1 DEF TxUnqueued
<1>5. TxRingT!Init
  BY <1>s, TxRingConstants DEF TxRingT!Init, TxRingT!InitFull, TxIndex, TxBufs, NoBuf
<1>6. TxRingT!RingInv
  BY <1>5, TxRingT!InitInv, TxRingConstants
<1> QED BY <1>s, <1>1, <1>2, <1>3, <1>4, <1>5, <1>6 DEF TxInv, QueueApart, TxMissing

(* The writer hands the buffer at the read pointer to the card. *)
LEMMA DescBStep ==
    ASSUME TxInv, WriteDescB
    PROVE  TxInv' /\ TxRingT!Release /\ TxMissing' \subseteq TxMissing
<1> DEFINE b == txQueue[txRead]
           e == [hdr |-> tFifoDin, buf |-> b]
<1>0. TxTypeOK /\ wPc = "descB" /\ wPc' = "advance" /\ txRead # txWrite /\ wLane \in Lanes
  BY DEF TxInv, TxTypeOK, TxPcOK, WriteDescB, WGoto
<1>r. /\ b \in TxBufs \ TxUnqueued /\ TxUnqueued' = TxUnqueued \cup {b}
      /\ TxRingT!Release /\ TxRingT!RingInv'
  BY <1>0, TxRingRelease DEF WriteDescB
<1>1. b \in TxBufs \ TxOut
  BY <1>r DEF TxInv, QueueApart
<1>2. /\ e \in TxDesc /\ tFifo[wLane] \in Seq(TxDesc)
      /\ tFifo' = [tFifo EXCEPT ![wLane] = Append(tFifo[wLane], e)]
  BY <1>0, <1>1 DEF TxTypeOK, TxDesc, WriteDescB, WriteTxB
<1>3. TxTypeOK'
  <2>1. Append(tFifo[wLane], e) \in Seq(TxDesc)
    BY <1>2, AppendEntries
  <2>2. submitted' \in [Lanes -> Seq(TxFrames)]
    BY <1>0 DEF TxTypeOK, WriteDescB
  <2> QED BY <1>0, <1>2, <2>1, <2>2
          DEF TxTypeOK, WriteDescB, memVars, isrVars, WPcs
<1>4. ASSUME NEW l \in Lanes, NEW k \in DOMAIN tFifo'[l]
      PROVE  \/ k \in DOMAIN tFifo[l] /\ tFifo'[l][k] = tFifo[l][k]
             \/ l = wLane /\ k = Len(tFifo[wLane]) + 1 /\ tFifo'[l][k] = e
  BY <1>0, <1>2, AppendEntries DEF TxTypeOK
<1>5. ASSUME NEW l \in Lanes, NEW k \in DOMAIN tFifo[l]
      PROVE  k \in DOMAIN tFifo'[l] /\ tFifo'[l][k] = tFifo[l][k]
  BY <1>0, <1>2, AppendEntries DEF TxTypeOK
<1>6. \E k \in DOMAIN tFifo'[wLane] : tFifo'[wLane][k].buf = b
  <2>1. tFifo'[wLane] = Append(tFifo[wLane], e)
    BY <1>0, <1>2 DEF TxTypeOK
  <2>2. e.buf = b
    OBVIOUS
  <2> QED BY <1>2, <2>1, <2>2, AppendEntries
<1>7. UNCHANGED <<txDma, txDone, isrPc, isrBuf>> /\ e.buf = b
  BY DEF WriteDescB, isrVars
<1>8. TxOut' = TxOut \cup {b}
  BY <1>0, <1>1, <1>4, <1>5, <1>6, <1>7 DEF TxOut, IsrHoldsTx
<1>9. QueueApart' /\ TxMissing' \subseteq TxMissing
  BY <1>r, <1>8 DEF TxInv, QueueApart, TxMissing
<1>10. FifoApart'
  BY <1>1, <1>4, <1>7 DEF TxInv, FifoApart, TxOut, IsrHoldsTx
<1>11. DmaApart' /\ DoneApart'
  BY <1>7 DEF TxInv, DmaApart, DoneApart, IsrHoldsTx
<1>12. TxPcOK'
  BY <1>0, <1>7 DEF TxInv, TxPcOK, WriteDescB, txqVars, IsrHoldsTx
<1> QED BY <1>r, <1>3, <1>9, <1>10, <1>11, <1>12 DEF TxInv

(* The driver keeps nothing of a Write to a lane the card does not have:   *)
(* the buffer leaves the queue, and nobody gets it.                        *)
LEMMA BadLaneStep ==
    ASSUME TxInv, WriteBadLane
    PROVE  TxInv' /\ TxRingT!Release
<1>0. /\ TxTypeOK /\ wPc = "descA" /\ wPc' = "advance" /\ txRead # txWrite
      /\ UNCHANGED <<txMem, tFifoDin, tFifo, txDma, txDone, sent>>
      /\ UNCHANGED <<txqVars, txQueue, txRead, txWrite, wLane, wFrame, isrPc, isrBuf, submitted, acked>>
  BY DEF TxInv, TxPcOK, WriteBadLane, WGoto, cardVars, memVars, txVars, txqVars, isrVars
<1>1. /\ TxUnqueued' = TxUnqueued \cup {txQueue[txRead]}
      /\ TxRingT!Release /\ TxRingT!RingInv'
  BY <1>0, TxRingRelease
<1>2. TxOut' = TxOut
  BY <1>0 DEF TxOut, IsrHoldsTx
<1>3. TxTypeOK'
  BY <1>0 DEF TxTypeOK, WPcs
<1>4. FifoApart' /\ DmaApart' /\ DoneApart' /\ QueueApart' /\ TxPcOK'
  BY <1>0, <1>1, <1>2 DEF TxInv, FifoApart, DmaApart, DoneApart, QueueApart, TxPcOK, IsrHoldsTx
<1> QED BY <1>1, <1>3, <1>4 DEF TxInv

(* The writer advances its pointer. *)
LEMMA AdvanceStep ==
    ASSUME TxInv, WriteAdvance
    PROVE  TxInv' /\ TxRingT!Advance /\ TxMissing' \subseteq TxMissing
<1>0. wPc = "advance" /\ wPc' = "idle" /\ TxTypeOK
  BY DEF WriteAdvance, WGoto, TxInv
<1>1. UNCHANGED <<cardVars, txQueue, txWrite, isrPc, isrBuf>>
  BY DEF WriteAdvance, isrVars
<1>2. TxOut' = TxOut
  BY <1>1 DEF TxOut, IsrHoldsTx, cardVars, txVars
<1>3. TxUnqueued' = TxUnqueued /\ TxRingT!Advance /\ TxRingT!RingInv'
  BY <1>0, <1>1, TxRingAdvance DEF WriteAdvance
<1>5. TxTypeOK'
  BY <1>0, <1>1 DEF TxTypeOK, WriteAdvance, WPcs, cardVars, txVars, memVars
<1>6. FifoApart' /\ DmaApart' /\ DoneApart' /\ QueueApart' /\ TxPcOK'
  BY <1>0, <1>1, <1>2, <1>3
  DEF TxInv, FifoApart, DmaApart, DoneApart, QueueApart, TxPcOK, IsrHoldsTx, cardVars, txVars
<1> QED BY <1>2, <1>3, <1>5, <1>6 DEF TxInv, TxMissing

(* The card starts to transmit the oldest descriptor of a lane. *)
LEMMA TxNewStep ==
    ASSUME TxInv, NEW l \in Lanes, TxNew(l), UNCHANGED hostVars
    PROVE  TxInv' /\ UNCHANGED TxRingT!ringVars /\ TxMissing' \subseteq TxMissing
<1>0. TxTypeOK /\ tFifo[l] \in Seq(TxDesc) /\ tFifo[l] # << >>
  BY DEF TxInv, TxTypeOK, TxNew
<1>1. /\ UNCHANGED <<txMem, tFifoDin, txDone, sent>>
      /\ UNCHANGED <<txQueue, txRead, txWrite, wPc, wLane, wFrame, isrPc, isrBuf, submitted, acked>>
  BY DEF TxNew, memVars, hostVars, txqVars, wVars, isrVars
<1>2. /\ tFifo' = [tFifo EXCEPT ![l] = Tail(tFifo[l])]
      /\ txDma' = [txDma EXCEPT ![l] = tFifo[l][1]]
      /\ 1 \in DOMAIN tFifo[l] /\ tFifo[l][1] \in TxDesc
      /\ Tail(tFifo[l]) \in Seq(TxDesc)
  BY <1>0, TailEntries DEF TxNew
<1>3. TxTypeOK'
  BY <1>0, <1>1, <1>2 DEF TxTypeOK
<1>4. \A m \in Lanes : txDma'[m] = IF m = l THEN tFifo[l][1] ELSE txDma[m]
  BY <1>0, <1>2 DEF TxTypeOK
<1>5. ASSUME NEW m \in Lanes, NEW k \in DOMAIN tFifo'[m]
      PROVE  \/ m # l /\ k \in DOMAIN tFifo[m] /\ tFifo'[m][k] = tFifo[m][k]
             \/ m = l /\ k \in Nat /\ k >= 1 /\ k + 1 \in DOMAIN tFifo[l] /\ tFifo'[m][k] = tFifo[l][k + 1]
  BY <1>0, <1>2, TailEntries DEF TxTypeOK
<1>6. ASSUME NEW m \in Lanes, NEW k \in DOMAIN tFifo[m]
      PROVE  \/ m = l /\ k = 1
             \/ \E i \in DOMAIN tFifo'[m] : tFifo'[m][i] = tFifo[m][k]
  <2>1. tFifo'[m] = IF m = l THEN Tail(tFifo[l]) ELSE tFifo[m]
    BY <1>0, <1>2 DEF TxTypeOK
  <2>2. CASE m = l /\ k # 1
    <3>1. k - 1 \in DOMAIN Tail(tFifo[l]) /\ Tail(tFifo[l])[k - 1] = tFifo[l][k]
      BY <1>0, <2>2, TailEntries
    <3> QED BY <2>1, <2>2, <3>1
  <2> QED BY <2>1, <2>2
<1>7. TxOut' = TxOut
  <2>1. ASSUME NEW b \in TxBufs, b \in TxOut PROVE b \in TxOut'
    <3>1. CASE \E m \in Lanes : \E k \in DOMAIN tFifo[m] : tFifo[m][k].buf = b
      <4>1. PICK m \in Lanes : \E k \in DOMAIN tFifo[m] : tFifo[m][k].buf = b
        BY <3>1
      <4>2. PICK k \in DOMAIN tFifo[m] : tFifo[m][k].buf = b
        BY <4>1
      <4> QED BY <1>4, <1>6, <4>2 DEF TxOut
    <3>2. CASE \E m \in Lanes : txDma[m].buf = b
      BY <1>4, <3>2 DEF TxOut, TxNew, NoTxDesc, TxBufs, NoBuf
    <3> QED BY <1>1, <2>1, <3>1, <3>2 DEF TxOut, IsrHoldsTx
  <2>2. ASSUME NEW b \in TxBufs, b \in TxOut' PROVE b \in TxOut
    <3>1. CASE \E m \in Lanes : \E k \in DOMAIN tFifo'[m] : tFifo'[m][k].buf = b
      BY <1>5, <3>1 DEF TxOut
    <3>2. CASE \E m \in Lanes : txDma'[m].buf = b
      BY <1>2, <1>4, <3>2 DEF TxOut
    <3> QED BY <1>1, <2>2, <3>1, <3>2 DEF TxOut, IsrHoldsTx
  <2> QED BY <2>1, <2>2 DEF TxOut
<1>8. FifoApart'
  <2>1. \A m, n \in Lanes : \A j \in DOMAIN tFifo'[m], k \in DOMAIN tFifo'[n] :
           tFifo'[m][j].buf = tFifo'[n][k].buf => m = n /\ j = k
    BY <1>5 DEF TxInv, FifoApart
  <2>2. \A m, n \in Lanes : \A j \in DOMAIN tFifo'[m] : tFifo'[m][j].buf # txDma'[n].buf
    <3> SUFFICES ASSUME NEW m \in Lanes, NEW n \in Lanes, NEW j \in DOMAIN tFifo'[m]
                 PROVE  tFifo'[m][j].buf # txDma'[n].buf
      OBVIOUS
    <3>1. PICK i \in DOMAIN tFifo[m] : tFifo'[m][j] = tFifo[m][i] /\ (m = l => i # 1)
      BY <1>5
    <3>2. CASE n = l
      BY <1>2, <1>4, <3>1, <3>2 DEF TxInv, FifoApart
    <3>3. CASE n # l
      BY <1>4, <3>1, <3>3 DEF TxInv, FifoApart
    <3> QED BY <3>2, <3>3
  <2> QED BY <1>1, <1>5, <2>1, <2>2 DEF TxInv, FifoApart, IsrHoldsTx
<1>9. DmaApart'
  BY <1>1, <1>2, <1>4 DEF TxInv, FifoApart, DmaApart, IsrHoldsTx
<1>10. DoneApart' /\ TxPcOK'
  BY <1>1 DEF TxInv, DoneApart, TxPcOK, IsrHoldsTx
<1>11. UNCHANGED TxRingT!ringVars /\ TxUnqueued' = TxUnqueued
  BY <1>1, TxRingSame DEF TxRingT!ringVars, txqVars
<1>12. TxRingT!RingInv' /\ QueueApart' /\ TxMissing' = TxMissing
  BY <1>7, <1>11, TxRingKept DEF TxInv, QueueApart, TxMissing
<1> QED BY <1>3, <1>8, <1>9, <1>10, <1>11, <1>12 DEF TxInv

(* The card has sent a frame and reports its buffer as done. *)
LEMMA TxDoneStep ==
    ASSUME TxInv, NEW l \in Lanes, TxDone(l), UNCHANGED hostVars
    PROVE  TxInv' /\ UNCHANGED TxRingT!ringVars /\ TxMissing' \subseteq TxMissing
<1> DEFINE b == txDma[l].buf
<1>0. TxTypeOK /\ txDma[l] \in TxDesc /\ b \in TxBufs
  <2>1. txDma[l] \in TxDesc
    BY DEF TxInv, TxTypeOK, TxDone
  <2> QED BY <2>1 DEF TxInv, TxDesc
<1>1. /\ UNCHANGED <<txMem, tFifoDin, tFifo>>
      /\ UNCHANGED <<txQueue, txRead, txWrite, wPc, wLane, wFrame, isrPc, isrBuf, submitted, acked>>
      /\ txDone' = Append(txDone, b)
      /\ txDma' = [txDma EXCEPT ![l] = NoTxDesc]
  BY DEF TxDone, memVars, hostVars, txqVars, wVars, isrVars
<1>2. sent' \in [Lanes -> Seq([hdr : TxFrames, data : TxFrames])]
  <2> DEFINE S == [hdr : TxFrames, data : TxFrames]
             e == [hdr |-> txDma[l].hdr, data |-> txMem[b]]
  <2>1. e \in S
    BY <1>0 DEF TxTypeOK, TxDesc
  <2>2. sent \in [Lanes -> Seq(S)] /\ sent' = [sent EXCEPT ![l] = Append(sent[l], e)]
    BY <1>0 DEF TxTypeOK, TxDone
  <2> HIDE DEF S, e
  <2>3. Append(sent[l], e) \in Seq(S)
    BY <2>1, <2>2, AppendEntries
  <2>4. sent' \in [Lanes -> Seq(S)]
    BY <2>2, <2>3
  <2> QED BY <2>4 DEF S
<1>3. TxTypeOK'
  <2>1. txDone' \in Seq(TxBufs)
    BY <1>0, <1>1, AppendEntries DEF TxTypeOK
  <2> QED BY <1>0, <1>1, <1>2, <2>1 DEF TxTypeOK
<1>4. \A m \in Lanes : txDma'[m] = IF m = l THEN NoTxDesc ELSE txDma[m]
  BY <1>0, <1>1 DEF TxTypeOK
<1>5. /\ \A k \in DOMAIN txDone' : \/ k \in DOMAIN txDone /\ txDone'[k] = txDone[k]
                                   \/ k = Len(txDone) + 1 /\ txDone'[k] = b
      /\ \A k \in DOMAIN txDone : k \in DOMAIN txDone' /\ txDone'[k] = txDone[k]
      /\ Len(txDone) + 1 \in DOMAIN txDone' /\ txDone'[Len(txDone) + 1] = b
      /\ Len(txDone) + 1 \notin DOMAIN txDone
  <2>1. txDone \in Seq(TxBufs) /\ txDone' = Append(txDone, b) /\ b \in TxBufs
    BY <1>0, <1>1 DEF TxTypeOK
  <2> DEFINE s == Append(txDone, b)
  <2> HIDE DEF b
  <2>2. /\ \A k \in DOMAIN s : k \in DOMAIN txDone \/ k = Len(txDone) + 1
        /\ Len(txDone) + 1 \notin DOMAIN txDone
    BY <2>1, AppendEntries
  <2>3. /\ \A k \in DOMAIN txDone : k \in DOMAIN s /\ s[k] = txDone[k]
        /\ Len(txDone) + 1 \in DOMAIN s /\ s[Len(txDone) + 1] = b
    BY <2>1, AppendEntries
  <2>4. txDone' = s
    BY <2>1
  <2> HIDE DEF s
  <2> QED BY <2>2, <2>3, <2>4
<1>6. TxOut' = TxOut
  <2>1. ASSUME NEW c \in TxBufs, c \in TxOut PROVE c \in TxOut'
    BY <1>1, <1>4, <1>5, <2>1 DEF TxOut, IsrHoldsTx
  <2>2. ASSUME NEW c \in TxBufs, c \in TxOut' PROVE c \in TxOut
    BY <1>1, <1>4, <1>5, <2>2 DEF TxOut, IsrHoldsTx, NoTxDesc, TxBufs, NoBuf
  <2> QED BY <2>1, <2>2 DEF TxOut
<1>7. NoTxDesc.buf \notin TxBufs
  BY DEF NoTxDesc, NoBuf, TxBufs
<1>8. FifoApart'
  <2>1. \A m \in Lanes : \A j \in DOMAIN tFifo[m] : tFifo[m][j].buf \in TxBufs
    <3>1. \A m \in Lanes : \A j \in DOMAIN tFifo[m] : tFifo[m][j] \in TxDesc
      BY <1>0 DEF TxTypeOK
    <3> QED BY <3>1 DEF TxDesc
  <2> QED BY <1>0, <1>1, <1>4, <1>5, <1>7, <2>1 DEF TxInv, FifoApart, IsrHoldsTx
<1>9. DmaApart'
  <2>1. \A k \in DOMAIN txDone' : txDone'[k] \in TxBufs
    BY <1>3 DEF TxTypeOK
  <2>2. IsrHoldsTx => isrBuf \in TxBufs
    BY DEF TxInv, TxPcOK
  <2>3. \A m, n \in Lanes : txDma'[m].buf = txDma'[n].buf => m = n \/ txDma'[m] = NoTxDesc
    <3>1. \A m \in Lanes : txDma[m].buf \in TxBufs \/ txDma[m] = NoTxDesc
      BY <1>0 DEF TxTypeOK, TxDesc
    <3> QED BY <1>4, <1>7, <3>1 DEF TxInv, DmaApart
  <2>4. \A m \in Lanes : \A k \in DOMAIN txDone' : txDma'[m].buf # txDone'[k]
    BY <1>0, <1>4, <1>5, <1>7, <2>1 DEF TxInv, DmaApart
  <2>5. \A m \in Lanes : IsrHoldsTx' => txDma'[m].buf # isrBuf'
    BY <1>1, <1>4, <1>7, <2>2 DEF TxInv, DmaApart, IsrHoldsTx
  <2> QED BY <2>3, <2>4, <2>5 DEF DmaApart
<1>10. DoneApart'
  BY <1>0, <1>1, <1>5 DEF TxInv, DmaApart, DoneApart, IsrHoldsTx
<1>11. TxPcOK'
  BY <1>1 DEF TxInv, TxPcOK, IsrHoldsTx
<1>12. UNCHANGED TxRingT!ringVars /\ TxUnqueued' = TxUnqueued
  BY <1>1, TxRingSame DEF TxRingT!ringVars, txqVars
<1>13. TxRingT!RingInv' /\ QueueApart' /\ TxMissing' = TxMissing
  BY <1>6, <1>12, TxRingKept DEF TxInv, QueueApart, TxMissing
<1> QED BY <1>3, <1>8, <1>9, <1>10, <1>11, <1>12, <1>13 DEF TxInv

(* The handler takes the oldest completion out of the done FIFO. *)
LEMMA TxPopStep ==
    ASSUME TxInv, IsrTxPop
    PROVE  TxInv' /\ UNCHANGED TxRingT!ringVars /\ TxMissing' \subseteq TxMissing
<1>0. /\ TxTypeOK /\ isrPc = "txPop" /\ ~IsrHoldsTx
      /\ UNCHANGED <<txMem, tFifoDin, tFifo, txDma, sent>>
      /\ UNCHANGED <<txQueue, txRead, txWrite, wPc, wLane, wFrame, submitted, acked>>
  BY DEF TxInv, IsrTxPop, IsrGoto, IsrHoldsTx, UnchangedButIsr, memVars, txqVars, wVars
<1>1. CASE txDone = << >>
  <2>1. isrPc' = "rxStat" /\ txDone' = txDone
    BY <1>1 DEF IsrTxPop, IsrGoto, TxReadValue, ReadTx
  <2>2. TxTypeOK'
    BY <1>0, <2>1 DEF TxTypeOK, IsrPcs
  <2>3. TxQuiet
    BY <1>0, <2>1 DEF TxQuiet, IsrHoldsTx
  <2> QED BY <1>0, <2>2, <2>3, QuietStep DEF TxInv, TxPcOK
<1>2. CASE txDone # << >>
  <2> DEFINE b == txDone[1]
  <2>1. /\ b \in TxBufs /\ 1 \in DOMAIN txDone
        /\ Head(txDone) = b /\ Tail(txDone) \in Seq(TxBufs)
    BY <1>0, <1>2, TailEntries DEF TxTypeOK
  <2>2. b # NoBuf
    BY <2>1 DEF TxBufs, NoBuf
  <2>3. isrPc' = "txFill" /\ txDone' = Tail(txDone) /\ isrBuf' = b /\ IsrHoldsTx'
    BY <1>2, <2>1, <2>2 DEF IsrTxPop, IsrGoto, TxReadValue, ReadTx, IsrHoldsTx
  <2>4. TxTypeOK'
    BY <1>0, <2>1, <2>3 DEF TxTypeOK, IsrPcs
  <2>5. /\ \A k \in DOMAIN txDone' : /\ k \in Nat /\ k >= 1 /\ k + 1 \in DOMAIN txDone
                                     /\ txDone'[k] = txDone[k + 1]
        /\ \A k \in DOMAIN txDone : k = 1 \/ \E i \in DOMAIN txDone' : txDone'[i] = txDone[k]
    BY <1>0, <1>2, <2>3, TailEntries DEF TxTypeOK
  <2>6. TxOut' = TxOut
    <3>1. ASSUME NEW c \in TxBufs, c \in TxOut PROVE c \in TxOut'
      BY <1>0, <2>3, <2>5, <3>1 DEF TxOut
    <3>2. ASSUME NEW c \in TxBufs, c \in TxOut' PROVE c \in TxOut
      BY <1>0, <2>1, <2>3, <2>5, <3>2 DEF TxOut
    <3> QED BY <3>1, <3>2 DEF TxOut
  <2>7. FifoApart' /\ DmaApart'
    BY <1>0, <2>1, <2>3, <2>5 DEF TxInv, FifoApart, DmaApart
  <2>8. DoneApart'
    BY <2>1, <2>3, <2>5 DEF TxInv, DoneApart
  <2>9. TxPcOK'
    BY <1>0, <2>1, <2>3 DEF TxInv, TxPcOK
  <2>10. UNCHANGED TxRingT!ringVars /\ TxUnqueued' = TxUnqueued
    BY <1>0, TxRingSame DEF TxRingT!ringVars, txqVars
  <2>11. TxRingT!RingInv' /\ QueueApart' /\ TxMissing' = TxMissing
    BY <2>6, <2>10, TxRingKept DEF TxInv, QueueApart, TxMissing
  <2> QED BY <2>4, <2>7, <2>8, <2>9, <2>10, <2>11 DEF TxInv
<1> QED BY <1>1, <1>2

(* The handler stores the buffer in the entry at the write pointer. *)
LEMMA FillStep ==
    ASSUME TxInv, IsrTxFill
    PROVE  TxInv' /\ (\E b \in TxBufs : TxRingT!Fill(b)) /\ TxMissing' \subseteq TxMissing
<1>0. /\ TxTypeOK /\ isrPc = "txFill" /\ isrPc' = "txPublish" /\ isrBuf \in TxBufs
      /\ IsrHoldsTx /\ IsrHoldsTx' /\ isrBuf' = isrBuf
      /\ UNCHANGED <<txMem, tFifoDin, tFifo, txDma, txDone, sent>>
      /\ UNCHANGED <<txRead, txWrite, wPc, wLane, wFrame, submitted, acked>>
      /\ txQueue' = [txQueue EXCEPT ![txWrite] = isrBuf]
  BY DEF TxInv, TxPcOK, IsrTxFill, IsrGoto, IsrHoldsTx, cardVars, memVars, txVars, wVars
<1>1. TxOut' = TxOut /\ isrBuf \in TxOut
  BY <1>0 DEF TxOut
<1>2. isrBuf \in TxUnqueued
  BY <1>1 DEF TxInv, QueueApart
<1>3. TxUnqueued' = TxUnqueued /\ TxRingT!Fill(isrBuf) /\ TxRingT!RingInv'
  BY <1>0, <1>2, TxRingFill
<1>4. TxTypeOK'
  BY <1>0 DEF TxTypeOK, IsrPcs
<1>5. FifoApart' /\ DmaApart' /\ DoneApart' /\ QueueApart'
  BY <1>0, <1>1, <1>3 DEF TxInv, FifoApart, DmaApart, DoneApart, QueueApart
<1>6. TxPcOK'
  <2>1. txWrite \in DOMAIN txQueue
    BY TxRingConstants DEF TxInv, TxRingT!RingInv, TxRingT!TypeOK
  <2> QED BY <1>0, <2>1 DEF TxInv, TxPcOK
<1> QED BY <1>0, <1>1, <1>3, <1>4, <1>5, <1>6 DEF TxInv, TxMissing

(* The handler advances the write pointer and wakes the writer up. *)
LEMMA PublishStep ==
    ASSUME TxInv, IsrTxPublish
    PROVE  TxInv' /\ TxRingT!Publish /\ TxMissing' \subseteq TxMissing
<1>0. /\ TxTypeOK /\ isrPc = "txPublish" /\ isrPc' = "txPop" /\ isrBuf \in TxBufs
      /\ IsrHoldsTx /\ ~IsrHoldsTx' /\ txQueue[txWrite] = isrBuf
      /\ UNCHANGED <<txMem, tFifoDin, tFifo, txDma, txDone, sent>>
      /\ UNCHANGED <<txQueue, txRead, wLane, wFrame, submitted, acked>>
      /\ wPc' = IF wPc = "asleep" THEN "check" ELSE wPc
  BY DEF TxInv, TxPcOK, IsrTxPublish, IsrGoto, IsrHoldsTx, cardVars, memVars, txVars, wVars
<1>1. TxOut' = TxOut \ {isrBuf} /\ isrBuf \in TxOut
  BY <1>0 DEF TxOut, TxInv, FifoApart, DmaApart, DoneApart
<1>2. isrBuf \in TxUnqueued
  BY <1>1 DEF TxInv, QueueApart
<1>3. TxUnqueued' = TxUnqueued \ {isrBuf} /\ TxRingT!Publish /\ TxRingT!RingInv'
  BY <1>0, <1>2, TxRingPublish DEF IsrTxPublish
<1>4. TxTypeOK'
  BY <1>0 DEF TxTypeOK, IsrPcs, WPcs
<1>5. FifoApart' /\ DmaApart' /\ DoneApart' /\ QueueApart'
  BY <1>0, <1>1, <1>3 DEF TxInv, FifoApart, DmaApart, DoneApart, QueueApart
<1>6. txRead # txWrite'
  BY <1>2, <1>3, TxRingT!InvNoCollision, TxRingConstants DEF TxInv, TxRingT!NoCollision, TxRingT!Publish
<1>7. TxPcOK'
  BY <1>0, <1>6 DEF TxInv, TxPcOK
<1> QED BY <1>1, <1>3, <1>4, <1>5, <1>7 DEF TxInv, TxMissing

(* The steps of the writer that move no buffer. *)
LEMMA WriterQuiet ==
    ASSUME TxInv,
           (\E l \in WriteLanes : WriteStart(l)) \/ WriteReturn \/ WriteSleep \/ WriteCopy \/ WriteDescA
    PROVE  TxInv' /\ UNCHANGED TxRingT!ringVars /\ TxMissing' \subseteq TxMissing
<1>0. TxTypeOK /\ TxPcOK
  BY DEF TxInv
<1>1. ASSUME NEW l \in WriteLanes, WriteStart(l)
      PROVE  TxInv' /\ UNCHANGED TxRingT!ringVars /\ TxMissing' \subseteq TxMissing
  <2>1. wFrame' \in TxFrames /\ wLane' \in Nat
    BY <1>0, <1>1, CardAssumption, DriverAssumption DEF WriteStart, TxTypeOK, TxFrames
  <2>2. TxTypeOK'
    BY <1>0, <1>1, <2>1 DEF TxTypeOK, WriteStart, WGoto, WPcs, cardVars, memVars, txVars, isrVars
  <2>3. TxQuiet
    BY <1>1 DEF TxQuiet, WriteStart, WGoto, cardVars, txVars, txqVars, isrVars
  <2> QED BY <1>1, <2>2, <2>3, QuietStep DEF WriteStart, WGoto
<1>2. CASE WriteReturn
  <2>1. TxTypeOK'
    BY <1>0, <1>2 DEF TxTypeOK, WriteReturn, WGoto, WPcs, cardVars, memVars, txVars, isrVars
  <2>2. TxQuiet
    BY <1>2 DEF TxQuiet, WriteReturn, WGoto, cardVars, txVars, txqVars, isrVars
  <2> QED BY <1>2, <2>1, <2>2, QuietStep DEF WriteReturn, WGoto
<1>3. CASE WriteSleep
  <2>1. TxTypeOK'
    BY <1>0, <1>3 DEF TxTypeOK, WriteSleep, WGoto, WPcs, cardVars, memVars, txVars, isrVars
  <2>2. TxQuiet
    BY <1>3 DEF TxQuiet, WriteSleep, WGoto, cardVars, txVars, txqVars, isrVars
  <2> QED BY <1>3, <2>1, <2>2, QuietStep DEF WriteSleep, WGoto
<1>4. CASE WriteCopy
  <2>1. TxTypeOK'
    BY <1>0, <1>4 DEF TxTypeOK, WriteCopy, WGoto, WPcs, txVars, isrVars
  <2>2. TxQuiet
    BY <1>4 DEF TxQuiet, WriteCopy, WGoto, txVars, txqVars, isrVars
  <2> QED BY <1>4, <2>1, <2>2, QuietStep DEF WriteCopy, WGoto
<1>5. CASE WriteDescA
  <2>1. TxTypeOK'
    BY <1>0, <1>5 DEF TxTypeOK, WriteDescA, WriteTxA, WGoto, WPcs, memVars, isrVars
  <2>2. TxQuiet
    BY <1>5 DEF TxQuiet, WriteDescA, WGoto, txqVars, isrVars
  <2> QED BY <1>0, <1>5, <2>1, <2>2, QuietStep DEF WriteDescA, WGoto, TxPcOK
<1> QED BY <1>1, <1>2, <1>3, <1>4, <1>5

(* Steps of the reader, of the receive side and of the interrupt machine.  *)
OtherStep ==
    \/ (\E l \in Lanes : RxNew(l) \/ RxDone(l)) /\ UNCHANGED hostVars
    \/ (IrqSet \/ IrqAck \/ IrqServ) /\ UNCHANGED hostVars
    \/ Open \/ Release \/ Reader
    \/ IsrEnter \/ IsrDisable \/ IsrTxStat \/ IsrRxStat \/ IsrRxReadA \/ IsrRxReadB
    \/ IsrRxFill \/ IsrRxDrop \/ IsrRxPublish \/ IsrEnable

(* They touch neither the transmit side of the card nor the TX queue.      *)
LEMMA OtherLeaves ==
    ASSUME OtherStep
    PROVE  UNCHANGED <<txMem, txVars, txqVars, wVars>>
<1>1. CASE (\E l \in Lanes : RxNew(l) \/ RxDone(l)) /\ UNCHANGED hostVars
  BY <1>1 DEF RxNew, RxDone, hostVars, memVars
<1>2. CASE (IrqSet \/ IrqAck \/ IrqServ) /\ UNCHANGED hostVars
  BY <1>2 DEF IrqSet, IrqAck, IrqServ, IrqGoto, hostVars, memVars
<1>3. CASE Open \/ Release
  BY <1>3 DEF Open, Release, cardVars, memVars
<1>4. CASE Reader
  BY <1>4 DEF Reader, ReadStart, ReadReturn, ReadSleep, ReadCopy, ReadFree, ReadAdvance,
              cardVars, memVars
<1>5. CASE IsrEnter \/ IsrDisable \/ IsrTxStat \/ IsrEnable
  BY <1>5 DEF IsrEnter, IsrDisable, IsrTxStat, IsrEnable, UnchangedButIsr, cardVars, memVars
<1>6. CASE IsrRxStat \/ IsrRxReadA \/ IsrRxReadB \/ IsrRxFill \/ IsrRxDrop \/ IsrRxPublish
  BY <1>6 DEF IsrRxStat, IsrRxReadA, IsrRxReadB, IsrRxFill, IsrRxDrop, IsrRxPublish,
              UnchangedButIsr, cardVars, memVars
<1> QED BY <1>1, <1>2, <1>3, <1>4, <1>5, <1>6 DEF OtherStep

(* Hence they keep the transmit invariant. *)
LEMMA OtherQuiet ==
    ASSUME TxInv, OtherStep
    PROVE  TxInv' /\ UNCHANGED TxRingT!ringVars /\ TxMissing' \subseteq TxMissing
<1>0. TxTypeOK /\ TxPcOK
  BY DEF TxInv
<1>1. UNCHANGED <<txMem, txVars, txqVars, wVars>>
  BY OtherLeaves
<1>2. isrPc' \in IsrPcs /\ (UNCHANGED <<isrPc, isrBuf>> \/ (~IsrHoldsTx /\ ~IsrHoldsTx'))
  <2>0. isrPc \in IsrPcs
    BY <1>0 DEF TxTypeOK
  <2>1. CASE UNCHANGED isrVars
    <3>1. isrPc' = isrPc /\ isrBuf' = isrBuf
      BY <2>1 DEF isrVars
    <3> QED BY <2>0, <3>1
  <2>2. CASE IsrEnter \/ IsrDisable \/ IsrTxStat \/ IsrEnable
    BY <2>2 DEF IsrEnter, IsrDisable, IsrTxStat, IsrEnable, IsrGoto, IsrHoldsTx, IsrPcs
  <2>3. CASE IsrRxStat \/ IsrRxReadA \/ IsrRxReadB \/ IsrRxFill \/ IsrRxDrop \/ IsrRxPublish
    BY <2>3 DEF IsrRxStat, IsrRxReadA, IsrRxReadB, IsrRxFill, IsrRxDrop, IsrRxPublish,
                IsrGoto, IsrHoldsTx, IsrPcs
  <2> QED BY <2>1, <2>2, <2>3 DEF OtherStep, hostVars, Open, Release, Reader, ReadStart, ReadReturn,
             ReadSleep, ReadCopy, ReadFree, ReadAdvance
<1>3. TxTypeOK'
  BY <1>0, <1>1, <1>2 DEF TxTypeOK, txVars, wVars
<1>4. TxQuiet
  BY <1>1, <1>2 DEF TxQuiet, txVars, txqVars, wVars
<1> QED BY <1>0, <1>1, <1>3, <1>4, QuietStep DEF TxPcOK, wVars, txqVars

(* Every step preserves the invariant and is a step of the abstract ring.  *)
LEMMA TxNextInv ==
    ASSUME TxInv, [Next]_vars
    PROVE  TxInv' /\ [TxRingT!Next]_TxRingT!ringVars /\ (WriteBadLane \/ TxMissing' \subseteq TxMissing)
<1>1. CASE WriteDescB
  BY <1>1, DescBStep DEF TxRingT!Next
<1>2. CASE WriteAdvance
  BY <1>2, AdvanceStep DEF TxRingT!Next
<1>3. CASE IsrTxFill
  BY <1>3, FillStep DEF TxRingT!Next
<1>4. CASE IsrTxPublish
  BY <1>4, PublishStep DEF TxRingT!Next
<1>5. CASE IsrTxPop
  BY <1>5, TxPopStep
<1>6. CASE CardStep /\ UNCHANGED hostVars
  BY <1>6, TxNewStep, TxDoneStep, OtherQuiet DEF CardStep, OtherStep
<1>7. CASE WriteBadLane
  BY <1>7, BadLaneStep DEF TxRingT!Next
<1>8. CASE (\E l \in WriteLanes : WriteStart(l)) \/ WriteReturn \/ WriteSleep \/ WriteCopy \/ WriteDescA
  BY <1>8, WriterQuiet
<1>9. CASE OtherStep
  BY <1>9, OtherQuiet
<1>10. CASE UNCHANGED vars
  <2>1. UNCHANGED <<cardVars, txqVars, wVars, isrVars>>
    BY <1>10 DEF vars, hostVars
  <2>2. TxTypeOK'
    BY <2>1 DEF TxInv, TxTypeOK, cardVars, memVars, txVars, wVars, isrVars
  <2>3. TxQuiet
    BY <2>1 DEF TxQuiet, cardVars, txVars, txqVars, wVars, isrVars
  <2> QED BY <2>1, <2>2, <2>3, QuietStep DEF TxInv, TxPcOK, wVars, txqVars
<1> QED BY <1>1, <1>2, <1>3, <1>4, <1>5, <1>6, <1>7, <1>8, <1>9, <1>10 DEF Next, Writer, Handler, OtherStep

(* The invariant holds in every reachable state. *)
THEOREM TxSafe == Spec => []TxInv
<1>1. Init => TxInv
  BY TxInitInv
<1>2. TxInv /\ [Next]_vars => TxInv'
  BY TxNextInv
<1> QED BY <1>1, <1>2, PTL DEF Spec

(* txQueue with its two pointers behaves like the abstract ring, whatever  *)
(* the interleaving of PgpCard_Write, the handler and the card, and        *)
(* whatever lanes the application names.                                   *)
THEOREM TxQueueIsRing == Spec => TxRingT!Spec
<1>1. Init => TxRingT!Init
  BY TxInitInv
<1>2. TxInv /\ [Next]_vars => [TxRingT!Next]_TxRingT!ringVars
  BY TxNextInv
<1> QED BY <1>1, <1>2, TxSafe, PTL DEF Spec, TxRingT!Spec

(* The lane of a Write is one of those the application names. *)
LEMMA TxLaneKept ==
    ASSUME [Next]_vars
    PROVE  wLane' \in WriteLanes \/ wLane' = wLane
<1>1. CASE \E l \in WriteLanes : WriteStart(l)
  BY <1>1 DEF WriteStart
<1>2. CASE WriteReturn \/ WriteSleep \/ WriteCopy \/ WriteDescA \/ WriteBadLane \/ WriteDescB \/ WriteAdvance
  BY <1>2 DEF WriteReturn, WriteSleep, WriteCopy, WriteDescA, WriteBadLane, WriteDescB, WriteAdvance
<1>3. CASE IsrTxPop \/ IsrTxFill \/ IsrTxPublish
  BY <1>3 DEF IsrTxPop, IsrTxFill, IsrTxPublish, UnchangedButIsr, wVars
<1>4. CASE OtherStep
  BY <1>4, OtherLeaves DEF wVars
<1>5. CASE CardStep /\ UNCHANGED hostVars
  BY <1>5 DEF hostVars, wVars
<1>6. CASE UNCHANGED vars
  BY <1>6 DEF vars, hostVars, wVars
<1> QED BY <1>1, <1>2, <1>3, <1>4, <1>5, <1>6 DEF Next, Writer, Handler, OtherStep

(* As long as the application names lanes the card has, every buffer that  *)
(* is not queued is in the card or in the handler's hands.                 *)
LEMMA TxNothingMissing ==
    ASSUME WriteLanes \subseteq Lanes
    PROVE  Spec => [](TxMissing = {})
<1>1. Init => wLane \in Lanes /\ TxMissing = {}
  BY TxInitInv, CardAssumption DEF Init, Lanes
<1>2. TxInv /\ (wLane \in Lanes /\ TxMissing = {}) /\ [Next]_vars => (wLane \in Lanes /\ TxMissing = {})'
  BY TxNextInv, TxLaneKept DEF WriteBadLane
<1> QED BY <1>1, <1>2, TxSafe, PTL DEF Spec

(* For such an application the ring accounts for every buffer: what is not *)
(* in txQueue is in one of the places that TxOut names.                    *)
THEOREM TxRefinesRing ==
    ASSUME WriteLanes \subseteq Lanes
    PROVE  Spec => TxRingSpec
<1> DEFINE All == TxInv /\ TxMissing = {}
<1>1. All => TxUnqueued = TxOut
  BY DEF TxInv, QueueApart, TxMissing
<1>2. All' => TxUnqueued' = TxOut'
  BY DEF TxInv, QueueApart, TxMissing
<1>3. All /\ TxRingT!Init => TxRing!Init
  BY <1>1 DEF TxRing!Init, TxRingT!Init, TxRing!InitFull, TxRingT!InitFull, TxRing!InitEmpty, TxRingT!InitEmpty,
              TxRing!Index, TxRingT!Index, TxRing!Size, TxRingT!Size, TxRing!Count, TxRingT!Count,
              TxRing!Cardinality, TxRingT!Cardinality
<1>4. ASSUME All, All', [TxRingT!Next]_TxRingT!ringVars
      PROVE  [TxRing!Next]_TxRing!ringVars
  <2>1. TxUnqueued = TxOut /\ TxUnqueued' = TxOut'
    BY <1>1, <1>2, <1>4
  <2> HIDE DEF All
  <2> QED BY <1>4, <2>1
       DEF TxRing!Next, TxRingT!Next, TxRing!ringVars, TxRingT!ringVars,
           TxRing!Fill, TxRingT!Fill, TxRing!Publish, TxRingT!Publish,
           TxRing!Release, TxRingT!Release, TxRing!Advance, TxRingT!Advance,
           TxRing!Succ, TxRingT!Succ, TxRing!Size, TxRingT!Size,
           TxRing!Count, TxRingT!Count, TxRing!Cardinality, TxRingT!Cardinality
<1>5. Spec => []All
  BY TxSafe, TxNothingMissing, PTL
<1> HIDE DEF All
<1>6. Spec => TxRing!Spec
  BY <1>3, <1>4, <1>5, TxQueueIsRing, PTL DEF TxRingT!Spec, TxRing!Spec
<1> QED BY <1>6 DEF TxRingSpec

(* No TX buffer is in two places. *)
LEMMA InvTxExclusive ==
    ASSUME TxInv
    PROVE  TxExclusive
<1> SUFFICES ASSUME NEW b \in TxBufs, NEW p \in TxHolders(b), NEW q \in TxHolders(b)
             PROVE  p = q
  BY DEF TxExclusive, AtMostOne
<1> DEFINE F(x) == \E l \in Lanes : \E k \in DOMAIN tFifo[l] : tFifo[l][k].buf = b /\ x = <<"fifo", l, k>>
           D(x) == \E l \in Lanes : txDma[l].buf = b /\ x = <<"dma", l, 0>>
           E(x) == \E k \in DOMAIN txDone : txDone[k] = b /\ x = <<"done", 0, k>>
           I(x) == IsrHoldsTx /\ isrBuf = b /\ x = <<"isr", 0, 0>>
           Q(x) == \E i \in TxLive : txQueue[i] = b /\ x = <<"queue", 0, i>>
<1>1. \A x \in TxHolders(b) : F(x) \/ D(x) \/ E(x) \/ I(x) \/ Q(x)
  <2> SUFFICES ASSUME NEW x \in TxHolders(b)
               PROVE  F(x) \/ D(x) \/ E(x) \/ I(x) \/ Q(x)
    OBVIOUS
  <2>1. CASE x \in UNION {{<<"fifo", l, k>> : k \in {j \in DOMAIN tFifo[l] : tFifo[l][j].buf = b}} : l \in Lanes}
    BY <2>1
  <2>2. CASE x \in {<<"dma", l, 0>> : l \in {m \in Lanes : txDma[m].buf = b}}
    BY <2>2
  <2>3. CASE x \in {<<"done", 0, k>> : k \in {j \in DOMAIN txDone : txDone[j] = b}}
    BY <2>3
  <2>4. CASE x \in {<<"isr", 0, 0>> : z \in {y \in {isrBuf} : IsrHoldsTx /\ y = b}}
    BY <2>4
  <2>5. CASE x \in {<<"queue", 0, i>> : i \in {j \in TxLive : txQueue[j] = b}}
    BY <2>5
  <2> QED BY <2>1, <2>2, <2>3, <2>4, <2>5 DEF TxHolders
<1>2. \A x : F(x) \/ D(x) \/ E(x) \/ I(x) => b \in TxOut
  BY DEF TxOut
<1>3. \A x : Q(x) => b \notin TxOut
  BY DEF TxInv, QueueApart, TxUnqueued
<1>4. ASSUME Q(p), Q(q) PROVE p = q
  BY <1>4, TxLiveIsLive, TxRingConstants DEF TxInv, TxRingT!RingInv, TxRingT!NoAliasing
<1>5. b # NoBuf
  BY DEF TxBufs, NoBuf
<1>6. ASSUME F(p) PROVE q = p \/ Q(q)
  BY <1>1, <1>6 DEF TxInv, FifoApart
<1>7. ASSUME F(q) PROVE q = p \/ Q(p)
  BY <1>1, <1>7 DEF TxInv, FifoApart
<1>8. ASSUME D(p) PROVE ~E(q) /\ ~I(q) /\ (D(q) => p = q)
  BY <1>5, <1>8 DEF TxInv, DmaApart, NoTxDesc
<1>9. ASSUME D(q) PROVE ~E(p) /\ ~I(p)
  BY <1>9 DEF TxInv, DmaApart
<1>10. ASSUME E(p) PROVE ~I(q) /\ (E(q) => p = q)
  BY <1>10 DEF TxInv, DoneApart
<1>11. ASSUME E(q) PROVE ~I(p)
  BY <1>11 DEF TxInv, DoneApart
<1>12. F(p) \/ D(p) \/ E(p) \/ I(p) \/ Q(p)
  BY <1>1
<1>13. F(q) \/ D(q) \/ E(q) \/ I(q) \/ Q(q)
  BY <1>1
<1>14. I(p) /\ I(q) => p = q
  OBVIOUS
<1> HIDE DEF F, D, E, I, Q
<1> QED BY <1>2, <1>3, <1>4, <1>6, <1>7, <1>8, <1>9, <1>10, <1>11, <1>12, <1>13, <1>14

(* While the card may still read a TX buffer, PgpCard_Write does not get   *)
(* it: every buffer is in at most one place, for any number of lanes,      *)
(* buffers and frames, whatever lanes the application names.               *)
THEOREM TxBufferExclusive == Spec => []TxExclusive
<1>1. TxInv => TxExclusive
  BY InvTxExclusive
<1> QED BY <1>1, TxSafe, PTL

(* No TX buffer is ever lost as long as the application names lanes the    *)
(* card has, hence Write never blocks for want of one that has             *)
(* disappeared.                                                            *)
THEOREM TxBufferConserved ==
    ASSUME WriteLanes \subseteq Lanes
    PROVE  Spec => []TxConserved
<1>1. TxInv /\ TxMissing = {} => TxConserved
  <2> SUFFICES ASSUME TxInv, TxMissing = {}, NEW b \in TxBufs PROVE TxHolders(b) # {}
    BY DEF TxConserved
  <2>1. CASE b \in TxOut
    <3>1. \A l \in Lanes : \A k \in DOMAIN tFifo[l] : tFifo[l][k].buf = b => <<"fifo", l, k>> \in TxHolders(b)
      BY DEF TxHolders
    <3>2. \A l \in Lanes : txDma[l].buf = b => <<"dma", l, 0>> \in TxHolders(b)
      BY DEF TxHolders
    <3>3. \A k \in DOMAIN txDone : txDone[k] = b => <<"done", 0, k>> \in TxHolders(b)
      BY DEF TxHolders
    <3>4. IsrHoldsTx /\ isrBuf = b => <<"isr", 0, 0>> \in TxHolders(b)
      BY DEF TxHolders
    <3> QED BY <2>1, <3>1, <3>2, <3>3, <3>4 DEF TxOut
  <2>2. ASSUME NEW i \in TxLive, txQueue[i] = b PROVE TxHolders(b) # {}
    <3>1. <<"queue", 0, i>> \in TxHolders(b)
      BY <2>2 DEF TxHolders
    <3> QED BY <3>1
  <2> QED BY <2>1, <2>2 DEF TxMissing, TxUnqueued
<1> QED BY <1>1, TxSafe, TxNothingMissing, PTL

-----------------------------------------------------------------------------
(* The receive direction, for every combination of faults: every RX buffer *)
(* is in exactly one place and returns to the free list of its own lane.   *)
(* The argument mirrors the transmit direction; it ends with the type      *)
(* invariant of the whole model.                                           *)

RxRingT == INSTANCE BufferRingProofs WITH
    Bufs <- RxBufs, slots <- rxQueue, read <- rxRead, write <- rxWrite,
    out <- RxOut, released <- (rPc = "advance")

RxKept == [hdr : RxFrames, lane : Lanes, lenErr : BOOLEAN]

RxTypeOK ==
    /\ rxMem \in [RxBufs -> RxFrames]
    /\ arrived \in RxFrames
    /\ rxFree \in [Lanes -> Seq(RxBufs)]
    /\ rxDma \in [Lanes -> RxDesc \cup {NoRxDesc}]
    /\ rxDone \in Seq(RxDesc)
    /\ descData \in RxBufs \cup {NoBuf}
    /\ rxBuffer \in [RxBufs -> RxKept]
    /\ rPc \in RPcs /\ rRet \in Ret
    /\ isrPc \in IsrPcs /\ isrDesc \in RxDesc \cup {NoRxDesc}
    /\ delivered \in [Lanes -> Seq(Ret)]
    /\ dropped \subseteq RxFrames

(* Between the two reads of a descriptor the latch names the oldest entry. *)
LatchOK ==
    isrPc = "rxReadB" /\ descData # NoBuf =>
        rxDone # << >> /\ isrDesc = rxDone[1] /\ descData = isrDesc.buf

(* What the program counters of the reader and the handler promise. *)
RxPcOK ==
    /\ rPc = "cmd" => rxRead # rxWrite
    /\ IsrHoldsRx => isrDesc \in RxDesc /\ isrBuf = isrDesc.buf /\ isrBuf \in RxBufs
    /\ isrPc = "rxPublish" => rxQueue[rxWrite] = isrBuf

(* The places outside the ring hold different buffers. *)
RxFreeApart ==
    /\ \A l, m \in Lanes : \A j \in DOMAIN rxFree[l], k \in DOMAIN rxFree[m] :
           rxFree[l][j] = rxFree[m][k] => l = m /\ j = k
    /\ \A l, m \in Lanes : \A j \in DOMAIN rxFree[l] : rxFree[l][j] # rxDma[m].buf
    /\ \A l \in Lanes : \A j \in DOMAIN rxFree[l], k \in DOMAIN rxDone : rxFree[l][j] # rxDone[k].buf
    /\ \A l \in Lanes : \A j \in DOMAIN rxFree[l] : IsrHoldsRx => rxFree[l][j] # isrBuf
RxDmaApart ==
    /\ \A l, m \in Lanes : rxDma[l].buf = rxDma[m].buf => l = m \/ rxDma[l] = NoRxDesc
    /\ \A l \in Lanes : \A k \in DOMAIN rxDone : rxDma[l].buf # rxDone[k].buf
    /\ \A l \in Lanes : IsrHoldsRx => rxDma[l].buf # isrBuf
RxDoneApart ==
    /\ \A j, k \in DOMAIN rxDone : rxDone[j].buf = rxDone[k].buf => j = k
    /\ \A k \in DOMAIN rxDone : IsrHoldsRx => rxDone[k].buf # isrBuf

(* The lane a buffer was posted to, and every record of it on the way.     *)
Home(b) == b % DMA_SIZE
RxHomeOK ==
    /\ \A l \in Lanes : \A k \in DOMAIN rxFree[l] : Home(rxFree[l][k]) = l
    /\ \A l \in Lanes : rxDma[l] # NoRxDesc => rxDma[l].lane = l /\ Home(rxDma[l].buf) = l
    /\ \A k \in DOMAIN rxDone : Home(rxDone[k].buf) = rxDone[k].lane
    /\ IsrHoldsRx => Home(isrBuf) = isrDesc.lane
    /\ isrPc = "rxPublish" => rxBuffer[isrBuf].lane = Home(isrBuf)
    /\ \A b \in RxBufs \ RxOut : rxBuffer[b].lane = Home(b)

RxInv == /\ RxTypeOK /\ LatchOK /\ RxPcOK
         /\ RxFreeApart /\ RxDmaApart /\ RxDoneApart
         /\ RxHomeOK
         /\ RxRingT!RingInv

(* The receive ring is an instance of the abstract ring. *)
LEMMA RxRingConstants ==
    /\ RxRingT!RingAssumption
    /\ RxRingT!Count = RxBuffCnt
    /\ RxRingT!Size = RxBuffCnt + 2
    /\ RxRingT!Index = RxIndex
    /\ RxBuffCnt \in Nat
<1>1. IsFiniteSet(RxBufs) /\ Cardinality(RxBufs) = RxBuffCnt
  BY CardAssumption, FS_Interval DEF RxBufs
<1>2. RxRingT!RingAssumption
  BY <1>1 DEF RxRingT!RingAssumption, RxBufs, NoBuf, IsFiniteSet, RxRingT!IsFiniteSet
<1>3. RxRingT!Count = Cardinality(RxBufs)
  BY Zenon DEF RxRingT!Count, Cardinality, RxRingT!Cardinality
<1> QED BY <1>1, <1>2, <1>3, CardAssumption DEF RxRingT!Size, RxRingT!Index, RxIndex

(* No descriptor is the placeholder for none. *)
LEMMA DescBuf ==
    /\ NoRxDesc.buf \notin RxBufs /\ NoBuf \notin RxBufs /\ NoRxDesc.buf = NoBuf
    /\ \A d \in RxDesc : d.buf \in RxBufs /\ d.lane \in Lanes /\ d.hdr \in RxFrames /\ d # NoRxDesc
<1>1. NoRxDesc.buf \notin RxBufs /\ NoBuf \notin RxBufs /\ NoRxDesc.buf = NoBuf
  BY DEF NoRxDesc, RxBufs, NoBuf
<1>2. \A d \in RxDesc : d.buf \in RxBufs /\ d.lane \in Lanes /\ d.hdr \in RxFrames
  BY DEF RxDesc
<1> QED BY <1>1, <1>2

-----------------------------------------------------------------------------
(* Division with remainder. *)
LEMMA DivMod ==
    ASSUME NEW d \in Nat, d > 0, NEW a \in Nat
    PROVE  /\ a \div d \in Nat /\ a % d \in 0 .. (d - 1)
           /\ a = d * (a \div d) + (a % d)
<1>1. a % d \in 0 .. (d - 1)
  OBVIOUS
<1>2. a \div d \in Int
  OBVIOUS
<1>3. a = d * (a \div d) + (a % d)
  OBVIOUS
<1>4. a \div d >= 0
  <2> SUFFICES ASSUME NEW q \in Int, NEW r \in 0 .. (d - 1), a = d * q + r
               PROVE  q >= 0
    BY <1>1, <1>2, <1>3
  <2>1. CASE q < 0
    <3>1. d * q <= -d
      BY <2>1
    <3> QED BY <3>1
  <2> QED BY <2>1
<1> QED BY <1>1, <1>2, <1>3, <1>4

(* A product grows by at least its factor. *)
LEMMA MulGrows ==
    ASSUME NEW d \in Nat, d > 0, NEW x \in Int
    PROVE  (x > 0 => d * x >= d) /\ (x < 0 => d * x <= -d) /\ d * x \in Int
OBVIOUS

(* Quotient and remainder are unique. *)
LEMMA EuclidUnique ==
    ASSUME NEW d \in Nat, d > 0, NEW k \in Nat, NEW m \in Nat,
           NEW i \in 0 .. (d - 1), NEW j \in 0 .. (d - 1), d * k + i = d * m + j
    PROVE  k = m /\ i = j
<1>1. d * (k - m) = j - i
  OBVIOUS
<1>2. k - m \in Int /\ (k - m > 0 => d * (k - m) >= d) /\ (k - m < 0 => d * (k - m) <= -d)
  BY MulGrows
<1>3. k = m
  BY <1>1, <1>2
<1> QED BY <1>3

(* PgpCard_Probe posts to lane l exactly the buffers whose home is l, each *)
(* of them once.                                                           *)
LEMMA PostedBuffers ==
    ASSUME NEW l \in Lanes
    PROVE  /\ PostedTo(l) \in Seq(RxBufs)
           /\ \A k \in DOMAIN PostedTo(l) : Home(PostedTo(l)[k]) = l
           /\ \A j, k \in DOMAIN PostedTo(l) : PostedTo(l)[j] = PostedTo(l)[k] => j = k
           /\ \A b \in RxBufs : Home(b) = l => \E k \in DOMAIN PostedTo(l) : PostedTo(l)[k] = b
<1> DEFINE d == DMA_SIZE
           n == RxBuffCnt + d - 1 - l
           q == n \div d
<1>0. d \in Nat /\ d > 0 /\ l \in 0 .. (d - 1) /\ RxBuffCnt \in Nat /\ n \in Nat
  BY CardAssumption DEF Lanes
<1>1. q \in Nat /\ d * q <= n /\ n < d * q + d /\ d * q \in Int
  BY <1>0, DivMod
<1>2. /\ PostedCnt(l) = q
      /\ PostedTo(l) = [k \in 1 .. q |-> (k - 1) * d + l]
  BY DEF PostedCnt, PostedTo
<1> HIDE DEF q
<1>3. ASSUME NEW k \in 1 .. q
      PROVE  /\ (k - 1) * d + l \in RxBufs
             /\ (k - 1) * d + l = d * (k - 1) + l
             /\ Home((k - 1) * d + l) = l
  <2>1. d * (k - 1) <= d * q - d /\ d * (k - 1) >= 0 /\ (k - 1) * d = d * (k - 1) /\ d * (k - 1) \in Int
    BY <1>0, <1>1
  <2>2. (k - 1) * d + l \in RxBufs
    BY <1>0, <1>1, <2>1 DEF RxBufs
  <2> DEFINE b == (k - 1) * d + l
  <2>3. b \in Nat /\ b = d * (k - 1) + l /\ k - 1 \in Nat
    BY <1>0, <1>1, <2>1, <2>2 DEF RxBufs
  <2>4. b = d * (b \div d) + (b % d) /\ b \div d \in Nat /\ b % d \in 0 .. (d - 1)
    BY <1>0, <2>3, DivMod
  <2> HIDE DEF b
  <2>5. b % d = l
    BY <1>0, <2>3, <2>4, EuclidUnique
  <2> QED BY <2>2, <2>3, <2>5 DEF Home, b
<1>4. PostedTo(l) \in Seq(RxBufs) /\ DOMAIN PostedTo(l) = 1 .. q
  BY <1>1, <1>2, <1>3
<1>5. \A k \in DOMAIN PostedTo(l) : Home(PostedTo(l)[k]) = l
  BY <1>2, <1>3, <1>4
<1>6. ASSUME NEW j \in 1 .. q, NEW k \in 1 .. q, PostedTo(l)[j] = PostedTo(l)[k]
      PROVE  j = k
  <2>1. d * (j - 1) + l = d * (k - 1) + l /\ j - 1 \in Nat /\ k - 1 \in Nat
    BY <1>1, <1>2, <1>3, <1>6
  <2>2. j - 1 = k - 1
    BY <1>0, <2>1, EuclidUnique
  <2> QED BY <1>1, <2>2
<1>7. ASSUME NEW b \in RxBufs, Home(b) = l
      PROVE  \E k \in DOMAIN PostedTo(l) : PostedTo(l)[k] = b
  <2>1. b \in Nat /\ b < RxBuffCnt
    BY <1>0 DEF RxBufs
  <2>2. PICK p \in Nat : b = d * p + l
    BY <1>0, <1>7, <2>1, DivMod DEF Home
  <2>3. p < q
    <3>1. CASE p >= q
      <4>1. d * p >= d * q
        BY <1>0, <1>1, <3>1
      <4> QED BY <1>0, <1>1, <2>1, <2>2, <4>1
    <3> QED BY <1>1, <3>1
  <2>4. p + 1 \in 1 .. q /\ (p + 1) - 1 = p
    BY <1>1, <2>3
  <2>5. PostedTo(l)[p + 1] = p * d + l
    BY <1>2, <2>4
  <2>6. p * d = d * p
    BY <1>0
  <2> QED BY <1>4, <2>2, <2>4, <2>5, <2>6
<1> QED BY <1>4, <1>5, <1>6, <1>7

-----------------------------------------------------------------------------
(* The receive invariant holds initially: all buffers are posted. *)
LEMMA RxInitInv == Init => RxInv /\ RxRingT!Init
<1> SUFFICES ASSUME Init PROVE RxInv /\ RxRingT!Init
  OBVIOUS
<1>0. /\ rxFree = [l \in Lanes |-> PostedTo(l)] /\ rxDma = [l \in Lanes |-> NoRxDesc]
      /\ rxDone = << >> /\ isrPc = "idle" /\ rPc = "idle" /\ ~IsrHoldsRx
  BY DEF Init, CardInit, IsrHoldsRx
<1>1. RxTypeOK
  <2>1. 0 \in RxFrames /\ 0 \in Lanes
    BY CardAssumption DEF RxFrames, Lanes
  <2>2. rRet \in Ret
    BY <2>1 DEF Init, NoRet, Ret
  <2>3. rxBuffer \in [RxBufs -> RxKept]
    BY <2>1 DEF Init, RxKept
  <2>4. rxFree \in [Lanes -> Seq(RxBufs)]
    BY <1>0, PostedBuffers
  <2> QED BY <2>1, <2>2, <2>3, <2>4 DEF Init, CardInit, RxTypeOK, RPcs, IsrPcs
<1>2. RxPcOK /\ LatchOK
  BY <1>0 DEF RxPcOK, LatchOK
<1>3. RxFreeApart
  <2>1. \A l, m \in Lanes : \A j \in DOMAIN rxFree[l], k \in DOMAIN rxFree[m] :
           rxFree[l][j] = rxFree[m][k] => l = m /\ j = k
    BY <1>0, PostedBuffers
  <2>2. \A l \in Lanes : \A j \in DOMAIN rxFree[l] : rxFree[l][j] \in RxBufs
    BY <1>1 DEF RxTypeOK
  <2> QED BY <1>0, <2>1, <2>2, DescBuf DEF RxFreeApart
<1>4. RxDmaApart /\ RxDoneApart
  BY <1>0 DEF RxDmaApart, RxDoneApart
<1>5. RxOut = RxBufs
  <2>1. ASSUME NEW b \in RxBufs PROVE b \in RxOut
    <3>1. Home(b) \in Lanes
      BY CardAssumption DEF Home, RxBufs, Lanes
    <3>2. \E k \in DOMAIN rxFree[Home(b)] : rxFree[Home(b)][k] = b
      BY <1>0, <3>1, PostedBuffers
    <3> QED BY <3>1, <3>2 DEF RxOut
  <2> QED BY <2>1 DEF RxOut
<1>6. RxHomeOK
  BY <1>0, <1>5, PostedBuffers DEF RxHomeOK
<1>7. RxRingT!Init
  BY <1>0, <1>5, RxRingConstants DEF Init, RxRingT!Init, RxRingT!InitEmpty
<1>8. RxRingT!RingInv
  BY <1>7, RxRingT!InitInv, RxRingConstants
<1> QED BY <1>1, <1>2, <1>3, <1>4, <1>6, <1>7, <1>8 DEF RxInv

(* A step that does not move an RX buffer keeps the invariant. *)
RxQuiet ==
    /\ UNCHANGED <<rxFree, rxDma, rxDone, rxQueue, rxRead, rxWrite>>
    /\ (rPc = "advance")' = (rPc = "advance")
    /\ \A b \in RxBufs : rxBuffer'[b].lane = rxBuffer[b].lane
    /\ \/ UNCHANGED <<isrPc, isrBuf, isrDesc>>
       \/ ~IsrHoldsRx /\ ~IsrHoldsRx'

(* A step that moves no RX buffer keeps RxInv. *)
LEMMA RxQuietStep ==
    ASSUME RxInv, RxQuiet, RxTypeOK', LatchOK',
           rPc' = "cmd" => rxRead # rxWrite
    PROVE  RxInv' /\ UNCHANGED RxRingT!ringVars
<1>1. RxOut' = RxOut
  BY DEF RxQuiet, RxOut, IsrHoldsRx
<1>2. UNCHANGED RxRingT!ringVars
  BY <1>1 DEF RxQuiet, RxRingT!ringVars
<1>3. RxRingT!RingInv'
  BY <1>2, RxRingT!NextInv, RxRingConstants DEF RxInv
<1>4. RxFreeApart' /\ RxDmaApart' /\ RxDoneApart'
  BY DEF RxInv, RxQuiet, RxFreeApart, RxDmaApart, RxDoneApart, IsrHoldsRx
<1>5. RxPcOK'
  BY DEF RxInv, RxPcOK, RxQuiet, IsrHoldsRx
<1>6. RxHomeOK'
  BY <1>1 DEF RxInv, RxHomeOK, RxPcOK, RxQuiet, IsrHoldsRx
<1> QED BY <1>2, <1>3, <1>4, <1>5, <1>6 DEF RxInv

(* The reader gives the buffer at the read pointer back to its lane. *)
LEMMA ReadFreeStep ==
    ASSUME RxInv, ReadFree
    PROVE  RxInv' /\ RxRingT!Release
<1> DEFINE b == rxQueue[rxRead]
           n == rxBuffer[b].lane
<1>0. /\ RxTypeOK /\ rPc = "cmd" /\ rPc' = "advance" /\ rxRead # rxWrite
      /\ UNCHANGED <<rxMem, arrived, rxDma, rxDone, descData, rxBuffer, rRet, isrPc, isrBuf, isrDesc>>
      /\ UNCHANGED <<rxQueue, rxRead, rxWrite, delivered, dropped>>
      /\ rxFree' = [rxFree EXCEPT ![n] = Append(rxFree[n], b)]
  BY DEF RxInv, RxPcOK, ReadFree, RGoto, WriteRxFree, RxHead, memVars, rxqVars, isrVars
<1>1. b \in RxBufs \ RxOut
  BY <1>0, RxRingT!HeadLive, RxRingConstants DEF RxInv
<1>2. n \in Lanes /\ n = Home(b) /\ rxFree[n] \in Seq(RxBufs)
  BY <1>0, <1>1 DEF RxInv, RxTypeOK, RxKept, RxHomeOK
<1> HIDE DEF b, n
<1>3. RxTypeOK'
  <2>1. Append(rxFree[n], b) \in Seq(RxBufs)
    BY <1>1, <1>2, AppendEntries
  <2> QED BY <1>0, <2>1 DEF RxTypeOK, RPcs
<1>4. ASSUME NEW l \in Lanes, NEW k \in DOMAIN rxFree'[l]
      PROVE  \/ k \in DOMAIN rxFree[l] /\ rxFree'[l][k] = rxFree[l][k]
             \/ l = n /\ k = Len(rxFree[n]) + 1 /\ rxFree'[l][k] = b
  BY <1>0, <1>1, <1>2, AppendEntries DEF RxTypeOK
<1>5. ASSUME NEW l \in Lanes, NEW k \in DOMAIN rxFree[l]
      PROVE  k \in DOMAIN rxFree'[l] /\ rxFree'[l][k] = rxFree[l][k]
  BY <1>0, <1>1, <1>2, AppendEntries DEF RxTypeOK
<1>6. \E k \in DOMAIN rxFree'[n] : rxFree'[n][k] = b
  <2>1. rxFree'[n] = Append(rxFree[n], b)
    BY <1>0, <1>2 DEF RxTypeOK
  <2> QED BY <1>1, <1>2, <2>1, AppendEntries
<1>7. RxOut' = RxOut \cup {b}
  BY <1>0, <1>1, <1>2, <1>4, <1>5, <1>6 DEF RxOut, IsrHoldsRx
<1>8. RxRingT!Release
  BY <1>0, <1>7 DEF RxRingT!Release, b
<1>9. RxFreeApart'
  BY <1>0, <1>1, <1>4 DEF RxInv, RxFreeApart, RxOut, IsrHoldsRx
<1>10. RxDmaApart' /\ RxDoneApart'
  BY <1>0 DEF RxInv, RxDmaApart, RxDoneApart, IsrHoldsRx
<1>11. RxPcOK' /\ LatchOK'
  BY <1>0 DEF RxInv, RxPcOK, LatchOK, IsrHoldsRx
<1>12. RxHomeOK'
  BY <1>0, <1>2, <1>4, <1>7 DEF RxInv, RxHomeOK, IsrHoldsRx
<1>13. RxRingT!RingInv'
  BY <1>8, RxRingT!NextInv, RxRingConstants DEF RxInv, RxRingT!Next
<1> QED BY <1>3, <1>8, <1>9, <1>10, <1>11, <1>12, <1>13 DEF RxInv

(* The reader advances its pointer and returns. *)
LEMMA ReadAdvanceStep ==
    ASSUME RxInv, ReadAdvance
    PROVE  RxInv' /\ RxRingT!Advance
<1>0. /\ RxTypeOK /\ rPc = "advance" /\ rPc' = "idle"
      /\ UNCHANGED <<rxMem, arrived, rxFree, rxDma, rxDone, descData, isrPc, isrBuf, isrDesc>>
      /\ UNCHANGED <<rxQueue, rxWrite, rxBuffer>>
  BY DEF RxInv, ReadAdvance, RGoto, cardVars, memVars, rxVars, isrVars
<1>1. RxOut' = RxOut
  BY <1>0 DEF RxOut, IsrHoldsRx
<1>2. RxRingT!Advance
  BY <1>0, <1>1, RxRingConstants DEF ReadAdvance, RxRingT!Advance, RxSucc, RxRingT!Succ
<1>3. RxRingT!RingInv'
  BY <1>2, RxRingT!NextInv, RxRingConstants DEF RxInv, RxRingT!Next
<1>4. RxTypeOK'
  <2>1. 0 \in RxFrames /\ 0 \in Lanes
    BY CardAssumption DEF RxFrames, Lanes
  <2>2. rRet' \in Ret
    BY <2>1 DEF ReadAdvance, NoRet, Ret
  <2>3. rRet \in Ret /\ rRet.hdr \in RxFrames /\ rRet.lane \in Lanes
    BY <1>0 DEF RxTypeOK, Ret
  <2>4. delivered \in [Lanes -> Seq(Ret)] /\ dropped \subseteq RxFrames
    BY <1>0 DEF RxTypeOK
  <2>5. Append(delivered[rRet.lane], rRet) \in Seq(Ret)
    BY <2>3, <2>4, AppendEntries
  <2>6. delivered' \in [Lanes -> Seq(Ret)] /\ dropped' \subseteq RxFrames
    BY <2>3, <2>4, <2>5 DEF ReadAdvance
  <2> QED BY <1>0, <2>2, <2>6 DEF RxTypeOK, RPcs
<1>5. RxFreeApart' /\ RxDmaApart' /\ RxDoneApart'
  BY <1>0 DEF RxInv, RxFreeApart, RxDmaApart, RxDoneApart, IsrHoldsRx
<1>6. RxPcOK' /\ LatchOK'
  BY <1>0 DEF RxInv, RxPcOK, LatchOK, IsrHoldsRx
<1>7. RxHomeOK'
  BY <1>0, <1>1 DEF RxInv, RxHomeOK, IsrHoldsRx
<1> QED BY <1>2, <1>3, <1>4, <1>5, <1>6, <1>7 DEF RxInv

(* The card takes a free buffer of a lane for an arriving frame. *)
LEMMA RxNewStep ==
    ASSUME RxInv, NEW l \in Lanes, RxNew(l), UNCHANGED hostVars
    PROVE  RxInv' /\ UNCHANGED RxRingT!ringVars
<1> DEFINE b == rxFree[l][1]
           d == [hdr |-> arrived + 1, lane |-> l, buf |-> b]
<1>0. RxTypeOK /\ rxFree[l] \in Seq(RxBufs) /\ rxFree[l] # << >> /\ rxDma[l] = NoRxDesc
  BY DEF RxInv, RxTypeOK, RxNew
<1>1. /\ UNCHANGED <<rxDone, descData, rxBuffer, rPc, rRet, isrPc, isrBuf, isrDesc>>
      /\ UNCHANGED <<rxQueue, rxRead, rxWrite, delivered, dropped>>
  BY DEF RxNew, hostVars, rxqVars, rVars, isrVars
<1>2. /\ Head(rxFree[l]) = b /\ b \in RxBufs /\ 1 \in DOMAIN rxFree[l]
      /\ Tail(rxFree[l]) \in Seq(RxBufs)
  BY <1>0, TailEntries
<1>3. arrived + 1 \in RxFrames
  BY <1>0, CardAssumption DEF RxTypeOK, RxNew, RxFrames
<1>4. d \in RxDesc /\ d.buf = b /\ d.lane = l
  <2>1. d \in RxDesc
    BY <1>2, <1>3 DEF RxDesc
  <2> QED BY <2>1
<1>5. /\ arrived' = arrived + 1
      /\ rxFree' = [rxFree EXCEPT ![l] = Tail(rxFree[l])]
      /\ rxDma' = [rxDma EXCEPT ![l] = d]
      /\ rxMem' = [rxMem EXCEPT ![b] = arrived + 1]
  BY <1>2 DEF RxNew
<1> HIDE DEF d
<1>6. RxTypeOK'
  BY <1>0, <1>1, <1>2, <1>3, <1>4, <1>5 DEF RxTypeOK
<1>7. \A m \in Lanes : rxDma'[m] = IF m = l THEN d ELSE rxDma[m]
  BY <1>0, <1>5 DEF RxTypeOK
<1>8. \A m \in Lanes : rxFree'[m] = IF m = l THEN Tail(rxFree[l]) ELSE rxFree[m]
  BY <1>0, <1>5 DEF RxTypeOK
<1>9. ASSUME NEW m \in Lanes, NEW k \in DOMAIN rxFree'[m]
      PROVE  \/ m # l /\ k \in DOMAIN rxFree[m] /\ rxFree'[m][k] = rxFree[m][k]
             \/ m = l /\ k \in Nat /\ k >= 1 /\ k + 1 \in DOMAIN rxFree[l] /\ rxFree'[m][k] = rxFree[l][k + 1]
  <2>1. \A i \in DOMAIN Tail(rxFree[l]) :
           i + 1 \in DOMAIN rxFree[l] /\ i \in Nat /\ i >= 1 /\ Tail(rxFree[l])[i] = rxFree[l][i + 1]
    BY <1>0, TailEntries
  <2>2. CASE m = l
    <3>1. rxFree'[m] = Tail(rxFree[l])
      BY <1>8, <2>2
    <3> QED BY <2>1, <2>2, <3>1
  <2>3. CASE m # l
    BY <1>8, <2>3
  <2> QED BY <2>2, <2>3
<1>10. ASSUME NEW m \in Lanes, NEW k \in DOMAIN rxFree[m]
       PROVE  \/ m = l /\ k = 1
              \/ \E i \in DOMAIN rxFree'[m] : rxFree'[m][i] = rxFree[m][k]
  <2>1. CASE m = l /\ k # 1
    <3>1. k - 1 \in DOMAIN Tail(rxFree[l]) /\ Tail(rxFree[l])[k - 1] = rxFree[l][k]
      BY <1>0, <2>1, TailEntries
    <3> QED BY <1>8, <2>1, <3>1
  <2> QED BY <1>8, <2>1
<1>11. RxOut' = RxOut
  <2>1. ASSUME NEW c \in RxBufs, c \in RxOut PROVE c \in RxOut'
    <3>1. CASE \E m \in Lanes : \E k \in DOMAIN rxFree[m] : rxFree[m][k] = c
      <4>1. PICK m \in Lanes : \E k \in DOMAIN rxFree[m] : rxFree[m][k] = c
        BY <3>1
      <4>2. PICK k \in DOMAIN rxFree[m] : rxFree[m][k] = c
        BY <4>1
      <4> QED BY <1>4, <1>7, <1>10, <4>2 DEF RxOut
    <3>2. CASE \E m \in Lanes : rxDma[m].buf = c
      BY <1>0, <1>7, <3>2, DescBuf DEF RxOut
    <3> QED BY <1>1, <2>1, <3>1, <3>2 DEF RxOut, IsrHoldsRx
  <2>2. ASSUME NEW c \in RxBufs, c \in RxOut' PROVE c \in RxOut
    <3>1. CASE \E m \in Lanes : \E k \in DOMAIN rxFree'[m] : rxFree'[m][k] = c
      BY <1>9, <3>1 DEF RxOut
    <3>2. CASE \E m \in Lanes : rxDma'[m].buf = c
      BY <1>2, <1>4, <1>7, <3>2 DEF RxOut
    <3> QED BY <1>1, <2>2, <3>1, <3>2 DEF RxOut, IsrHoldsRx
  <2> QED BY <2>1, <2>2 DEF RxOut
<1>12. RxFreeApart'
  <2>1. \A m, n \in Lanes : \A j \in DOMAIN rxFree'[m], k \in DOMAIN rxFree'[n] :
           rxFree'[m][j] = rxFree'[n][k] => m = n /\ j = k
    BY <1>9 DEF RxInv, RxFreeApart
  <2>2. \A m, n \in Lanes : \A j \in DOMAIN rxFree'[m] : rxFree'[m][j] # rxDma'[n].buf
    <3> SUFFICES ASSUME NEW m \in Lanes, NEW n \in Lanes, NEW j \in DOMAIN rxFree'[m]
                 PROVE  rxFree'[m][j] # rxDma'[n].buf
      OBVIOUS
    <3>1. PICK i \in DOMAIN rxFree[m] : rxFree'[m][j] = rxFree[m][i] /\ (m = l => i # 1)
      BY <1>9
    <3>2. CASE n = l
      BY <1>2, <1>4, <1>7, <3>1, <3>2 DEF RxInv, RxFreeApart
    <3>3. CASE n # l
      BY <1>7, <3>1, <3>3 DEF RxInv, RxFreeApart
    <3> QED BY <3>2, <3>3
  <2> QED BY <1>1, <1>9, <2>1, <2>2 DEF RxInv, RxFreeApart, IsrHoldsRx
<1>13. RxDmaApart'
  <2>1. \A m \in Lanes : rxDma[m].buf # b
    BY <1>2 DEF RxInv, RxFreeApart
  <2>2. \A m, n \in Lanes : rxDma'[m].buf = rxDma'[n].buf => m = n \/ rxDma'[m] = NoRxDesc
    BY <1>4, <1>7, <2>1 DEF RxInv, RxDmaApart
  <2> QED BY <1>1, <1>2, <1>4, <1>7, <2>2 DEF RxInv, RxFreeApart, RxDmaApart, IsrHoldsRx
<1>14. RxDoneApart' /\ RxPcOK' /\ LatchOK'
  BY <1>1 DEF RxInv, RxDoneApart, RxPcOK, LatchOK, IsrHoldsRx
<1>15. RxHomeOK'
  <2>1. \A m \in Lanes : \A k \in DOMAIN rxFree'[m] : Home(rxFree'[m][k]) = m
    BY <1>9 DEF RxInv, RxHomeOK
  <2>2. \A m \in Lanes : rxDma'[m] # NoRxDesc => rxDma'[m].lane = m /\ Home(rxDma'[m].buf) = m
    BY <1>2, <1>4, <1>7 DEF RxInv, RxHomeOK
  <2> QED BY <1>1, <1>11, <2>1, <2>2 DEF RxInv, RxHomeOK, IsrHoldsRx
<1>16. UNCHANGED RxRingT!ringVars
  BY <1>1, <1>11 DEF RxRingT!ringVars
<1>17. RxRingT!RingInv'
  BY <1>16, RxRingT!NextInv, RxRingConstants DEF RxInv
<1> QED BY <1>6, <1>12, <1>13, <1>14, <1>15, <1>16, <1>17 DEF RxInv

(* The card reports a filled buffer as done. *)
LEMMA RxDoneStep ==
    ASSUME RxInv, NEW l \in Lanes, RxDone(l), UNCHANGED hostVars
    PROVE  RxInv' /\ UNCHANGED RxRingT!ringVars
<1> DEFINE d == rxDma[l]
<1>0. RxTypeOK /\ d \in RxDesc /\ d.buf \in RxBufs /\ d # NoRxDesc
  BY DescBuf DEF RxInv, RxTypeOK, RxDone
<1>1. /\ UNCHANGED <<rxMem, arrived, rxFree, descData, rxBuffer, rPc, rRet, isrPc, isrBuf, isrDesc>>
      /\ UNCHANGED <<rxQueue, rxRead, rxWrite, delivered, dropped>>
      /\ rxDone' = Append(rxDone, d)
      /\ rxDma' = [rxDma EXCEPT ![l] = NoRxDesc]
  BY DEF RxDone, memVars, hostVars, rxqVars, rVars, isrVars
<1>2. rxDone \in Seq(RxDesc)
  BY <1>0 DEF RxTypeOK
<1>3. \A m \in Lanes : rxDma'[m] = IF m = l THEN NoRxDesc ELSE rxDma[m]
  BY <1>0, <1>1 DEF RxTypeOK
<1>4. /\ rxDone' \in Seq(RxDesc)
      /\ \A k \in DOMAIN rxDone' : \/ k \in DOMAIN rxDone /\ rxDone'[k] = rxDone[k]
                                   \/ k = Len(rxDone) + 1 /\ rxDone'[k] = d
      /\ \A k \in DOMAIN rxDone : k \in DOMAIN rxDone' /\ rxDone'[k] = rxDone[k]
      /\ Len(rxDone) + 1 \in DOMAIN rxDone' /\ rxDone'[Len(rxDone) + 1] = d
      /\ Len(rxDone) + 1 \notin DOMAIN rxDone
  <2> HIDE DEF d
  <2> QED BY <1>0, <1>1, <1>2, AppendEntries
<1>5. RxTypeOK'
  BY <1>0, <1>1, <1>4 DEF RxTypeOK
<1>6. /\ \A m \in Lanes : \A j \in DOMAIN rxFree[m] : rxFree[m][j] \in RxBufs
      /\ \A m \in Lanes : rxDma[m] = NoRxDesc \/ rxDma[m].buf \in RxBufs
      /\ \A k \in DOMAIN rxDone' : rxDone'[k].buf \in RxBufs
  <2>1. \A k \in DOMAIN rxDone' : rxDone'[k] \in RxDesc
    BY <1>4
  <2> QED BY <1>0, <2>1, DescBuf DEF RxTypeOK
<1>7. RxOut' = RxOut
  <2>1. ASSUME NEW c \in RxBufs, c \in RxOut PROVE c \in RxOut'
    BY <1>1, <1>3, <1>4, <2>1 DEF RxOut, IsrHoldsRx
  <2>2. ASSUME NEW c \in RxBufs, c \in RxOut' PROVE c \in RxOut
    BY <1>1, <1>3, <1>4, <2>2, DescBuf DEF RxOut, IsrHoldsRx
  <2> QED BY <2>1, <2>2 DEF RxOut
<1>8. RxFreeApart'
  BY <1>0, <1>1, <1>3, <1>4, <1>6, DescBuf DEF RxInv, RxFreeApart, IsrHoldsRx
<1>9. RxDmaApart'
  <2>1. IsrHoldsRx => isrBuf \in RxBufs
    BY DEF RxInv, RxPcOK
  <2>2. \A m, n \in Lanes : rxDma'[m].buf = rxDma'[n].buf => m = n \/ rxDma'[m] = NoRxDesc
    BY <1>3, <1>6, DescBuf DEF RxInv, RxDmaApart
  <2>3. \A m \in Lanes : \A k \in DOMAIN rxDone' : rxDma'[m].buf # rxDone'[k].buf
    BY <1>0, <1>3, <1>4, <1>6, DescBuf DEF RxInv, RxDmaApart
  <2>4. \A m \in Lanes : IsrHoldsRx' => rxDma'[m].buf # isrBuf'
    BY <1>1, <1>3, <2>1, DescBuf DEF RxInv, RxDmaApart, IsrHoldsRx
  <2> QED BY <2>2, <2>3, <2>4 DEF RxDmaApart
<1>10. RxDoneApart'
  BY <1>0, <1>1, <1>4 DEF RxInv, RxDmaApart, RxDoneApart, IsrHoldsRx
<1>11. RxPcOK'
  BY <1>1 DEF RxInv, RxPcOK, IsrHoldsRx
<1>12. LatchOK'
  <2>1. rxDone # << >> => 1 \in DOMAIN rxDone
    BY <1>2
  <2>2. rxDone # << >> => rxDone' # << >> /\ rxDone'[1] = rxDone[1]
    BY <1>2, <1>4, <2>1
  <2> QED BY <1>1, <2>2 DEF RxInv, LatchOK
<1>13. RxHomeOK'
  <2>1. \A k \in DOMAIN rxDone' : Home(rxDone'[k].buf) = rxDone'[k].lane
    BY <1>0, <1>4 DEF RxInv, RxHomeOK
  <2>2. \A m \in Lanes : rxDma'[m] # NoRxDesc => rxDma'[m].lane = m /\ Home(rxDma'[m].buf) = m
    BY <1>3 DEF RxInv, RxHomeOK
  <2> QED BY <1>1, <1>7, <2>1, <2>2 DEF RxInv, RxHomeOK, IsrHoldsRx
<1>14. UNCHANGED RxRingT!ringVars
  BY <1>1, <1>7 DEF RxRingT!ringVars
<1>15. RxRingT!RingInv'
  BY <1>14, RxRingT!NextInv, RxRingConstants DEF RxInv
<1> QED BY <1>5, <1>8, <1>9, <1>10, <1>11, <1>12, <1>13, <1>14, <1>15 DEF RxInv

(* The handler pops a descriptor whose address it has latched. *)
LEMMA RxReadBStep ==
    ASSUME RxInv, IsrRxReadB
    PROVE  RxInv' /\ UNCHANGED RxRingT!ringVars
<1>0. /\ RxTypeOK /\ isrPc = "rxReadB" /\ ~IsrHoldsRx /\ descData' = NoBuf
      /\ UNCHANGED <<rxMem, arrived, rxFree, rxDma, rxBuffer, rPc, rRet, isrDesc>>
      /\ UNCHANGED <<rxQueue, rxRead, rxWrite, delivered, dropped>>
  BY DEF RxInv, IsrRxReadB, IsrGoto, ReadRxB, IsrHoldsRx, UnchangedButIsr, memVars, rxqVars, rVars
<1>1. CASE descData = NoBuf
  <2>1. isrPc' = "enable" /\ rxDone' = rxDone
    BY <1>1 DEF IsrRxReadB, IsrGoto, ReadRxB
  <2>2. RxTypeOK' /\ LatchOK'
    BY <1>0, <2>1 DEF RxTypeOK, IsrPcs, LatchOK
  <2>3. RxQuiet
    BY <1>0, <2>1 DEF RxQuiet, IsrHoldsRx
  <2> QED BY <1>0, <2>2, <2>3, RxQuietStep DEF RxInv, RxPcOK
<1>2. CASE descData # NoBuf
  <2> DEFINE d == rxDone[1]
  <2>1. /\ rxDone # << >> /\ rxDone \in Seq(RxDesc)
        /\ isrDesc = d /\ descData = d.buf
    BY <1>0, <1>2 DEF RxInv, LatchOK, RxTypeOK
  <2>2. d \in RxDesc /\ 1 \in DOMAIN rxDone /\ Tail(rxDone) \in Seq(RxDesc) /\ d.buf \in RxBufs
    BY <2>1, TailEntries, DescBuf
  <2>3. isrPc' = "rxFill" /\ rxDone' = Tail(rxDone) /\ isrBuf' = d.buf /\ IsrHoldsRx'
    BY <1>2, <2>1 DEF IsrRxReadB, IsrGoto, ReadRxB, IsrHoldsRx
  <2>4. RxTypeOK' /\ LatchOK'
    BY <1>0, <2>2, <2>3 DEF RxTypeOK, IsrPcs, LatchOK
  <2>5. /\ \A k \in DOMAIN rxDone' : /\ k \in Nat /\ k >= 1 /\ k + 1 \in DOMAIN rxDone
                                     /\ rxDone'[k] = rxDone[k + 1]
        /\ \A k \in DOMAIN rxDone : k = 1 \/ \E i \in DOMAIN rxDone' : rxDone'[i] = rxDone[k]
    BY <2>1, <2>3, TailEntries
  <2>6. RxOut' = RxOut
    <3>1. ASSUME NEW c \in RxBufs, c \in RxOut PROVE c \in RxOut'
      BY <1>0, <2>3, <2>5, <3>1 DEF RxOut
    <3>2. ASSUME NEW c \in RxBufs, c \in RxOut' PROVE c \in RxOut
      BY <1>0, <2>2, <2>3, <2>5, <3>2 DEF RxOut
    <3> QED BY <3>1, <3>2 DEF RxOut
  <2>7. RxFreeApart' /\ RxDmaApart'
    BY <1>0, <2>2, <2>3, <2>5 DEF RxInv, RxFreeApart, RxDmaApart
  <2>8. RxDoneApart'
    BY <2>2, <2>3, <2>5 DEF RxInv, RxDoneApart
  <2>9. RxPcOK'
    BY <1>0, <2>1, <2>2, <2>3 DEF RxInv, RxPcOK
  <2>10. RxHomeOK'
    BY <1>0, <2>1, <2>2, <2>3, <2>5, <2>6 DEF RxInv, RxHomeOK
  <2>11. UNCHANGED RxRingT!ringVars
    BY <1>0, <2>6 DEF RxRingT!ringVars
  <2>12. RxRingT!RingInv'
    BY <2>11, RxRingT!NextInv, RxRingConstants DEF RxInv
  <2> QED BY <2>4, <2>7, <2>8, <2>9, <2>10, <2>11, <2>12 DEF RxInv
<1> QED BY <1>1, <1>2

(* The handler keeps the descriptor and stores the buffer in the queue. *)
LEMMA RxFillStep ==
    ASSUME RxInv, IsrRxFill
    PROVE  RxInv' /\ \E b \in RxBufs : RxRingT!Fill(b)
<1> DEFINE e == [hdr |-> isrDesc.hdr, lane |-> isrDesc.lane, lenErr |-> FALSE]
<1>0. /\ RxTypeOK /\ isrPc = "rxFill" /\ isrPc' = "rxPublish"
      /\ isrDesc \in RxDesc /\ isrBuf \in RxBufs
      /\ IsrHoldsRx /\ IsrHoldsRx' /\ UNCHANGED <<isrBuf, isrDesc>>
      /\ UNCHANGED <<rxMem, arrived, rxFree, rxDma, rxDone, descData, rPc, rRet>>
      /\ UNCHANGED <<rxRead, rxWrite, delivered, dropped>>
      /\ rxQueue' = [rxQueue EXCEPT ![rxWrite] = isrBuf]
      /\ rxBuffer' = [rxBuffer EXCEPT ![isrBuf] = e]
  BY DEF RxInv, RxPcOK, IsrRxFill, IsrGoto, IsrHoldsRx, cardVars, memVars, rxVars, rVars
<1>1. RxOut' = RxOut /\ isrBuf \in RxOut
  BY <1>0 DEF RxOut
<1>2. RxRingT!Fill(isrBuf)
  BY <1>0, <1>1 DEF RxRingT!Fill
<1>3. RxRingT!RingInv'
  BY <1>0, <1>2, RxRingT!NextInv, RxRingConstants DEF RxInv, RxRingT!Next
<1>4. e \in RxKept /\ e.lane = isrDesc.lane
  BY <1>0, DescBuf DEF RxKept
<1> HIDE DEF e
<1>5. RxTypeOK'
  BY <1>0, <1>4 DEF RxTypeOK, IsrPcs
<1>6. RxFreeApart' /\ RxDmaApart' /\ RxDoneApart' /\ LatchOK'
  BY <1>0 DEF RxInv, RxFreeApart, RxDmaApart, RxDoneApart, LatchOK
<1>7. RxPcOK'
  <2>1. rxWrite \in DOMAIN rxQueue
    BY RxRingConstants DEF RxInv, RxRingT!RingInv, RxRingT!TypeOK
  <2> QED BY <1>0, <2>1 DEF RxInv, RxPcOK
<1>8. RxHomeOK'
  <2>1. \A b \in RxBufs : rxBuffer'[b] = IF b = isrBuf THEN e ELSE rxBuffer[b]
    BY <1>0 DEF RxTypeOK
  <2> QED BY <1>0, <1>1, <1>4, <2>1 DEF RxInv, RxHomeOK
<1> QED BY <1>0, <1>2, <1>3, <1>5, <1>6, <1>7, <1>8 DEF RxInv

(* The handler advances the write pointer and wakes the reader up. *)
LEMMA RxPublishStep ==
    ASSUME RxInv, IsrRxPublish
    PROVE  RxInv' /\ RxRingT!Publish
<1>0. /\ RxTypeOK /\ isrPc = "rxPublish" /\ isrPc' = "rxReadA" /\ isrBuf \in RxBufs
      /\ IsrHoldsRx /\ ~IsrHoldsRx' /\ rxQueue[rxWrite] = isrBuf
      /\ UNCHANGED <<rxMem, arrived, rxFree, rxDma, rxDone, descData, rRet, isrDesc>>
      /\ UNCHANGED <<rxQueue, rxRead, rxBuffer, delivered, dropped>>
      /\ rPc' = IF rPc = "asleep" THEN "check" ELSE rPc
  BY DEF RxInv, RxPcOK, IsrRxPublish, IsrGoto, IsrHoldsRx, cardVars, memVars, rxVars
<1>1. RxOut' = RxOut \ {isrBuf} /\ isrBuf \in RxOut
  BY <1>0 DEF RxOut, RxInv, RxFreeApart, RxDmaApart, RxDoneApart
<1>2. RxRingT!Publish
  BY <1>0, <1>1, RxRingConstants DEF IsrRxPublish, RxRingT!Publish, RxSucc, RxRingT!Succ
<1>3. RxRingT!RingInv'
  BY <1>2, RxRingT!NextInv, RxRingConstants DEF RxInv, RxRingT!Next
<1>4. RxTypeOK'
  BY <1>0 DEF RxTypeOK, IsrPcs, RPcs
<1>5. RxFreeApart' /\ RxDmaApart' /\ RxDoneApart' /\ LatchOK'
  BY <1>0 DEF RxInv, RxFreeApart, RxDmaApart, RxDoneApart, LatchOK
<1>6. rxRead # rxWrite'
  BY <1>1, <1>2, RxRingT!InvNoCollision, RxRingConstants DEF RxInv, RxRingT!NoCollision, RxRingT!Publish
<1>7. RxPcOK'
  BY <1>0, <1>6 DEF RxPcOK
<1>8. RxHomeOK'
  BY <1>0, <1>1 DEF RxInv, RxHomeOK
<1> QED BY <1>2, <1>3, <1>4, <1>5, <1>7, <1>8 DEF RxInv

(* The device is closed: the handler gives the buffer back to its lane. *)
LEMMA RxDropStep ==
    ASSUME RxInv, IsrRxDrop
    PROVE  RxInv' /\ UNCHANGED RxRingT!ringVars
<1> DEFINE b == isrBuf
           n == isrDesc.lane
<1>0. /\ RxTypeOK /\ isrPc = "rxFill" /\ isrPc' = "rxReadA" /\ IsrHoldsRx /\ ~IsrHoldsRx'
      /\ isrDesc \in RxDesc /\ b \in RxBufs
      /\ UNCHANGED <<rxMem, arrived, rxDma, rxDone, descData, rxBuffer, rPc, rRet, isrDesc>>
      /\ UNCHANGED <<rxQueue, rxRead, rxWrite, delivered>>
      /\ rxFree' = [rxFree EXCEPT ![n] = Append(rxFree[n], b)]
      /\ dropped' = dropped \cup {isrDesc.hdr}
  BY DEF RxInv, RxPcOK, IsrRxDrop, IsrGoto, WriteRxFree, IsrHoldsRx, memVars, rxqVars
<1>1. n \in Lanes /\ n = Home(b) /\ rxFree[n] \in Seq(RxBufs) /\ isrDesc.hdr \in RxFrames
  BY <1>0, DescBuf DEF RxInv, RxTypeOK, RxHomeOK
<1>2. RxTypeOK'
  <2>1. Append(rxFree[n], b) \in Seq(RxBufs)
    BY <1>0, <1>1, AppendEntries
  <2> QED BY <1>0, <1>1, <2>1 DEF RxTypeOK, IsrPcs
<1> HIDE DEF n
<1>3. ASSUME NEW l \in Lanes, NEW k \in DOMAIN rxFree'[l]
      PROVE  \/ k \in DOMAIN rxFree[l] /\ rxFree'[l][k] = rxFree[l][k]
             \/ l = n /\ k = Len(rxFree[n]) + 1 /\ rxFree'[l][k] = b
  BY <1>0, <1>1, AppendEntries DEF RxTypeOK
<1>4. ASSUME NEW l \in Lanes, NEW k \in DOMAIN rxFree[l]
      PROVE  k \in DOMAIN rxFree'[l] /\ rxFree'[l][k] = rxFree[l][k]
  BY <1>0, <1>1, AppendEntries DEF RxTypeOK
<1>5. \E k \in DOMAIN rxFree'[n] : rxFree'[n][k] = b
  <2>1. rxFree'[n] = Append(rxFree[n], b)
    BY <1>0, <1>1 DEF RxTypeOK
  <2> QED BY <1>0, <1>1, <2>1, AppendEntries
<1>6. RxOut' = RxOut
  <2>1. ASSUME NEW c \in RxBufs, c \in RxOut PROVE c \in RxOut'
    BY <1>0, <1>1, <1>4, <1>5, <2>1 DEF RxOut
  <2>2. ASSUME NEW c \in RxBufs, c \in RxOut' PROVE c \in RxOut
    BY <1>0, <1>3, <2>2 DEF RxOut
  <2> QED BY <2>1, <2>2 DEF RxOut
<1>7. RxFreeApart'
  BY <1>0, <1>3 DEF RxInv, RxFreeApart, RxDmaApart, RxDoneApart
<1>8. RxDmaApart' /\ RxDoneApart' /\ LatchOK'
  BY <1>0 DEF RxInv, RxDmaApart, RxDoneApart, LatchOK
<1>9. RxPcOK'
  BY <1>0 DEF RxInv, RxPcOK
<1>10. RxHomeOK'
  BY <1>0, <1>1, <1>3, <1>6 DEF RxInv, RxHomeOK
<1>11. UNCHANGED RxRingT!ringVars
  BY <1>0, <1>6 DEF RxRingT!ringVars
<1>12. RxRingT!RingInv'
  BY <1>11, RxRingT!NextInv, RxRingConstants DEF RxInv
<1> QED BY <1>2, <1>7, <1>8, <1>9, <1>10, <1>11, <1>12 DEF RxInv

(* Reads and sleeps of the reader that move no buffer. *)
LEMMA ReaderQuiet ==
    ASSUME RxInv, ReadStart \/ ReadReturn \/ ReadSleep \/ ReadCopy
    PROVE  RxInv' /\ UNCHANGED RxRingT!ringVars
<1>0. RxTypeOK /\ RxPcOK /\ LatchOK
  BY DEF RxInv
<1>1. CASE ReadStart \/ ReadReturn \/ ReadSleep
  <2>1. /\ UNCHANGED <<cardVars, rxqVars, isrVars, rRet, delivered, dropped>>
        /\ rPc' \in {"idle", "check", "asleep"} /\ rPc # "advance"
    BY <1>1 DEF ReadStart, ReadReturn, ReadSleep, RGoto
  <2>2. RxTypeOK'
    BY <1>0, <2>1 DEF RxTypeOK, RPcs, cardVars, memVars, rxVars, rxqVars, isrVars
  <2>3. LatchOK'
    BY <1>0, <2>1 DEF LatchOK, cardVars, rxVars, isrVars
  <2>4. RxQuiet
    BY <2>1 DEF RxQuiet, cardVars, rxVars, rxqVars, isrVars
  <2> QED BY <2>1, <2>2, <2>3, <2>4, RxQuietStep
<1>2. CASE ReadCopy
  <2>0. /\ rxRead # rxWrite /\ rPc = "check" /\ rPc' = "cmd"
        /\ UNCHANGED <<cardVars, rxQueue, rxRead, rxWrite, isrVars, delivered, dropped>>
    BY <1>2 DEF ReadCopy, RGoto
  <2>1. RxHead \in RxBufs
    BY <2>0, RxRingT!HeadLive, RxRingConstants DEF RxInv, RxHead
  <2> DEFINE h == rxBuffer[RxHead]
  <2>2. PICK cut \in BOOLEAN, ok \in BOOLEAN :
           /\ rxBuffer' = [rxBuffer EXCEPT ![RxHead].lenErr = h.lenErr \/ cut]
           /\ rRet' = [hdr |-> h.hdr, lane |-> h.lane, data |-> IF ok THEN rxMem[RxHead] ELSE 0,
                       cut |-> cut, err |-> h.lenErr \/ cut]
    BY <1>2 DEF ReadCopy
  <2>3. h \in RxKept /\ h.hdr \in RxFrames /\ h.lane \in Lanes /\ h.lenErr \in BOOLEAN
    <3>1. h \in RxKept
      BY <1>0, <2>1 DEF RxTypeOK
    <3> QED BY <3>1 DEF RxKept
  <2>4. rRet' \in Ret
    <3>1. rxMem[RxHead] \in RxFrames /\ 0 \in RxFrames
      BY <1>0, <2>1, CardAssumption DEF RxTypeOK, RxFrames
    <3>2. (h.lenErr \/ cut) \in BOOLEAN
      BY Zenon
    <3> QED BY <2>2, <2>3, <3>1, <3>2 DEF Ret
  <2>5. /\ rxBuffer' \in [RxBufs -> RxKept]
        /\ \A b \in RxBufs : rxBuffer'[b].lane = rxBuffer[b].lane
    <3> DEFINE err == h.lenErr \/ cut
    <3>1. err \in BOOLEAN
      BY Zenon
    <3>2. rxBuffer' = [rxBuffer EXCEPT ![RxHead].lenErr = err]
      BY <2>2
    <3> HIDE DEF err
    <3>3. [h EXCEPT !.lenErr = err] \in RxKept /\ [h EXCEPT !.lenErr = err].lane = h.lane
      BY <2>3, <3>1 DEF RxKept
    <3> QED BY <1>0, <2>1, <3>2, <3>3 DEF RxTypeOK
  <2>6. RxTypeOK'
    BY <1>0, <2>0, <2>4, <2>5 DEF RxTypeOK, RPcs, cardVars, memVars, rxVars, isrVars
  <2>7. LatchOK'
    BY <1>0, <2>0 DEF LatchOK, cardVars, rxVars, isrVars
  <2>8. RxQuiet
    BY <2>0, <2>5 DEF RxQuiet, cardVars, rxVars, isrVars
  <2> QED BY <2>0, <2>6, <2>7, <2>8, RxQuietStep
<1> QED BY <1>1, <1>2

(* Steps of the handler that move no RX buffer. *)
LEMMA HandlerQuiet ==
    ASSUME RxInv,
           \/ IsrEnter \/ IsrDisable \/ IsrTxStat \/ IsrTxPop \/ IsrTxFill \/ IsrTxPublish
           \/ IsrRxStat \/ IsrRxReadA \/ IsrEnable
    PROVE  RxInv' /\ UNCHANGED RxRingT!ringVars
<1>0. RxTypeOK /\ RxPcOK /\ LatchOK
  BY DEF RxInv
<1>1. UNCHANGED <<rxMem, arrived, rxFree, rxDma, rxDone, rxqVars, rVars>>
  BY DEF IsrEnter, IsrDisable, IsrTxStat, IsrTxPop, IsrTxFill, IsrTxPublish, IsrRxStat, IsrRxReadA,
         IsrEnable, UnchangedButIsr, cardVars, memVars, rxVars
<1>2. isrPc' \in IsrPcs /\ ~IsrHoldsRx /\ ~IsrHoldsRx'
  BY DEF IsrEnter, IsrDisable, IsrTxStat, IsrTxPop, IsrTxFill, IsrTxPublish, IsrRxStat, IsrRxReadA,
         IsrEnable, IsrGoto, IsrHoldsRx, IsrPcs
<1>3. CASE IsrRxReadA
  <2>1. isrDesc' = RxReadAValue /\ descData' = RxReadAValue.buf
    BY <1>3 DEF IsrRxReadA, ReadRxA
  <2>2. CASE rxDone = << >>
    <3>1. isrDesc' = NoRxDesc /\ descData' = NoBuf
      BY <2>1, <2>2, DescBuf DEF RxReadAValue
    <3> QED BY <1>0, <1>1, <1>2, <3>1, RxQuietStep
            DEF RxTypeOK, LatchOK, RxQuiet, RxPcOK, rxqVars, rVars
  <2>3. CASE rxDone # << >>
    <3>1. Head(rxDone) = rxDone[1] /\ rxDone[1] \in RxDesc /\ rxDone[1].buf \in RxBufs
      BY <1>0, <2>3, TailEntries, DescBuf DEF RxTypeOK
    <3>2. isrDesc' = rxDone[1] /\ descData' = rxDone[1].buf
      BY <2>1, <2>3, <3>1 DEF RxReadAValue
    <3>3. RxTypeOK'
      BY <1>0, <1>1, <1>2, <3>1, <3>2 DEF RxTypeOK, rxqVars, rVars
    <3>4. LatchOK'
      BY <1>1, <2>3, <3>2 DEF LatchOK
    <3>5. RxQuiet
      BY <1>1, <1>2 DEF RxQuiet, rxqVars, rVars
    <3> QED BY <1>0, <1>1, <3>3, <3>4, <3>5, RxQuietStep DEF RxPcOK, rxqVars, rVars
  <2> QED BY <2>2, <2>3
<1>4. CASE ~IsrRxReadA
  <2>1. UNCHANGED <<descData, isrDesc>> /\ isrPc' # "rxReadB"
    BY <1>4 DEF IsrEnter, IsrDisable, IsrTxStat, IsrTxPop, IsrTxFill, IsrTxPublish, IsrRxStat,
           IsrEnable, IsrGoto, cardVars, rxVars
  <2>2. RxTypeOK'
    BY <1>0, <1>1, <1>2, <2>1 DEF RxTypeOK, rxqVars, rVars
  <2>3. LatchOK'
    BY <2>1 DEF LatchOK
  <2>4. RxQuiet
    BY <1>1, <1>2 DEF RxQuiet, rxqVars, rVars
  <2> QED BY <1>0, <1>1, <2>2, <2>3, <2>4, RxQuietStep DEF RxPcOK, rxqVars, rVars
<1> QED BY <1>3, <1>4

(* The steps of the writer, the transmit side and the interrupt machine.   *)
LEMMA RxUntouched ==
    ASSUME RxInv, UNCHANGED <<rxMem, rxVars, rxqVars, rVars, isrVars>>
    PROVE  RxInv' /\ UNCHANGED RxRingT!ringVars
<1>1. RxTypeOK' /\ LatchOK'
  BY DEF RxInv, RxTypeOK, LatchOK, rxVars, rxqVars, rVars, isrVars
<1>2. RxQuiet
  BY DEF RxQuiet, rxVars, rxqVars, rVars, isrVars
<1> QED BY <1>1, <1>2, RxQuietStep DEF RxInv, RxPcOK, rxqVars, rVars

(* Every step preserves the invariant and is a step of the abstract ring.  *)
LEMMA RxNextInv ==
    ASSUME RxInv, [Next]_vars
    PROVE  RxInv' /\ [RxRingT!Next]_RxRingT!ringVars
<1>1. CASE CardStep /\ UNCHANGED hostVars
  <2>1. ASSUME NEW l \in Lanes, TxNew(l) \/ TxDone(l)
        PROVE  UNCHANGED <<rxMem, rxVars, rxqVars, rVars, isrVars>>
    BY <1>1, <2>1 DEF TxNew, TxDone, hostVars, memVars
  <2>2. CASE IrqSet \/ IrqAck \/ IrqServ
    BY <1>1, <2>2, RxUntouched DEF IrqSet, IrqAck, IrqServ, IrqGoto, hostVars, memVars
  <2> QED BY <1>1, <2>1, <2>2, RxUntouched, RxNewStep, RxDoneStep DEF CardStep
<1>2. CASE Open \/ Release
  BY <1>2, RxUntouched DEF Open, Release, cardVars, memVars
<1>3. CASE Writer
  <2>1. UNCHANGED <<rxMem, rxVars, rxqVars, rVars, isrVars>>
    BY <1>3 DEF Writer, WriteStart, WriteReturn, WriteSleep, WriteCopy, WriteDescA, WriteBadLane,
                WriteDescB, WriteAdvance, cardVars, memVars
  <2> QED BY <2>1, RxUntouched
<1>4. CASE Reader
  BY <1>4, ReaderQuiet, ReadFreeStep, ReadAdvanceStep DEF Reader, RxRingT!Next
<1>5. CASE Handler
  <2>1. CASE IsrRxReadB
    BY <2>1, RxReadBStep
  <2>2. CASE IsrRxFill
    BY <2>2, RxFillStep DEF RxRingT!Next
  <2>3. CASE IsrRxPublish
    BY <2>3, RxPublishStep DEF RxRingT!Next
  <2>4. CASE IsrRxDrop
    BY <2>4, RxDropStep
  <2> QED BY <1>5, <2>1, <2>2, <2>3, <2>4, HandlerQuiet DEF Handler
<1>6. CASE UNCHANGED vars
  BY <1>6, RxUntouched DEF vars, cardVars, memVars, hostVars
<1> QED BY <1>1, <1>2, <1>3, <1>4, <1>5, <1>6 DEF Next

-----------------------------------------------------------------------------
(* The receive invariant holds in every reachable state. *)
THEOREM RxSafe == Spec => []RxInv
<1>1. Init => RxInv
  BY RxInitInv
<1>2. RxInv /\ [Next]_vars => RxInv'
  BY RxNextInv
<1> QED BY <1>1, <1>2, PTL DEF Spec

(* rxQueue with its two pointers behaves like the abstract ring, whatever  *)
(* the interleaving of PgpCard_Read, the handler, the card and close.      *)
THEOREM RxRefinesRing == Spec => RxRingSpec
<1>1. Init => RxRingT!Init
  BY RxInitInv
<1>2. RxInv /\ [Next]_vars => [RxRingT!Next]_RxRingT!ringVars
  BY RxNextInv
<1>3. Spec => RxRingT!Spec
  BY <1>1, <1>2, RxSafe, PTL DEF Spec, RxRingT!Spec
<1>4. RxRingT!Spec <=> RxRingSpec
  BY Zenon DEF RxRingSpec, RxRing!Spec, RxRingT!Spec, RxRing!Init, RxRingT!Init,
       RxRing!InitFull, RxRingT!InitFull, RxRing!InitEmpty, RxRingT!InitEmpty,
       RxRing!Next, RxRingT!Next, RxRing!ringVars, RxRingT!ringVars,
       RxRing!Fill, RxRingT!Fill, RxRing!Publish, RxRingT!Publish,
       RxRing!Release, RxRingT!Release, RxRing!Advance, RxRingT!Advance,
       RxRing!Succ, RxRingT!Succ, RxRing!Index, RxRingT!Index, RxRing!Size, RxRingT!Size,
       RxRing!Count, RxRingT!Count, RxRing!Cardinality, RxRingT!Cardinality
<1> QED BY <1>3, <1>4, PTL

(* Every buffer goes back to the free list of the lane PgpCard_Probe       *)
(* posted it to, whether Read or the handler of a closed device frees it.  *)
THEOREM RxBufferHome == Spec => []RxHomeLane
<1>1. RxInv => RxHomeLane
  BY DEF RxInv, RxHomeOK, RxHomeLane, Home
<1> QED BY <1>1, RxSafe, PTL

(* The live entries of the driver's ring are those of the abstract one.    *)
LEMMA RxLiveIsLive ==
    \A i : i \in RxLive <=> i \in RxIndex /\ RxRingT!IsLive(i)
BY RxRingConstants DEF RxLive, InRxWindow, RxRingT!IsLive, RxRingT!InUse, RxRingT!Used, RxRingT!Dist

(* No RX buffer is in two places. *)
LEMMA InvRxExclusive ==
    ASSUME RxInv, NEW b \in RxBufs
    PROVE  AtMostOne(RxHolders(b))
<1> SUFFICES ASSUME NEW p \in RxHolders(b), NEW q \in RxHolders(b)
             PROVE  p = q
  BY DEF AtMostOne
<1> DEFINE F(x) == \E l \in Lanes : \E k \in DOMAIN rxFree[l] : rxFree[l][k] = b /\ x = <<"free", l, k>>
           D(x) == \E l \in Lanes : rxDma[l].buf = b /\ x = <<"dma", l, 0>>
           E(x) == \E k \in DOMAIN rxDone : rxDone[k].buf = b /\ x = <<"done", 0, k>>
           I(x) == IsrHoldsRx /\ isrBuf = b /\ x = <<"isr", 0, 0>>
           Q(x) == \E i \in RxLive : rxQueue[i] = b /\ x = <<"queue", 0, i>>
<1>1. \A x \in RxHolders(b) : F(x) \/ D(x) \/ E(x) \/ I(x) \/ Q(x)
  <2> SUFFICES ASSUME NEW x \in RxHolders(b)
               PROVE  F(x) \/ D(x) \/ E(x) \/ I(x) \/ Q(x)
    OBVIOUS
  <2>1. CASE x \in UNION {{<<"free", l, k>> : k \in {j \in DOMAIN rxFree[l] : rxFree[l][j] = b}} : l \in Lanes}
    BY <2>1
  <2>2. CASE x \in {<<"dma", l, 0>> : l \in {m \in Lanes : rxDma[m].buf = b}}
    BY <2>2
  <2>3. CASE x \in {<<"done", 0, k>> : k \in {j \in DOMAIN rxDone : rxDone[j].buf = b}}
    BY <2>3
  <2>4. CASE x \in {<<"isr", 0, 0>> : z \in {y \in {isrBuf} : IsrHoldsRx /\ y = b}}
    BY <2>4
  <2>5. CASE x \in {<<"queue", 0, i>> : i \in {j \in RxLive : rxQueue[j] = b}}
    BY <2>5
  <2> QED BY <2>1, <2>2, <2>3, <2>4, <2>5 DEF RxHolders
<1>2. \A x : F(x) \/ D(x) \/ E(x) \/ I(x) => b \in RxOut
  BY DEF RxOut
<1>3. \A x : Q(x) => b \notin RxOut
  BY RxLiveIsLive, RxRingConstants DEF RxInv, RxRingT!RingInv, RxRingT!NoAliasing
<1>4. ASSUME Q(p), Q(q) PROVE p = q
  BY <1>4, RxLiveIsLive, RxRingConstants DEF RxInv, RxRingT!RingInv, RxRingT!NoAliasing
<1>5. b # NoBuf
  BY DEF RxBufs, NoBuf
<1>6. ASSUME F(p) PROVE q = p \/ Q(q)
  BY <1>1, <1>6 DEF RxInv, RxFreeApart
<1>7. ASSUME F(q) PROVE q = p \/ Q(p)
  BY <1>1, <1>7 DEF RxInv, RxFreeApart
<1>8. ASSUME D(p) PROVE ~E(q) /\ ~I(q) /\ (D(q) => p = q)
  BY <1>5, <1>8 DEF RxInv, RxDmaApart, NoRxDesc
<1>9. ASSUME D(q) PROVE ~E(p) /\ ~I(p)
  BY <1>9 DEF RxInv, RxDmaApart
<1>10. ASSUME E(p) PROVE ~I(q) /\ (E(q) => p = q)
  BY <1>10 DEF RxInv, RxDoneApart
<1>11. ASSUME E(q) PROVE ~I(p)
  BY <1>11 DEF RxInv, RxDoneApart
<1>12. F(p) \/ D(p) \/ E(p) \/ I(p) \/ Q(p)
  BY <1>1
<1>13. F(q) \/ D(q) \/ E(q) \/ I(q) \/ Q(q)
  BY <1>1
<1>14. I(p) /\ I(q) => p = q
  OBVIOUS
<1> HIDE DEF F, D, E, I, Q
<1> QED BY <1>2, <1>3, <1>4, <1>6, <1>7, <1>8, <1>9, <1>10, <1>11, <1>12, <1>13, <1>14

(* Every RX buffer is in exactly one place: a frame that Read is copying   *)
(* is never overwritten by the card, and no buffer leaks, although Read    *)
(* frees a buffer before it retires its queue entry and the device may be  *)
(* closed at any moment.                                                   *)
THEOREM RxBufferConserved == Spec => []RxConserved
<1>1. RxInv => RxConserved
  <2> SUFFICES ASSUME RxInv, NEW b \in RxBufs
               PROVE  RxHolders(b) # {} /\ AtMostOne(RxHolders(b))
    BY DEF RxConserved
  <2>1. CASE b \in RxOut
    <3>1. \A l \in Lanes : \A k \in DOMAIN rxFree[l] : rxFree[l][k] = b => <<"free", l, k>> \in RxHolders(b)
      BY DEF RxHolders
    <3>2. \A l \in Lanes : rxDma[l].buf = b => <<"dma", l, 0>> \in RxHolders(b)
      BY DEF RxHolders
    <3>3. \A k \in DOMAIN rxDone : rxDone[k].buf = b => <<"done", 0, k>> \in RxHolders(b)
      BY DEF RxHolders
    <3>4. IsrHoldsRx /\ isrBuf = b => <<"isr", 0, 0>> \in RxHolders(b)
      BY DEF RxHolders
    <3> QED BY <2>1, <3>1, <3>2, <3>3, <3>4, InvRxExclusive DEF RxOut
  <2>2. ASSUME NEW i \in RxLive, rxQueue[i] = b PROVE RxHolders(b) # {}
    <3>1. <<"queue", 0, i>> \in RxHolders(b)
      BY <2>2 DEF RxHolders
    <3> QED BY <3>1
  <2> QED BY <2>1, <2>2, RxLiveIsLive, RxRingConstants, InvRxExclusive
          DEF RxInv, RxRingT!RingInv, RxRingT!NoLeak
<1> QED BY <1>1, RxSafe, PTL

-----------------------------------------------------------------------------
(* The variables neither direction owns. *)
SharedTypeOK ==
    /\ isOpen \in BOOLEAN
    /\ irqEnable \in BOOLEAN
    /\ irqState \in IrqStates
    /\ isrBuf \in TxBufs \cup RxBufs \cup {NoBuf}

(* The three parts are the type invariant. *)
LEMMA PartsAreTypeOK ==
    ASSUME TxInv, RxInv, SharedTypeOK
    PROVE  TypeOK
<1>1. txQueue \in [TxIndex -> TxBufs \cup {NoBuf}] /\ txRead \in TxIndex /\ txWrite \in TxIndex
  BY TxRingConstants DEF TxInv, TxRingT!RingInv, TxRingT!TypeOK
<1>2. rxQueue \in [RxIndex -> RxBufs \cup {NoBuf}] /\ rxRead \in RxIndex /\ rxWrite \in RxIndex
  BY RxRingConstants DEF RxInv, RxRingT!RingInv, RxRingT!TypeOK
<1>3. wLane \in Nat
  BY CardAssumption DEF TxInv, TxTypeOK, Lanes
<1>4. CardTypeOK
  BY DEF CardTypeOK, TxInv, TxTypeOK, RxInv, RxTypeOK, SharedTypeOK
<1> QED BY <1>1, <1>2, <1>3, <1>4 DEF TypeOK, TxInv, TxTypeOK, RxInv, RxTypeOK, RxKept, SharedTypeOK

(* Every step keeps the shared variables in their types. *)
LEMMA SharedNext ==
    ASSUME TxInv, RxInv, SharedTypeOK, [Next]_vars
    PROVE  SharedTypeOK'
<1>1. CASE CardStep /\ UNCHANGED hostVars
  <2>1. isOpen' = isOpen /\ isrBuf' = isrBuf
    BY <1>1 DEF hostVars, openVars, isrVars
  <2>2. irqEnable' = irqEnable /\ (irqState' = irqState \/ irqState' \in IrqStates)
    BY <1>1 DEF CardStep, TxNew, TxDone, RxNew, RxDone, IrqSet, IrqAck, IrqServ, IrqGoto, irqVars, IrqStates
  <2> QED BY <2>1, <2>2 DEF SharedTypeOK
<1>2. CASE Open \/ Release
  BY <1>2 DEF Open, Release, cardVars, irqVars, isrVars, SharedTypeOK
<1>3. CASE Writer \/ Reader
  <2>1. UNCHANGED <<openVars, irqVars, isrVars>>
    BY <1>3 DEF Writer, WriteStart, WriteReturn, WriteSleep, WriteCopy, WriteDescA, WriteBadLane,
                WriteDescB, WriteAdvance,
                Reader, ReadStart, ReadReturn, ReadSleep, ReadCopy, ReadFree, ReadAdvance, cardVars
  <2> QED BY <2>1 DEF openVars, irqVars, isrVars, SharedTypeOK
<1>4. CASE Handler
  <2>1. UNCHANGED openVars /\ irqState' = irqState /\ irqEnable' \in BOOLEAN
    BY <1>4 DEF Handler, IsrEnter, IsrDisable, IsrTxStat, IsrTxPop, IsrTxFill, IsrTxPublish,
                IsrRxStat, IsrRxReadA, IsrRxReadB, IsrRxFill, IsrRxDrop, IsrRxPublish, IsrEnable,
                UnchangedButIsr, cardVars, irqVars, SharedTypeOK
  <2>2. isrBuf' \in {isrBuf, NoBuf, TxReadValue, descData}
    BY <1>4 DEF Handler, IsrEnter, IsrDisable, IsrTxStat, IsrTxPop, IsrTxFill, IsrTxPublish,
                IsrRxStat, IsrRxReadA, IsrRxReadB, IsrRxFill, IsrRxDrop, IsrRxPublish, IsrEnable
  <2>3. TxReadValue \in TxBufs \cup {NoBuf} /\ descData \in RxBufs \cup {NoBuf}
    BY TailEntries DEF TxInv, TxTypeOK, RxInv, RxTypeOK, TxReadValue
  <2> QED BY <2>1, <2>2, <2>3 DEF openVars, SharedTypeOK
<1>5. CASE UNCHANGED vars
  BY <1>5 DEF vars, cardVars, irqVars, hostVars, openVars, isrVars, SharedTypeOK
<1> QED BY <1>1, <1>2, <1>3, <1>4, <1>5 DEF Next

(* Every variable of the driver and the card keeps its type: the driver    *)
(* only hands addresses of its own buffers to the card and never reads an  *)
(* entry that was not filled.                                              *)
THEOREM DriverTypeOK == Spec => []TypeOK
<1>1. Init => SharedTypeOK
  BY DEF Init, CardInit, SharedTypeOK, IrqStates
<1>2. TxInv /\ RxInv /\ SharedTypeOK /\ [Next]_vars => SharedTypeOK'
  BY SharedNext
<1>3. TxInv /\ RxInv /\ SharedTypeOK => TypeOK
  BY PartsAreTypeOK
<1> QED BY <1>1, <1>2, <1>3, TxSafe, RxSafe, PTL DEF Spec
=============================================================================
