------------------------- MODULE PgpCardDataProofs -------------------------
(***************************************************************************)
(* What travels in the buffers, for any number of lanes, buffers and       *)
(* frames.  Transmit: each lane sends the frames written to it, in order,  *)
(* header and payload of the same Write.  Receive: a frame is in one place *)
(* only, Read returns it with its own payload, and the frames of a lane    *)
(* keep their order.  The buffer invariants TxInv and RxInv say who may    *)
(* touch a buffer; the invariants here say what is in it.                  *)
(***************************************************************************)
EXTENDS PgpCardQueueProofs

(* Frames of a lane that its transmit channel is working on. *)
TxCarried(l) == IF txDma[l] = NoTxDesc THEN 0 ELSE 1

(* The frames submitted to a lane are those it has sent, followed by the   *)
(* one in its channel and by those in its FIFO, each with its payload.     *)
TxLaneOK(l) ==
    /\ Len(submitted[l]) = Len(sent[l]) + TxCarried(l) + Len(tFifo[l])
    /\ \A k \in DOMAIN sent[l] :
           sent[l][k] = [hdr |-> submitted[l][k], data |-> submitted[l][k]]
    /\ txDma[l] # NoTxDesc =>
           /\ txDma[l].hdr = submitted[l][Len(sent[l]) + 1]
           /\ txMem[txDma[l].buf] = submitted[l][Len(sent[l]) + 1]
    /\ \A k \in DOMAIN tFifo[l] :
           /\ tFifo[l][k].hdr = submitted[l][Len(sent[l]) + TxCarried(l) + k]
           /\ txMem[tFifo[l][k].buf] = submitted[l][Len(sent[l]) + TxCarried(l) + k]

(* The writer's buffer holds its payload, the latch its header. *)
TxWriterOK ==
    /\ wPc \in {"descA", "descB"} => txMem[txQueue[txRead]] = wFrame
    /\ wPc = "descB" => tFifoDin = wFrame

TxDataOK == TxWriterOK /\ \A l \in Lanes : TxLaneOK(l)

(* Types of the parts of one lane. *)
LEMMA TxLaneTypes ==
    ASSUME TxTypeOK, NEW l \in Lanes
    PROVE  /\ submitted[l] \in Seq(TxFrames) /\ tFifo[l] \in Seq(TxDesc)
           /\ sent[l] \in Seq([hdr : TxFrames, data : TxFrames])
           /\ Len(submitted[l]) \in Nat /\ Len(tFifo[l]) \in Nat /\ Len(sent[l]) \in Nat
           /\ DOMAIN submitted[l] = 1 .. Len(submitted[l])
           /\ DOMAIN tFifo[l] = 1 .. Len(tFifo[l]) /\ DOMAIN sent[l] = 1 .. Len(sent[l])
           /\ txDma[l] = NoTxDesc \/ txDma[l] \in TxDesc
           /\ TxCarried(l) \in {0, 1}
<1>1. /\ submitted[l] \in Seq(TxFrames) /\ tFifo[l] \in Seq(TxDesc)
      /\ sent[l] \in Seq([hdr : TxFrames, data : TxFrames])
      /\ txDma[l] = NoTxDesc \/ txDma[l] \in TxDesc
  BY DEF TxTypeOK
<1>2. TxCarried(l) \in {0, 1}
  BY DEF TxCarried
<1> QED BY <1>1, <1>2

(* A lane whose FIFO, channel, history and payloads are left alone. *)
LEMMA TxLaneSame ==
    ASSUME NEW l \in Lanes, TxLaneOK(l),
           submitted'[l] = submitted[l], sent'[l] = sent[l],
           tFifo'[l] = tFifo[l], txDma'[l] = txDma[l],
           \A k \in DOMAIN tFifo[l] : txMem'[tFifo[l][k].buf] = txMem[tFifo[l][k].buf],
           txDma[l] # NoTxDesc => txMem'[txDma[l].buf] = txMem[txDma[l].buf]
    PROVE  TxLaneOK(l)'
<1>1. TxCarried(l)' = TxCarried(l)
  BY DEF TxCarried
<1>2. (Len(submitted[l]) = Len(sent[l]) + TxCarried(l) + Len(tFifo[l]))'
  BY <1>1 DEF TxLaneOK
<1>3. (\A k \in DOMAIN sent[l] : sent[l][k] = [hdr |-> submitted[l][k], data |-> submitted[l][k]])'
  BY DEF TxLaneOK
<1>4. (txDma[l] # NoTxDesc => /\ txDma[l].hdr = submitted[l][Len(sent[l]) + 1]
                              /\ txMem[txDma[l].buf] = submitted[l][Len(sent[l]) + 1])'
  BY DEF TxLaneOK
<1>5. (\A k \in DOMAIN tFifo[l] :
           /\ tFifo[l][k].hdr = submitted[l][Len(sent[l]) + TxCarried(l) + k]
           /\ txMem[tFifo[l][k].buf] = submitted[l][Len(sent[l]) + TxCarried(l) + k])'
  BY <1>1 DEF TxLaneOK
<1> QED BY <1>2, <1>3, <1>4, <1>5 DEF TxLaneOK

(* The writer copies the payload into a buffer the card does not have. *)
LEMMA TxCopyData ==
    ASSUME TxInv, TxDataOK, WriteCopy
    PROVE  TxDataOK'
<1> DEFINE b == txQueue[txRead]
<1>0. /\ TxTypeOK /\ txRead # txWrite /\ wPc = "check" /\ wPc' = "descA"
      /\ UNCHANGED <<tFifoDin, tFifo, txDma, sent, submitted, txQueue, txRead, wFrame>>
      /\ txMem' = [txMem EXCEPT ![b] = wFrame]
  BY DEF TxInv, WriteCopy, WGoto, txVars, txqVars
<1>1. b \in TxBufs \ TxOut
  BY <1>0, TxRingT!HeadLive, TxRingConstants DEF TxInv, QueueApart
<1> HIDE DEF b
<1>2. txMem'[b] = wFrame /\ \A c \in TxBufs : c # b => txMem'[c] = txMem[c]
  BY <1>0, <1>1 DEF TxTypeOK
<1>3. ASSUME NEW l \in Lanes
      PROVE  TxLaneOK(l)'
  <2>1. /\ tFifo[l] \in Seq(TxDesc) /\ (txDma[l] = NoTxDesc \/ txDma[l] \in TxDesc)
        /\ \A k \in DOMAIN tFifo[l] : tFifo[l][k] \in TxDesc
    BY <1>0, TxLaneTypes
  <2>2. \A k \in DOMAIN tFifo[l] : tFifo[l][k].buf \in TxBufs /\ tFifo[l][k].buf # b
    BY <1>1, <2>1 DEF TxOut, TxDesc
  <2>3. txDma[l] # NoTxDesc => txDma[l].buf \in TxBufs /\ txDma[l].buf # b
    BY <1>1, <2>1 DEF TxOut, TxDesc
  <2>4. TxLaneOK(l)
    BY DEF TxDataOK
  <2> QED BY <1>0, <1>2, <2>2, <2>3, <2>4, TxLaneSame
<1>4. TxWriterOK'
  <2>1. b' = b
    BY <1>0 DEF b
  <2> QED BY <1>0, <1>2, <2>1 DEF TxWriterOK, b
<1> QED BY <1>3, <1>4 DEF TxDataOK

(* The second half of the descriptor completes the latched first half. *)
LEMMA TxDescBData ==
    ASSUME TxInv, TxDataOK, WriteDescB
    PROVE  TxDataOK'
<1> DEFINE b == txQueue[txRead]
           e == [hdr |-> tFifoDin, buf |-> b]
<1>0. /\ TxTypeOK /\ txRead # txWrite /\ wPc = "descB" /\ wPc' = "advance" /\ wLane \in Lanes
      /\ wFrame \in TxFrames
      /\ UNCHANGED <<txMem, tFifoDin, txDma, sent>>
      /\ tFifo' = [tFifo EXCEPT ![wLane] = Append(tFifo[wLane], e)]
      /\ submitted' = [submitted EXCEPT ![wLane] = Append(submitted[wLane], wFrame)]
  BY DEF TxInv, TxPcOK, TxTypeOK, WriteDescB, WriteTxB, WGoto, memVars
<1>1. b \in TxBufs
  BY <1>0, TxRingT!HeadLive, TxRingConstants DEF TxInv
<1>2. e \in TxDesc /\ e.hdr = wFrame /\ txMem[e.buf] = wFrame
  <2>1. tFifoDin = wFrame /\ txMem[b] = wFrame
    BY <1>0 DEF TxDataOK, TxWriterOK
  <2> QED BY <1>0, <1>1, <2>1 DEF TxDesc
<1> HIDE DEF e
<1>3. TxWriterOK'
  BY <1>0 DEF TxWriterOK
<1>4. ASSUME NEW l \in Lanes, l # wLane
      PROVE  TxLaneOK(l)'
  <2>1. tFifo'[l] = tFifo[l] /\ submitted'[l] = submitted[l] /\ TxLaneOK(l)
    BY <1>0, <1>4 DEF TxTypeOK, TxDataOK
  <2> QED BY <1>0, <2>1, TxLaneSame
<1>5. ASSUME NEW l \in Lanes, l = wLane
      PROVE  TxLaneOK(l)'
  <2> DEFINE s == submitted[l]
             f == tFifo[l]
             n == Len(sent[l])
             d == TxCarried(l)
  <2>1. /\ s \in Seq(TxFrames) /\ f \in Seq(TxDesc) /\ n \in Nat /\ d \in Nat
        /\ Len(s) \in Nat /\ Len(f) \in Nat
        /\ DOMAIN s = 1 .. Len(s) /\ DOMAIN f = 1 .. Len(f) /\ DOMAIN sent[l] = 1 .. n
    BY <1>0, <1>5, TxLaneTypes
  <2>2. submitted'[l] = Append(s, wFrame) /\ tFifo'[l] = Append(f, e)
    BY <1>0, <1>5 DEF TxTypeOK
  <2>3. TxCarried(l)' = d /\ txDma'[l] = txDma[l] /\ sent'[l] = sent[l]
    BY <1>0, <1>5 DEF TxCarried
  <2>4. /\ Len(s) = n + d + Len(f)
        /\ \A k \in DOMAIN sent[l] : sent[l][k] = [hdr |-> s[k], data |-> s[k]]
        /\ txDma[l] # NoTxDesc => txDma[l].hdr = s[n + 1] /\ txMem[txDma[l].buf] = s[n + 1]
        /\ txDma[l] # NoTxDesc => d = 1
        /\ \A k \in DOMAIN f : f[k].hdr = s[n + d + k] /\ txMem[f[k].buf] = s[n + d + k]
    BY <1>0, <1>5 DEF TxDataOK, TxLaneOK, TxCarried
  <2> HIDE DEF n, d
  <2>5. /\ Len(Append(s, wFrame)) = Len(s) + 1 /\ Len(Append(f, e)) = Len(f) + 1
        /\ DOMAIN Append(f, e) = 1 .. (Len(f) + 1)
        /\ \A k \in 1 .. Len(s) : Append(s, wFrame)[k] = s[k]
        /\ Append(s, wFrame)[Len(s) + 1] = wFrame
        /\ \A k \in 1 .. Len(f) : Append(f, e)[k] = f[k]
        /\ Append(f, e)[Len(f) + 1] = e
    BY <1>0, <1>5, <1>2, <2>1
  <2> HIDE DEF s, f
  <2>6. \A k \in 1 .. n : k \in 1 .. Len(s)
    BY <2>1, <2>4
  <2>7. txDma[l] # NoTxDesc => n + 1 \in 1 .. Len(s)
    BY <2>1, <2>4
  <2>8. \A k \in 1 .. Len(f) : n + d + k \in 1 .. Len(s)
    BY <2>1, <2>4
  <2>9. ASSUME NEW k \in 1 .. (Len(f) + 1)
        PROVE  /\ Append(f, e)[k].hdr = Append(s, wFrame)[n + d + k]
               /\ txMem[Append(f, e)[k].buf] = Append(s, wFrame)[n + d + k]
    <3>1. CASE k \in 1 .. Len(f)
      BY <2>1, <2>4, <2>5, <2>8, <3>1
    <3>2. CASE k = Len(f) + 1
      <4>1. n + d + k = Len(s) + 1
        BY <2>1, <2>4, <3>2
      <4> QED BY <1>2, <2>5, <3>2, <4>1
    <3>3. k \in 1 .. Len(f) \/ k = Len(f) + 1
      <4>1. Len(f) \in Nat
        BY <2>1
      <4> QED BY <4>1
    <3> QED BY <3>1, <3>2, <3>3
  <2>10. Len(Append(s, wFrame)) = n + d + Len(Append(f, e))
    BY <2>1, <2>4, <2>5
  <2>11. \A k \in DOMAIN sent[l] :
            sent[l][k] = [hdr |-> Append(s, wFrame)[k], data |-> Append(s, wFrame)[k]]
    BY <2>1, <2>4, <2>5, <2>6
  <2>12. txDma[l] # NoTxDesc =>
            txDma[l].hdr = Append(s, wFrame)[n + 1] /\ txMem[txDma[l].buf] = Append(s, wFrame)[n + 1]
    BY <2>4, <2>5, <2>7
  <2>13. Len(sent'[l]) = n
    BY <2>3 DEF n
  <2>14. (Len(submitted[l]) = Len(sent[l]) + TxCarried(l) + Len(tFifo[l]))'
    BY <2>2, <2>3, <2>10, <2>13
  <2>15. (\A k \in DOMAIN sent[l] : sent[l][k] = [hdr |-> submitted[l][k], data |-> submitted[l][k]])'
    BY <2>2, <2>3, <2>11
  <2>16. (txDma[l] # NoTxDesc => /\ txDma[l].hdr = submitted[l][Len(sent[l]) + 1]
                                 /\ txMem[txDma[l].buf] = submitted[l][Len(sent[l]) + 1])'
    BY <1>0, <2>2, <2>3, <2>12, <2>13
  <2>17. (\A k \in DOMAIN tFifo[l] :
             /\ tFifo[l][k].hdr = submitted[l][Len(sent[l]) + TxCarried(l) + k]
             /\ txMem[tFifo[l][k].buf] = submitted[l][Len(sent[l]) + TxCarried(l) + k])'
    <3> DEFINE g == Append(f, e)
               t == Append(s, wFrame)
    <3>1. DOMAIN g = 1 .. (Len(f) + 1) /\ tFifo'[l] = g /\ submitted'[l] = t
      BY <2>2, <2>5
    <3>2. \A k \in 1 .. (Len(f) + 1) : g[k].hdr = t[n + d + k] /\ txMem[g[k].buf] = t[n + d + k]
      BY <2>9
    <3> HIDE DEF g, t
    <3> QED BY <1>0, <2>3, <2>13, <3>1, <3>2
  <2> QED BY <2>14, <2>15, <2>16, <2>17 DEF TxLaneOK
<1> QED BY <1>3, <1>4, <1>5 DEF TxDataOK

(* The channel takes the oldest descriptor of its FIFO. *)
LEMMA TxNewData ==
    ASSUME TxInv, TxDataOK, NEW m \in Lanes, TxNew(m), UNCHANGED hostVars
    PROVE  TxDataOK'
<1>0. /\ TxTypeOK /\ tFifo[m] # << >> /\ txDma[m] = NoTxDesc
      /\ UNCHANGED <<txMem, tFifoDin, sent, submitted, txQueue, txRead, wPc, wFrame>>
      /\ tFifo' = [tFifo EXCEPT ![m] = Tail(tFifo[m])]
      /\ txDma' = [txDma EXCEPT ![m] = Head(tFifo[m])]
  BY DEF TxInv, TxNew, memVars, hostVars, txqVars, wVars
<1>1. TxWriterOK'
  BY <1>0 DEF TxDataOK, TxWriterOK
<1>2. ASSUME NEW l \in Lanes, l # m
      PROVE  TxLaneOK(l)'
  <2>1. tFifo'[l] = tFifo[l] /\ txDma'[l] = txDma[l] /\ TxLaneOK(l)
    BY <1>0, <1>2 DEF TxTypeOK, TxDataOK
  <2> QED BY <1>0, <2>1, TxLaneSame
<1>3. TxLaneOK(m)'
  <2> DEFINE s == submitted[m]
             f == tFifo[m]
             n == Len(sent[m])
  <2>1. /\ f \in Seq(TxDesc) /\ n \in Nat /\ Len(s) \in Nat /\ Len(f) \in Nat
        /\ DOMAIN f = 1 .. Len(f)
    BY <1>0, TxLaneTypes
  <2>2. /\ tFifo'[m] = Tail(f) /\ txDma'[m] = f[1] /\ f[1] \in TxDesc
        /\ Len(f) >= 1 /\ Len(Tail(f)) = Len(f) - 1
        /\ \A k \in DOMAIN Tail(f) : k + 1 \in 1 .. Len(f) /\ k \in Nat /\ Tail(f)[k] = f[k + 1]
    BY <1>0, <2>1 DEF TxTypeOK
  <2>3. TxCarried(m) = 0 /\ TxCarried(m)' = 1
    BY <1>0, <2>2 DEF TxCarried, TxDesc, NoTxDesc, TxBufs, NoBuf
  <2>4. /\ Len(s) = n + Len(f)
        /\ \A k \in DOMAIN sent[m] : sent[m][k] = [hdr |-> s[k], data |-> s[k]]
        /\ \A k \in 1 .. Len(f) : f[k].hdr = s[n + k] /\ txMem[f[k].buf] = s[n + k]
    <3>1. TxLaneOK(m)
      BY DEF TxDataOK
    <3>2. /\ Len(s) = n + TxCarried(m) + Len(f)
          /\ \A k \in DOMAIN sent[m] : sent[m][k] = [hdr |-> s[k], data |-> s[k]]
          /\ \A k \in DOMAIN f : /\ f[k].hdr = s[n + TxCarried(m) + k]
                                /\ txMem[f[k].buf] = s[n + TxCarried(m) + k]
      BY <3>1 DEF TxLaneOK
    <3>3. \A k \in 1 .. Len(f) : n + TxCarried(m) + k = n + k
      BY <2>1, <2>3
    <3> HIDE DEF s, f, n
    <3> QED BY <2>1, <2>3, <3>2, <3>3
  <2>5. submitted'[m] = s /\ sent'[m] = sent[m] /\ Len(sent'[m]) = n
    BY <1>0
  <2> HIDE DEF s, f, n
  <2>6. (Len(submitted[m]) = Len(sent[m]) + TxCarried(m) + Len(tFifo[m]))'
    <3>1. Len(s) = n + 1 + Len(Tail(f))
      <4>1. Len(Tail(f)) = Len(f) - 1 /\ Len(s) = n + Len(f) /\ n \in Nat /\ Len(f) \in Nat
        BY <2>1, <2>2, <2>4
      <4>2. n + Len(f) = n + 1 + (Len(f) - 1)
        BY <4>1
      <4> QED BY <4>1, <4>2
    <3> QED BY <2>2, <2>3, <2>5, <3>1
  <2>7. (\A k \in DOMAIN sent[m] : sent[m][k] = [hdr |-> submitted[m][k], data |-> submitted[m][k]])'
    BY <2>4, <2>5
  <2>8. (txDma[m] # NoTxDesc => /\ txDma[m].hdr = submitted[m][Len(sent[m]) + 1]
                                /\ txMem[txDma[m].buf] = submitted[m][Len(sent[m]) + 1])'
    BY <1>0, <2>1, <2>2, <2>4, <2>5
  <2>9. (\A k \in DOMAIN tFifo[m] :
             /\ tFifo[m][k].hdr = submitted[m][Len(sent[m]) + TxCarried(m) + k]
             /\ txMem[tFifo[m][k].buf] = submitted[m][Len(sent[m]) + TxCarried(m) + k])'
    <3> DEFINE g == Tail(f)
    <3>1. ASSUME NEW k \in DOMAIN g
          PROVE  g[k].hdr = s[n + 1 + k] /\ txMem[g[k].buf] = s[n + 1 + k]
      <4>1. k + 1 \in 1 .. Len(f) /\ n + (k + 1) = n + 1 + k /\ g[k] = f[k + 1]
        BY <2>1, <2>2, <3>1
      <4> QED BY <2>4, <4>1
    <3>2. tFifo'[m] = g /\ txMem' = txMem
      BY <1>0, <2>2
    <3> HIDE DEF g
    <3> QED BY <2>3, <2>5, <3>1, <3>2
  <2> QED BY <2>6, <2>7, <2>8, <2>9 DEF TxLaneOK
<1> QED BY <1>1, <1>2, <1>3 DEF TxDataOK

(* The channel has sent its frame. *)
LEMMA TxDoneData ==
    ASSUME TxInv, TxDataOK, NEW m \in Lanes, TxDone(m), UNCHANGED hostVars
    PROVE  TxDataOK'
<1> DEFINE e == [hdr |-> txDma[m].hdr, data |-> txMem[txDma[m].buf]]
<1>0. /\ TxTypeOK /\ txDma[m] # NoTxDesc
      /\ UNCHANGED <<txMem, tFifoDin, tFifo, submitted, txQueue, txRead, wPc, wFrame>>
      /\ sent' = [sent EXCEPT ![m] = Append(sent[m], e)]
      /\ txDma' = [txDma EXCEPT ![m] = NoTxDesc]
  BY DEF TxInv, TxDone, memVars, hostVars, txqVars, wVars
<1> HIDE DEF e
<1>1. TxWriterOK'
  BY <1>0 DEF TxDataOK, TxWriterOK
<1>2. ASSUME NEW l \in Lanes, l # m
      PROVE  TxLaneOK(l)'
  <2>1. sent'[l] = sent[l] /\ txDma'[l] = txDma[l] /\ TxLaneOK(l)
    BY <1>0, <1>2 DEF TxTypeOK, TxDataOK
  <2> QED BY <1>0, <2>1, TxLaneSame
<1>3. TxLaneOK(m)'
  <2> DEFINE s == submitted[m]
             f == tFifo[m]
             t == sent[m]
             n == Len(t)
  <2>1. /\ t \in Seq([hdr : TxFrames, data : TxFrames]) /\ n \in Nat
        /\ Len(s) \in Nat /\ Len(f) \in Nat /\ DOMAIN f = 1 .. Len(f) /\ DOMAIN t = 1 .. n
    BY <1>0, TxLaneTypes
  <2>2. TxCarried(m) = 1 /\ TxCarried(m)' = 0 /\ txDma'[m] = NoTxDesc
    BY <1>0 DEF TxCarried, TxTypeOK
  <2>3. /\ Len(s) = n + 1 + Len(f)
        /\ \A k \in 1 .. n : t[k] = [hdr |-> s[k], data |-> s[k]]
        /\ e = [hdr |-> s[n + 1], data |-> s[n + 1]]
        /\ \A k \in 1 .. Len(f) : f[k].hdr = s[n + 1 + k] /\ txMem[f[k].buf] = s[n + 1 + k]
    <3>1. TxLaneOK(m)
      BY DEF TxDataOK
    <3>2. /\ Len(s) = n + TxCarried(m) + Len(f)
          /\ \A k \in DOMAIN t : t[k] = [hdr |-> s[k], data |-> s[k]]
          /\ txDma[m].hdr = s[n + 1] /\ txMem[txDma[m].buf] = s[n + 1]
          /\ \A k \in DOMAIN f : /\ f[k].hdr = s[n + TxCarried(m) + k]
                                /\ txMem[f[k].buf] = s[n + TxCarried(m) + k]
      BY <1>0, <3>1 DEF TxLaneOK
    <3>3. e = [hdr |-> s[n + 1], data |-> s[n + 1]]
      BY <3>2 DEF e
    <3> HIDE DEF s, f, t, n
    <3> QED BY <2>1, <2>2, <3>2, <3>3
  <2>4. sent'[m] = Append(t, e) /\ submitted'[m] = s /\ tFifo'[m] = f
    BY <1>0 DEF TxTypeOK
  <2>5. e \in [hdr : TxFrames, data : TxFrames]
    <3>1. txDma[m] \in TxDesc
      BY <1>0 DEF TxTypeOK
    <3> QED BY <1>0, <3>1 DEF e, TxDesc, TxTypeOK
  <2>6. /\ Len(Append(t, e)) = n + 1 /\ DOMAIN Append(t, e) = 1 .. (n + 1)
        /\ \A k \in 1 .. n : Append(t, e)[k] = t[k]
        /\ Append(t, e)[n + 1] = e
    BY <2>1, <2>5
  <2> HIDE DEF s, f, t, n
  <2>7. (Len(submitted[m]) = Len(sent[m]) + TxCarried(m) + Len(tFifo[m]))'
    BY <2>1, <2>2, <2>3, <2>4, <2>6
  <2>8. (\A k \in DOMAIN sent[m] : sent[m][k] = [hdr |-> submitted[m][k], data |-> submitted[m][k]])'
    <3> SUFFICES ASSUME NEW k \in 1 .. (n + 1)
                 PROVE  Append(t, e)[k] = [hdr |-> s[k], data |-> s[k]]
      BY <2>4, <2>6
    <3>1. k \in 1 .. n \/ k = n + 1
      BY <2>1
    <3> QED BY <2>3, <2>6, <3>1
  <2>9. (txDma[m] # NoTxDesc => /\ txDma[m].hdr = submitted[m][Len(sent[m]) + 1]
                                /\ txMem[txDma[m].buf] = submitted[m][Len(sent[m]) + 1])'
    BY <2>2
  <2>10. (\A k \in DOMAIN tFifo[m] :
             /\ tFifo[m][k].hdr = submitted[m][Len(sent[m]) + TxCarried(m) + k]
             /\ txMem[tFifo[m][k].buf] = submitted[m][Len(sent[m]) + TxCarried(m) + k])'
    <3> SUFFICES ASSUME NEW k \in 1 .. Len(f)
                 PROVE  f[k].hdr = s[n + 1 + 0 + k] /\ txMem[f[k].buf] = s[n + 1 + 0 + k]
      <4>1. DOMAIN tFifo'[m] = 1 .. Len(f) /\ Len(sent'[m]) = n + 1
        BY <2>1, <2>4, <2>6
      <4> QED BY <1>0, <2>2, <2>4, <4>1
    <3>1. n + 1 + 0 + k = n + 1 + k
      BY <2>1
    <3> QED BY <2>3, <3>1
  <2> QED BY <2>7, <2>8, <2>9, <2>10 DEF TxLaneOK
<1> QED BY <1>1, <1>2, <1>3 DEF TxDataOK

(* Steps that change neither a payload nor a descriptor on its way.        *)
LEMMA TxQuietData ==
    ASSUME TxDataOK, UNCHANGED <<txMem, tFifo, txDma, sent, submitted>>, TxWriterOK'
    PROVE  TxDataOK'
<1>1. ASSUME NEW l \in Lanes PROVE TxLaneOK(l)'
  <2>1. TxLaneOK(l)
    BY DEF TxDataOK
  <2> QED BY <2>1, TxLaneSame
<1> QED BY <1>1 DEF TxDataOK

(* Every step keeps header, payload and order of the frames together. *)
LEMMA TxNextData ==
    ASSUME TxInv, TxDataOK, [Next]_vars
    PROVE  TxDataOK'
<1>0. TxWriterOK /\ TxPcOK /\ TxTypeOK
  BY DEF TxDataOK, TxInv
<1>1. CASE WriteCopy
  BY <1>1, TxCopyData
<1>2. CASE WriteDescB
  BY <1>2, TxDescBData
<1>3. CASE WriteDescA
  <2>1. TxWriterOK'
    BY <1>0, <1>3 DEF TxWriterOK, WriteDescA, WriteTxA, WGoto, memVars, txqVars
  <2> QED BY <1>3, <2>1, TxQuietData DEF WriteDescA, memVars
<1>4. CASE (\E l \in WriteLanes : WriteStart(l)) \/ WriteReturn \/ WriteSleep \/ WriteAdvance
  <2>1. wPc' \in {"check", "idle", "asleep"} /\ UNCHANGED <<cardVars, submitted>>
    BY <1>4 DEF WriteStart, WriteReturn, WriteSleep, WriteAdvance, WGoto
  <2>2. UNCHANGED <<txMem, tFifo, txDma, sent, submitted>>
    BY <2>1 DEF cardVars, memVars, txVars
  <2> QED BY <2>1, <2>2, TxQuietData DEF TxWriterOK
<1>5. CASE WriteBadLane
  <2>1. wPc' = "advance" /\ UNCHANGED <<cardVars, submitted>>
    BY <1>5 DEF WriteBadLane, WGoto
  <2>2. UNCHANGED <<txMem, tFifo, txDma, sent, submitted>>
    BY <2>1 DEF cardVars, memVars, txVars
  <2> QED BY <2>1, <2>2, TxQuietData DEF TxWriterOK
<1>6. CASE IsrTxPop
  <2>1. UNCHANGED <<txMem, tFifoDin, tFifo, txDma, sent, txqVars, wVars>>
    BY <1>6 DEF IsrTxPop, UnchangedButIsr, memVars
  <2> QED BY <1>0, <2>1, TxQuietData DEF TxWriterOK, txqVars, wVars
<1>7. CASE IsrTxFill
  <2>1. /\ UNCHANGED <<txMem, tFifoDin, tFifo, txDma, sent, txRead, wVars>>
        /\ txQueue' = [txQueue EXCEPT ![txWrite] = isrBuf]
    BY <1>7 DEF IsrTxFill, cardVars, memVars, txVars
  <2>2. wPc \in {"descA", "descB"} => txQueue'[txRead] = txQueue[txRead]
    <3>1. txQueue \in [TxIndex -> TxBufs \cup {NoBuf}] /\ txRead \in TxIndex
      BY TxRingConstants DEF TxInv, TxRingT!RingInv, TxRingT!TypeOK
    <3> QED BY <1>0, <2>1, <3>1 DEF TxPcOK
  <2> QED BY <1>0, <2>1, <2>2, TxQuietData DEF TxWriterOK, wVars
<1>8. CASE IsrTxPublish
  <2>1. /\ UNCHANGED <<txMem, tFifoDin, tFifo, txDma, sent, submitted, txQueue, txRead, wFrame>>
        /\ wPc' = IF wPc = "asleep" THEN "check" ELSE wPc
    BY <1>8 DEF IsrTxPublish, cardVars, memVars, txVars
  <2> QED BY <1>0, <2>1, TxQuietData DEF TxWriterOK
<1>9. CASE OtherStep
  <2>1. UNCHANGED <<txMem, txVars, txqVars, wVars>>
    BY <1>9, OtherLeaves
  <2> QED BY <1>0, <2>1, TxQuietData DEF TxWriterOK, txVars, txqVars, wVars
<1>10. CASE CardStep /\ UNCHANGED hostVars
  BY <1>9, <1>10, TxNewData, TxDoneData DEF CardStep, OtherStep
<1>11. CASE UNCHANGED vars
  BY <1>0, <1>11, TxQuietData DEF TxWriterOK, vars, cardVars, memVars, txVars, hostVars, txqVars, wVars
<1> QED BY <1>1, <1>2, <1>3, <1>4, <1>5, <1>6, <1>7, <1>8, <1>9, <1>10, <1>11
        DEF Next, Writer, Handler, OtherStep

(* Each lane sends exactly the frames written to it, in the order of the   *)
(* Write calls, with the header and the payload of the same call, although *)
(* the descriptor is written in two halves through one shared latch and    *)
(* the handler recycles buffers at the same time.  Writes to lanes the     *)
(* card does not have do not disturb it.                                   *)
THEOREM TxSendsWhatWasWritten == Spec => []TxIntegrity
<1>1. Init => TxDataOK
  <2> SUFFICES ASSUME Init PROVE TxWriterOK /\ \A l \in Lanes : TxLaneOK(l)
    BY DEF TxDataOK
  <2>1. TxWriterOK
    BY DEF Init, TxWriterOK
  <2>2. ASSUME NEW l \in Lanes PROVE TxLaneOK(l)
    BY DEF Init, CardInit, TxLaneOK, TxCarried
  <2> QED BY <2>1, <2>2
<1>2. TxInv /\ TxDataOK /\ [Next]_vars => TxDataOK'
  BY TxNextData
<1>3. TxInv /\ TxDataOK => TxIntegrity
  <2> SUFFICES ASSUME TxInv, TxDataOK, NEW l \in Lanes
               PROVE  /\ Len(sent[l]) <= Len(submitted[l])
                      /\ \A k \in DOMAIN sent[l] :
                             sent[l][k] = [hdr |-> submitted[l][k], data |-> submitted[l][k]]
    BY DEF TxIntegrity
  <2>1. TxLaneOK(l) /\ Len(sent[l]) \in Nat /\ Len(tFifo[l]) \in Nat /\ TxCarried(l) \in {0, 1}
    BY TxLaneTypes DEF TxDataOK, TxInv
  <2>2. Len(submitted[l]) = Len(sent[l]) + TxCarried(l) + Len(tFifo[l])
    BY <2>1 DEF TxLaneOK
  <2> QED BY <2>1, <2>2 DEF TxLaneOK
<1> QED BY <1>1, <1>2, <1>3, TxSafe, PTL DEF Spec

-----------------------------------------------------------------------------
(* Where a received frame is: in a buffer that is not on a free list, or   *)
(* past the queue (in Read's hands, with the application, or dropped).     *)

Posted(b) == \E l \in Lanes : \E k \in DOMAIN rxFree[l] : rxFree[l][k] = b
InDma(b)  == \E l \in Lanes : rxDma[l].buf = b
InDone(b) == \E k \in DOMAIN rxDone : rxDone[k].buf = b
InIsr(b)  == IsrHoldsRx /\ isrBuf = b

Gone(f) == \/ rPc = "advance" /\ rRet.hdr = f
           \/ f \in dropped
           \/ \E l \in Lanes : \E k \in DOMAIN delivered[l] : delivered[l][k].hdr = f

(* Every record of a frame names the payload of the buffer it belongs to.  *)
HeldOK ==
    /\ \A l \in Lanes : rxDma[l] # NoRxDesc => rxDma[l].hdr = rxMem[rxDma[l].buf]
    /\ \A k \in DOMAIN rxDone : rxDone[k].hdr = rxMem[rxDone[k].buf]
    /\ IsrHoldsRx => isrDesc.hdr = rxMem[isrBuf]
    /\ isrPc = "rxPublish" => rxBuffer[isrBuf].hdr = rxMem[isrBuf]
    /\ \A b \in RxBufs \ RxOut : rxBuffer[b].hdr = rxMem[b]

(* What Read has copied out. *)
ReadOK ==
    /\ rPc = "cmd" => rRet.hdr = rxMem[RxHead] /\ rRet.lane = Home(RxHead)
    /\ rPc \in {"cmd", "advance"} => rRet.data \in {0, rRet.hdr} /\ (rRet.cut => rRet.err)
    /\ \A l \in Lanes : \A k \in DOMAIN delivered[l] :
           /\ delivered[l][k].data = delivered[l][k].hdr
           /\ delivered[l][k].cut => delivered[l][k].err

(* Each frame that has arrived is in one place. *)
OnceOK ==
    /\ \A b \in RxBufs : ~Posted(b) => rxMem[b] \in 1 .. arrived /\ ~Gone(rxMem[b])
    /\ \A b, c \in RxBufs : ~Posted(b) /\ ~Posted(c) /\ rxMem[b] = rxMem[c] => b = c
    /\ \A f \in 1 .. arrived : Gone(f) \/ \E b \in RxBufs : ~Posted(b) /\ rxMem[b] = f
    /\ \A f \in dropped : f \in 1 .. arrived
    /\ rPc = "advance" => /\ rRet.hdr \in 1 .. arrived /\ rRet.hdr \notin dropped
                          /\ \A l \in Lanes : \A k \in DOMAIN delivered[l] : delivered[l][k].hdr # rRet.hdr
    /\ \A l \in Lanes : \A k \in DOMAIN delivered[l] :
           delivered[l][k].hdr \in 1 .. arrived /\ delivered[l][k].hdr \notin dropped
    /\ \A l, m \in Lanes : \A j \in DOMAIN delivered[l], k \in DOMAIN delivered[m] :
           delivered[l][j].hdr = delivered[m][k].hdr => l = m /\ j = k

(* The frames of one lane pass through the queue ...                       *)
QueueOrder ==
    \A i, j \in RxIndex :
        /\ RxRingT!IsLive(i) /\ RxRingT!IsLive(j)
        /\ RxRingT!Dist(i, rxRead) < RxRingT!Dist(j, rxRead)
        /\ Home(rxQueue[i]) = Home(rxQueue[j])
        => rxMem[rxQueue[i]] < rxMem[rxQueue[j]]
QueueFirst ==
    \A b \in RxBufs \ RxOut : \A c \in RxBufs :
        (InIsr(c) \/ InDone(c) \/ InDma(c)) /\ Home(b) = Home(c) => rxMem[b] < rxMem[c]

(* ... the handler, the done FIFO and the channel in order of arrival ...  *)
HandlerNext ==
    \A b, c \in RxBufs :
        InIsr(b) /\ (InDone(c) \/ InDma(c)) /\ Home(b) = Home(c) => rxMem[b] < rxMem[c]
DoneOrder ==
    \A j, k \in DOMAIN rxDone :
        j < k /\ rxDone[j].lane = rxDone[k].lane => rxMem[rxDone[j].buf] < rxMem[rxDone[k].buf]
ChannelLast ==
    \A b, c \in RxBufs : InDone(b) /\ InDma(c) /\ Home(b) = Home(c) => rxMem[b] < rxMem[c]

StageOrder == QueueOrder /\ QueueFirst /\ HandlerNext /\ DoneOrder /\ ChannelLast

(* ... behind those the application already has. *)
GoneOrder ==
    /\ \A l \in Lanes : \A j, k \in DOMAIN delivered[l] :
           j < k => delivered[l][j].hdr < delivered[l][k].hdr
    /\ \A l \in Lanes : \A k \in DOMAIN delivered[l] : \A b \in RxBufs :
           ~Posted(b) /\ Home(b) = l => delivered[l][k].hdr < rxMem[b]
    /\ rPc = "advance" =>
           /\ \A k \in DOMAIN delivered[rRet.lane] : delivered[rRet.lane][k].hdr < rRet.hdr
           /\ \A b \in RxBufs : ~Posted(b) /\ Home(b) = rRet.lane => rRet.hdr < rxMem[b]

RxDataOK == HeldOK /\ ReadOK /\ OnceOK /\ StageOrder /\ GoneOrder

(* A buffer is on a free list, in a channel, in the done FIFO, in the      *)
(* handler's hands, or live in the queue, and in one of them only.         *)
LEMMA PlacesApart ==
    ASSUME RxInv, NEW b \in RxBufs
    PROVE  /\ b \in RxOut <=> Posted(b) \/ InDma(b) \/ InDone(b) \/ InIsr(b)
           /\ Posted(b) => ~InDma(b) /\ ~InDone(b) /\ ~InIsr(b)
           /\ InDma(b) => ~InDone(b) /\ ~InIsr(b)
           /\ InDone(b) => ~InIsr(b)
<1>1. b \in RxOut <=> Posted(b) \/ InDma(b) \/ InDone(b) \/ InIsr(b)
  BY DEF RxOut, Posted, InDma, InDone, InIsr
<1>2. Posted(b) => ~InDma(b) /\ ~InDone(b) /\ ~InIsr(b)
  BY DEF RxInv, RxFreeApart, Posted, InDma, InDone, InIsr
<1>3. InDma(b) => ~InDone(b) /\ ~InIsr(b)
  BY DEF RxInv, RxDmaApart, InDma, InDone, InIsr
<1>4. InDone(b) => ~InIsr(b)
  BY DEF RxInv, RxDoneApart, InDone, InIsr
<1> QED BY <1>1, <1>2, <1>3, <1>4

(* The live entries of the queue hold the buffers that are not out. *)
LEMMA LiveHolds ==
    ASSUME RxInv
    PROVE  /\ \A i \in RxIndex : RxRingT!IsLive(i) => rxQueue[i] \in RxBufs \ RxOut
           /\ \A i, j \in RxIndex :
                  RxRingT!IsLive(i) /\ RxRingT!IsLive(j) /\ rxQueue[i] = rxQueue[j] => i = j
           /\ \A b \in RxBufs \ RxOut : \E i \in RxIndex : RxRingT!IsLive(i) /\ rxQueue[i] = b
BY RxRingConstants DEF RxInv, RxRingT!RingInv, RxRingT!NoAliasing, RxRingT!NoLeak

(* The buffer Read is working on is live in the queue. *)
LEMMA ReadHeadLive ==
    ASSUME RxInv, rPc = "cmd" \/ (rPc = "check" /\ rxRead # rxWrite)
    PROVE  RxHead \in RxBufs \ RxOut /\ rxRead # rxWrite /\ rxRead \in RxIndex
<1>1. rxRead # rxWrite /\ rPc # "advance"
  BY DEF RxInv, RxPcOK
<1>2. rxRead \in RxIndex
  BY RxRingConstants DEF RxInv, RxRingT!RingInv, RxRingT!TypeOK
<1> QED BY <1>1, <1>2, RxRingT!HeadLive, RxRingConstants DEF RxInv, RxHead

(* The frames in the buffers have arrived and are nowhere else. *)
LEMMA HeldArrived ==
    ASSUME RxInv, OnceOK, NEW b \in RxBufs, ~Posted(b)
    PROVE  rxMem[b] \in 1 .. arrived /\ ~Gone(rxMem[b]) /\ rxMem[b] \in Nat /\ arrived \in Nat
<1>1. arrived \in Nat
  BY CardAssumption DEF RxInv, RxTypeOK, RxFrames
<1>2. rxMem[b] \in 1 .. arrived /\ ~Gone(rxMem[b])
  BY DEF OnceOK
<1> QED BY <1>1, <1>2

(* As long as no buffer is posted or taken and Read gives nothing away,    *)
(* the frames stay where they are and keep their places in the order.      *)
LEMMA FramesStay ==
    ASSUME OnceOK, GoneOrder,
           UNCHANGED <<rxMem, arrived, rxFree, delivered, dropped>>,
           (rPc = "advance")' = (rPc = "advance"), rPc = "advance" => rRet' = rRet
    PROVE  OnceOK' /\ GoneOrder'
<1>1. \A b : Posted(b)' <=> Posted(b)
  BY DEF Posted
<1>2. \A f : Gone(f)' <=> Gone(f)
  BY DEF Gone
<1>3. OnceOK'
  BY <1>1, <1>2 DEF OnceOK
<1>4. GoneOrder'
  BY <1>1 DEF GoneOrder
<1> QED BY <1>3, <1>4

(* A step that moves no received frame. *)
RxDataQuiet ==
    /\ UNCHANGED <<rxMem, arrived, rxFree, rxDma, rxDone, rxQueue, rxRead, rxWrite, delivered, dropped>>
    /\ (rPc = "advance")' = (rPc = "advance")
    /\ rPc = "advance" => rRet' = rRet
    /\ \A b \in RxBufs : rxBuffer'[b].hdr = rxBuffer[b].hdr
    /\ UNCHANGED <<isrPc, isrBuf, isrDesc>> \/ (~IsrHoldsRx /\ ~IsrHoldsRx')

(* A step that moves no frame keeps the data invariant. *)
LEMMA RxQuietData ==
    ASSUME RxInv, RxDataOK, RxDataQuiet, ReadOK'
    PROVE  RxDataOK'
<1>0. HeldOK /\ OnceOK /\ StageOrder /\ GoneOrder
  BY DEF RxDataOK
<1>1. OnceOK' /\ GoneOrder'
  BY <1>0, FramesStay DEF RxDataQuiet
<1>2. RxOut' = RxOut
  BY DEF RxDataQuiet, RxOut, IsrHoldsRx
<1>3. HeldOK'
  <2>1. isrPc = "rxPublish" => isrBuf \in RxBufs
    BY DEF RxInv, RxPcOK, IsrHoldsRx
  <2> QED BY <1>0, <1>2, <2>1 DEF RxDataQuiet, HeldOK, IsrHoldsRx
<1>4. \A b : /\ InIsr(b)' <=> InIsr(b)
             /\ InDone(b)' <=> InDone(b)
             /\ InDma(b)' <=> InDma(b)
  BY DEF RxDataQuiet, InIsr, InDone, InDma, IsrHoldsRx
<1>5. \A i : RxRingT!IsLive(i)' <=> RxRingT!IsLive(i)
  BY DEF RxDataQuiet, RxRingT!IsLive, RxRingT!InUse, RxRingT!Used
<1>6. QueueOrder'
  BY <1>0, <1>5 DEF StageOrder, QueueOrder, RxDataQuiet
<1>7. QueueFirst' /\ HandlerNext' /\ ChannelLast'
  BY <1>0, <1>2, <1>4 DEF StageOrder, QueueFirst, HandlerNext, ChannelLast, RxDataQuiet
<1>8. DoneOrder'
  BY <1>0 DEF StageOrder, DoneOrder, RxDataQuiet
<1> QED BY <1>1, <1>3, <1>6, <1>7, <1>8 DEF RxDataOK, StageOrder

(* Read copies the frame at the head of the queue, or does nothing yet. *)
LEMMA ReaderData ==
    ASSUME RxInv, RxDataOK, ReadStart \/ ReadReturn \/ ReadSleep \/ ReadCopy
    PROVE  RxDataOK'
<1>0. RxTypeOK /\ HeldOK /\ ReadOK
  BY DEF RxInv, RxDataOK
<1>1. CASE ReadStart \/ ReadReturn \/ ReadSleep
  <2>1. /\ UNCHANGED <<cardVars, rxqVars, isrVars, rRet, delivered, dropped>>
        /\ rPc' \in {"idle", "check", "asleep"} /\ rPc # "advance"
    BY <1>1 DEF ReadStart, ReadReturn, ReadSleep, RGoto
  <2>2. ReadOK'
    BY <1>0, <2>1 DEF ReadOK
  <2>3. RxDataQuiet
    BY <2>1 DEF RxDataQuiet, cardVars, memVars, rxVars, rxqVars, isrVars
  <2> QED BY <2>2, <2>3, RxQuietData
<1>2. CASE ReadCopy
  <2>0. /\ rxRead # rxWrite /\ rPc = "check" /\ rPc' = "cmd"
        /\ UNCHANGED <<cardVars, rxQueue, rxRead, rxWrite, isrVars, delivered, dropped>>
    BY <1>2 DEF ReadCopy, RGoto
  <2>1. RxHead \in RxBufs \ RxOut
    BY <2>0, ReadHeadLive
  <2> DEFINE h == rxBuffer[RxHead]
  <2>2. PICK cut \in BOOLEAN, ok \in BOOLEAN :
           /\ rxBuffer' = [rxBuffer EXCEPT ![RxHead].lenErr = h.lenErr \/ cut]
           /\ rRet' = [hdr |-> h.hdr, lane |-> h.lane, data |-> IF ok THEN rxMem[RxHead] ELSE 0,
                       cut |-> cut, err |-> h.lenErr \/ cut]
    BY <1>2 DEF ReadCopy
  <2>3. h.hdr = rxMem[RxHead] /\ h.lane = Home(RxHead)
    BY <1>0, <2>1 DEF HeldOK, RxInv, RxHomeOK
  <2>4. \A b \in RxBufs : rxBuffer'[b].hdr = rxBuffer[b].hdr
    <3>1. \A b \in RxBufs : rxBuffer[b] \in RxKept
      BY <1>0 DEF RxTypeOK
    <3> QED BY <1>0, <2>1, <2>2, <3>1 DEF RxTypeOK, RxKept
  <2>5. /\ rRet'.hdr = h.hdr /\ rRet'.lane = h.lane
        /\ rRet'.data \in {0, rxMem[RxHead]}
        /\ rRet'.cut => rRet'.err
    BY <2>2
  <2>6. RxHead' = RxHead /\ rxMem' = rxMem
    BY <2>0 DEF RxHead, cardVars, memVars
  <2>7. ReadOK'
    BY <1>0, <2>0, <2>3, <2>5, <2>6 DEF ReadOK
  <2>8. RxDataQuiet
    BY <2>0, <2>4 DEF RxDataQuiet, cardVars, memVars, rxVars, isrVars
  <2> QED BY <2>7, <2>8, RxQuietData
<1> QED BY <1>1, <1>2

(* A frame arrives: it is younger than all others, and the buffer it is    *)
(* written to was on a free list.                                          *)
LEMMA RxNewData ==
    ASSUME RxInv, RxDataOK, NEW l \in Lanes, RxNew(l), UNCHANGED hostVars
    PROVE  RxDataOK'
<1> DEFINE b == rxFree[l][1]
           f == arrived + 1
           d == [hdr |-> f, lane |-> l, buf |-> b]
<1>0. /\ RxTypeOK /\ HeldOK /\ ReadOK /\ OnceOK /\ StageOrder /\ GoneOrder
      /\ rxFree[l] \in Seq(RxBufs) /\ rxFree[l] # << >> /\ rxDma[l] = NoRxDesc
      /\ UNCHANGED <<rxDone, rxBuffer, rPc, rRet, isrPc, isrBuf, isrDesc>>
      /\ UNCHANGED <<rxQueue, rxRead, rxWrite, delivered, dropped>>
  BY DEF RxInv, RxTypeOK, RxDataOK, RxNew, hostVars, rxqVars, rVars, isrVars
<1>1. /\ Head(rxFree[l]) = b /\ b \in RxBufs /\ 1 \in DOMAIN rxFree[l]
      /\ arrived \in Nat /\ f \in Nat /\ f > arrived /\ 1 .. f = (1 .. arrived) \cup {f}
  BY <1>0, TailEntries, CardAssumption DEF RxTypeOK, RxFrames
<1>2. /\ arrived' = f
      /\ rxFree' = [rxFree EXCEPT ![l] = Tail(rxFree[l])]
      /\ rxDma' = [rxDma EXCEPT ![l] = d]
      /\ rxMem' = [rxMem EXCEPT ![b] = f]
  BY <1>1 DEF RxNew
<1>3. d.hdr = f /\ d.lane = l /\ d.buf = b
  OBVIOUS
<1> HIDE DEF d, f
<1>4. \A c \in RxBufs : rxMem'[c] = IF c = b THEN f ELSE rxMem[c]
  BY <1>0, <1>1, <1>2 DEF RxTypeOK
<1>5. \A m \in Lanes : rxDma'[m] = IF m = l THEN d ELSE rxDma[m]
  BY <1>0, <1>2 DEF RxTypeOK
<1>6. Posted(b) /\ Home(b) = l
  BY <1>1 DEF Posted, RxInv, RxHomeOK
<1> HIDE DEF b
<1>7. ASSUME NEW c \in RxBufs
      PROVE  Posted(c)' <=> Posted(c) /\ c # b
  <2>0. \A m \in Lanes : rxFree'[m] = IF m = l THEN Tail(rxFree[l]) ELSE rxFree[m]
    BY <1>0, <1>2 DEF RxTypeOK
  <2>1. /\ \A k \in DOMAIN Tail(rxFree[l]) : k + 1 \in DOMAIN rxFree[l] /\ k \in Nat /\ k >= 1
                                             /\ Tail(rxFree[l])[k] = rxFree[l][k + 1]
        /\ \A k \in DOMAIN rxFree[l] :
               k = 1 \/ (k - 1 \in DOMAIN Tail(rxFree[l]) /\ Tail(rxFree[l])[k - 1] = rxFree[l][k])
    BY <1>0, TailEntries
  <2>2. \A m \in Lanes : \A k \in DOMAIN rxFree[m] : rxFree[m][k] = b => m = l /\ k = 1
    BY <1>1 DEF RxInv, RxFreeApart, b
  <2>3. ASSUME NEW m \in Lanes, NEW k \in DOMAIN rxFree'[m], rxFree'[m][k] = c
        PROVE  Posted(c) /\ c # b
    <3>1. CASE m # l
      BY <2>0, <2>2, <2>3, <3>1 DEF Posted
    <3>2. CASE m = l
      <4>1. k + 1 \in DOMAIN rxFree[l] /\ k + 1 # 1 /\ rxFree[l][k + 1] = c
        <5>1. k \in DOMAIN Tail(rxFree[l]) /\ Tail(rxFree[l])[k] = c
          BY <2>0, <2>3, <3>2
        <5> QED BY <2>1, <5>1
      <4> QED BY <2>2, <4>1 DEF Posted
    <3> QED BY <3>1, <3>2
  <2>4. ASSUME NEW m \in Lanes, NEW k \in DOMAIN rxFree[m], rxFree[m][k] = c, c # b
        PROVE  Posted(c)'
    <3>1. CASE m # l
      BY <2>0, <2>4, <3>1 DEF Posted
    <3>2. CASE m = l
      <4>1. k # 1
        BY <2>4, <3>2 DEF b
      <4>2. k - 1 \in DOMAIN rxFree'[l] /\ rxFree'[l][k - 1] = c
        BY <2>0, <2>1, <2>4, <3>2, <4>1
      <4> QED BY <4>2 DEF Posted
    <3> QED BY <3>1, <3>2
  <2> QED BY <2>3, <2>4 DEF Posted
<1>8. ASSUME NEW c \in RxBufs
      PROVE  /\ InDma(c)' <=> InDma(c) \/ c = b
             /\ InDone(c)' <=> InDone(c)
             /\ InIsr(c)' <=> InIsr(c)
  <2>1. InDma(c)' <=> InDma(c) \/ c = b
    BY <1>0, <1>3, <1>5, DescBuf DEF InDma
  <2> QED BY <1>0, <2>1 DEF InDone, InIsr, IsrHoldsRx
<1>9. RxOut' = RxOut
  BY RxNewStep DEF RxRingT!ringVars
<1>10. ~InDma(b) /\ ~InDone(b) /\ ~InIsr(b) /\ b \in RxOut
  BY <1>1, <1>6, PlacesApart
<1>11. \A x : Gone(x)' <=> Gone(x)
  BY <1>0 DEF Gone
<1>12. \A x : Gone(x) => x \in 1 .. arrived
  BY <1>0 DEF Gone, OnceOK
<1>13. HeldOK'
  <2>1. \A m \in Lanes : rxDma'[m] # NoRxDesc => rxDma'[m].hdr = rxMem'[rxDma'[m].buf]
    <3> SUFFICES ASSUME NEW m \in Lanes, m # l, rxDma[m] # NoRxDesc
                 PROVE  rxDma[m].hdr = rxMem'[rxDma[m].buf]
      BY <1>1, <1>3, <1>4, <1>5
    <3>1. rxDma[m].buf \in RxBufs /\ rxDma[m].buf # b
      BY <1>0, <1>10, DescBuf DEF RxTypeOK, InDma
    <3> QED BY <1>0, <1>4, <3>1 DEF HeldOK
  <2>2. \A k \in DOMAIN rxDone' : rxDone'[k].hdr = rxMem'[rxDone'[k].buf]
    <3> SUFFICES ASSUME NEW k \in DOMAIN rxDone
                 PROVE  rxDone[k].hdr = rxMem'[rxDone[k].buf]
      BY <1>0
    <3>1. rxDone[k].buf \in RxBufs /\ rxDone[k].buf # b
      BY <1>0, <1>10, DescBuf DEF RxTypeOK, InDone
    <3> QED BY <1>0, <1>4, <3>1 DEF HeldOK
  <2>3. IsrHoldsRx => isrBuf \in RxBufs /\ isrBuf # b
    BY <1>10 DEF InIsr, RxInv, RxPcOK
  <2>4. (IsrHoldsRx' => isrDesc'.hdr = rxMem'[isrBuf']) /\ (isrPc' = "rxPublish" => rxBuffer'[isrBuf'].hdr = rxMem'[isrBuf'])
    BY <1>0, <1>4, <2>3 DEF HeldOK, IsrHoldsRx
  <2>5. \A c \in RxBufs \ RxOut' : rxBuffer'[c].hdr = rxMem'[c]
    BY <1>0, <1>4, <1>9, <1>10 DEF HeldOK
  <2> QED BY <2>1, <2>2, <2>4, <2>5 DEF HeldOK
<1>14. ReadOK'
  <2>1. rPc = "cmd" => rxMem'[RxHead] = rxMem[RxHead]
    BY <1>4, <1>10, ReadHeadLive
  <2>2. RxHead' = RxHead
    BY <1>0 DEF RxHead
  <2> QED BY <1>0, <2>1, <2>2 DEF ReadOK
<1>15. OnceOK'
  <2>0. ASSUME NEW c \in RxBufs, ~Posted(c)'
        PROVE  rxMem'[c] \in 1 .. f /\ ~Gone(rxMem'[c])
    <3>1. CASE c = b
      BY <1>1, <1>4, <1>12, <3>1
    <3>2. CASE c # b
      BY <1>0, <1>1, <1>4, <1>7, <2>0, <3>2 DEF OnceOK
    <3> QED BY <3>1, <3>2
  <2>1. (\A c \in RxBufs : ~Posted(c) => rxMem[c] \in 1 .. arrived /\ ~Gone(rxMem[c]))'
    BY <1>0, <1>2, <2>0 DEF Gone
  <2>2. \A c, e \in RxBufs : ~Posted(c)' /\ ~Posted(e)' /\ rxMem'[c] = rxMem'[e] => c = e
    BY <1>0, <1>1, <1>4, <1>7 DEF OnceOK
  <2>3. \A x \in 1 .. f : Gone(x)' \/ \E c \in RxBufs : ~Posted(c)' /\ rxMem'[c] = x
    <3> SUFFICES ASSUME NEW x \in 1 .. f, ~Gone(x)
                 PROVE  \E c \in RxBufs : ~Posted(c)' /\ rxMem'[c] = x
      BY <1>11
    <3>1. CASE x = f
      BY <1>1, <1>4, <1>7, <3>1
    <3>2. CASE x \in 1 .. arrived
      BY <1>0, <1>4, <1>6, <1>7, <3>2 DEF OnceOK
    <3> QED BY <1>1, <3>1, <3>2
  <2>4. \A x : x \in 1 .. arrived => x \in 1 .. f
    BY <1>1
  <2> QED BY <1>0, <1>2, <2>1, <2>2, <2>3, <2>4 DEF OnceOK
<1>16. ASSUME NEW c \in RxBufs, ~Posted(c)
       PROVE  rxMem'[c] = rxMem[c] /\ rxMem'[c] < f
  BY <1>0, <1>1, <1>4, <1>6, <1>16, HeldArrived
<1>17. \A c \in RxBufs : c \notin RxOut \/ InIsr(c) \/ InDone(c) \/ InDma(c) => ~Posted(c)
  BY PlacesApart
<1>18. QueueOrder'
  <2>1. \A i : RxRingT!IsLive(i)' <=> RxRingT!IsLive(i)
    BY <1>0 DEF RxRingT!IsLive, RxRingT!InUse, RxRingT!Used
  <2>2. \A i \in RxIndex : RxRingT!IsLive(i) => rxMem'[rxQueue[i]] = rxMem[rxQueue[i]]
    BY <1>16, <1>17, LiveHolds
  <2> QED BY <1>0, <2>1, <2>2 DEF StageOrder, QueueOrder
<1>19. rxMem'[b] = f
  BY <1>1, <1>4
<1>20. QueueFirst' /\ HandlerNext' /\ ChannelLast'
  BY <1>0, <1>8, <1>9, <1>10, <1>16, <1>17, <1>19 DEF StageOrder, QueueFirst, HandlerNext, ChannelLast
<1>21. DoneOrder'
  <2>1. \A k \in DOMAIN rxDone : rxDone[k].buf \in RxBufs /\ InDone(rxDone[k].buf)
    BY <1>0, DescBuf DEF RxTypeOK, InDone
  <2> QED BY <1>0, <1>16, <1>17, <2>1 DEF StageOrder, DoneOrder
<1>22. GoneOrder'
  <2>1. \A m \in Lanes : \A k \in DOMAIN delivered[m] : delivered[m][k].hdr \in 1 .. arrived
    BY <1>0 DEF OnceOK
  <2>2. rPc = "advance" => rRet.hdr \in 1 .. arrived
    BY <1>0 DEF OnceOK
  <2>3. \A x \in 1 .. arrived : x < f
    BY <1>1
  <2> QED BY <1>0, <1>4, <1>6, <1>7, <2>1, <2>2, <2>3 DEF GoneOrder
<1> QED BY <1>13, <1>14, <1>15, <1>18, <1>20, <1>21, <1>22 DEF RxDataOK, StageOrder

(* The channel reports its buffer: the frame is the youngest of its lane   *)
(* in the done FIFO.                                                       *)
LEMMA RxDoneData ==
    ASSUME RxInv, RxDataOK, NEW l \in Lanes, RxDone(l), UNCHANGED hostVars
    PROVE  RxDataOK'
<1> DEFINE d == rxDma[l]
           b == d.buf
<1>0. /\ RxTypeOK /\ HeldOK /\ ReadOK /\ OnceOK /\ StageOrder /\ GoneOrder
      /\ d \in RxDesc /\ b \in RxBufs /\ d # NoRxDesc /\ rxDone \in Seq(RxDesc)
      /\ UNCHANGED <<rxMem, arrived, rxFree, rxBuffer, rPc, rRet, isrPc, isrBuf, isrDesc>>
      /\ UNCHANGED <<rxQueue, rxRead, rxWrite, delivered, dropped>>
      /\ rxDone' = Append(rxDone, d)
      /\ rxDma' = [rxDma EXCEPT ![l] = NoRxDesc]
  BY DescBuf DEF RxInv, RxTypeOK, RxDataOK, RxDone, memVars, hostVars, rxqVars, rVars, isrVars
<1>1. d.hdr = rxMem[b] /\ d.lane = l /\ Home(b) = l
  BY <1>0 DEF HeldOK, RxInv, RxHomeOK
<1>2. \A m \in Lanes : rxDma'[m] = IF m = l THEN NoRxDesc ELSE rxDma[m]
  BY <1>0 DEF RxTypeOK
<1>3. /\ \A k \in DOMAIN rxDone' : \/ k \in DOMAIN rxDone /\ rxDone'[k] = rxDone[k]
                                   \/ k = Len(rxDone) + 1 /\ rxDone'[k] = d
      /\ \A k \in DOMAIN rxDone : /\ k \in DOMAIN rxDone' /\ rxDone'[k] = rxDone[k]
                                 /\ k \in Nat /\ k < Len(rxDone) + 1
      /\ Len(rxDone) + 1 \in DOMAIN rxDone' /\ rxDone'[Len(rxDone) + 1] = d
      /\ Len(rxDone) \in Nat
  <2> HIDE DEF d
  <2>1. /\ \A k \in DOMAIN rxDone : k \in Nat /\ k < Len(rxDone) + 1
        /\ Len(rxDone) \in Nat
    BY <1>0
  <2> QED BY <1>0, <2>1, AppendEntries
<1>4. InDma(b)
  BY DEF InDma
<1>5. \A m \in Lanes : rxDma[m].buf = b => m = l
  BY <1>0 DEF RxInv, RxDmaApart
<1> HIDE DEF b, d
<1>6. ASSUME NEW c \in RxBufs
      PROVE  /\ InDma(c)' <=> InDma(c) /\ c # b
             /\ InDone(c)' <=> InDone(c) \/ c = b
             /\ InIsr(c)' <=> InIsr(c)
  <2>1. InDma(c)' <=> InDma(c) /\ c # b
    BY <1>0, <1>2, <1>5, DescBuf DEF InDma, b, d
  <2>2. InDone(c)' <=> InDone(c) \/ c = b
    BY <1>3 DEF InDone, b
  <2> QED BY <1>0, <2>1, <2>2 DEF InIsr, IsrHoldsRx
<1>7. RxOut' = RxOut
  BY RxDoneStep DEF RxRingT!ringVars
<1>8. OnceOK' /\ GoneOrder'
  BY <1>0, FramesStay
<1>9. ReadOK'
  BY <1>0 DEF ReadOK, RxHead
<1>10. HeldOK'
  <2>1. \A k \in DOMAIN rxDone' : rxDone'[k].hdr = rxMem[rxDone'[k].buf]
    BY <1>0, <1>1, <1>3 DEF HeldOK, b
  <2>2. \A m \in Lanes : rxDma'[m] # NoRxDesc => rxDma'[m].hdr = rxMem[rxDma'[m].buf]
    BY <1>0, <1>2 DEF HeldOK
  <2> QED BY <1>0, <1>7, <2>1, <2>2 DEF HeldOK, IsrHoldsRx
<1>11. QueueOrder'
  BY <1>0 DEF StageOrder, QueueOrder, RxRingT!IsLive, RxRingT!InUse, RxRingT!Used
<1>12. QueueFirst' /\ HandlerNext'
  BY <1>0, <1>4, <1>6, <1>7 DEF StageOrder, QueueFirst, HandlerNext
<1>13. ChannelLast'
  <2> SUFFICES ASSUME NEW c \in RxBufs, InDma(c), c # b, Home(c) = l
               PROVE  FALSE
    BY <1>0, <1>1, <1>6 DEF StageOrder, ChannelLast
  <2>1. PICK m \in Lanes : rxDma[m].buf = c
    BY DEF InDma
  <2>2. Home(c) = m
    BY <1>0, <2>1, DescBuf DEF RxInv, RxHomeOK
  <2> QED BY <2>1, <2>2 DEF b, d
<1>14. DoneOrder'
  <2> SUFFICES ASSUME NEW j \in DOMAIN rxDone', NEW k \in DOMAIN rxDone', j < k,
                      rxDone'[j].lane = rxDone'[k].lane
               PROVE  rxMem[rxDone'[j].buf] < rxMem[rxDone'[k].buf]
    BY <1>0 DEF DoneOrder
  <2>1. j \in DOMAIN rxDone /\ rxDone'[j] = rxDone[j]
    <3>1. j # Len(rxDone) + 1 \/ k \in DOMAIN rxDone
      BY <1>3
    <3> QED BY <1>3, <3>1
  <2>2. CASE k \in DOMAIN rxDone
    BY <1>0, <1>3, <2>1, <2>2 DEF StageOrder, DoneOrder
  <2>3. CASE k \notin DOMAIN rxDone
    <3>1. rxDone'[k] = d /\ rxDone[j].lane = l
      BY <1>1, <1>3, <2>1, <2>3
    <3>2. rxDone[j].buf \in RxBufs /\ InDone(rxDone[j].buf) /\ Home(rxDone[j].buf) = l
      BY <1>0, <2>1, <3>1, DescBuf DEF RxTypeOK, InDone, RxInv, RxHomeOK
    <3> QED BY <1>0, <1>1, <1>4, <2>1, <3>1, <3>2 DEF StageOrder, ChannelLast, b
  <2> QED BY <2>2, <2>3
<1> QED BY <1>8, <1>9, <1>10, <1>11, <1>12, <1>13, <1>14 DEF RxDataOK, StageOrder

(* The handler pops the oldest descriptor. *)
LEMMA RxReadBData ==
    ASSUME RxInv, RxDataOK, IsrRxReadB
    PROVE  RxDataOK'
<1>0. /\ RxTypeOK /\ HeldOK /\ ReadOK /\ OnceOK /\ StageOrder /\ GoneOrder
      /\ isrPc = "rxReadB" /\ ~IsrHoldsRx
      /\ UNCHANGED <<rxMem, arrived, rxFree, rxDma, rxBuffer, rPc, rRet, isrDesc>>
      /\ UNCHANGED <<rxQueue, rxRead, rxWrite, delivered, dropped>>
  BY DEF RxInv, RxDataOK, IsrRxReadB, IsrGoto, ReadRxB, IsrHoldsRx, UnchangedButIsr, memVars, rxqVars, rVars
<1>1. ReadOK'
  BY <1>0 DEF ReadOK, RxHead
<1>2. CASE descData = NoBuf
  <2>1. isrPc' = "enable" /\ rxDone' = rxDone
    BY <1>2 DEF IsrRxReadB, IsrGoto, ReadRxB
  <2>2. RxDataQuiet
    BY <1>0, <2>1 DEF RxDataQuiet, IsrHoldsRx
  <2> QED BY <1>1, <2>2, RxQuietData
<1>3. CASE descData # NoBuf
  <2> DEFINE d == rxDone[1]
             b == d.buf
  <2>1. /\ rxDone # << >> /\ rxDone \in Seq(RxDesc)
        /\ isrDesc = d /\ descData = b
    BY <1>0, <1>3 DEF RxInv, LatchOK, RxTypeOK
  <2>2. d \in RxDesc /\ 1 \in DOMAIN rxDone /\ b \in RxBufs /\ d.hdr = rxMem[b] /\ d.lane = Home(b)
    BY <1>0, <2>1, TailEntries, DescBuf DEF HeldOK, RxInv, RxHomeOK
  <2>3. isrPc' = "rxFill" /\ rxDone' = Tail(rxDone) /\ isrBuf' = b /\ IsrHoldsRx'
    BY <1>3, <2>1 DEF IsrRxReadB, IsrGoto, ReadRxB, IsrHoldsRx
  <2>4. /\ \A k \in DOMAIN rxDone' : /\ k \in Nat /\ k >= 1 /\ k + 1 \in DOMAIN rxDone
                                     /\ rxDone'[k] = rxDone[k + 1]
        /\ \A k \in DOMAIN rxDone : k = 1 \/ \E i \in DOMAIN rxDone' : rxDone'[i] = rxDone[k]
    BY <2>1, <2>3, TailEntries
  <2>5. \A k \in DOMAIN rxDone : rxDone[k].buf = b => k = 1
    BY <2>2 DEF RxInv, RxDoneApart
  <2>6. InDone(b)
    BY <2>2 DEF InDone
  <2> HIDE DEF b, d
  <2>7. ASSUME NEW c \in RxBufs
        PROVE  /\ InDma(c)' <=> InDma(c)
               /\ InDone(c)' <=> InDone(c) /\ c # b
               /\ InIsr(c)' <=> c = b
    <3>1. InDone(c)' => InDone(c) /\ c # b
      <4> SUFFICES ASSUME NEW k \in DOMAIN rxDone', rxDone'[k].buf = c
                   PROVE  InDone(c) /\ c # b
        BY DEF InDone
      <4>1. k + 1 \in DOMAIN rxDone /\ rxDone[k + 1].buf = c /\ k + 1 # 1
        BY <2>4
      <4> QED BY <2>5, <4>1 DEF InDone
    <3>2. InDone(c) /\ c # b => InDone(c)'
      BY <2>4 DEF InDone, b, d
    <3> QED BY <1>0, <2>3, <3>1, <3>2 DEF InDma, InIsr
  <2>8. RxOut' = RxOut
    BY RxReadBStep DEF RxRingT!ringVars
  <2>9. OnceOK' /\ GoneOrder'
    BY <1>0, FramesStay
  <2>10. HeldOK'
    <3>1. \A k \in DOMAIN rxDone' : rxDone'[k].hdr = rxMem[rxDone'[k].buf]
      BY <1>0, <2>4 DEF HeldOK
    <3> QED BY <1>0, <2>1, <2>2, <2>3, <2>8, <3>1 DEF HeldOK
  <2>11. QueueOrder'
    BY <1>0 DEF StageOrder, QueueOrder, RxRingT!IsLive, RxRingT!InUse, RxRingT!Used
  <2>12. QueueFirst' /\ ChannelLast'
    BY <1>0, <2>6, <2>7, <2>8 DEF StageOrder, QueueFirst, ChannelLast
  <2>13. HandlerNext'
    <3>1. ASSUME NEW c \in RxBufs, InDone(c)', Home(c) = Home(b)
          PROVE  rxMem[b] < rxMem[c]
      <4>1. PICK k \in DOMAIN rxDone' : rxDone'[k].buf = c
        BY <3>1 DEF InDone
      <4>2. k + 1 \in DOMAIN rxDone /\ rxDone[k + 1].buf = c /\ 1 < k + 1
        BY <2>4, <4>1
      <4>3. rxDone[k + 1].lane = rxDone[1].lane
        BY <2>2, <3>1, <4>2 DEF RxInv, RxHomeOK, d
      <4> QED BY <1>0, <2>2, <4>2, <4>3 DEF StageOrder, DoneOrder, b, d
    <3>2. ASSUME NEW c \in RxBufs, InDma(c), Home(c) = Home(b)
          PROVE  rxMem[b] < rxMem[c]
      BY <1>0, <2>2, <2>6, <3>2 DEF StageOrder, ChannelLast
    <3> QED BY <1>0, <2>7, <3>1, <3>2 DEF HandlerNext
  <2>14. DoneOrder'
    <3> SUFFICES ASSUME NEW j \in DOMAIN rxDone', NEW k \in DOMAIN rxDone', j < k,
                        rxDone'[j].lane = rxDone'[k].lane
                 PROVE  rxMem[rxDone'[j].buf] < rxMem[rxDone'[k].buf]
      BY <1>0 DEF DoneOrder
    <3>1. /\ j + 1 \in DOMAIN rxDone /\ k + 1 \in DOMAIN rxDone /\ j + 1 < k + 1
          /\ rxDone'[j] = rxDone[j + 1] /\ rxDone'[k] = rxDone[k + 1]
      BY <2>4
    <3> QED BY <1>0, <3>1 DEF StageOrder, DoneOrder
  <2> QED BY <1>1, <2>9, <2>10, <2>11, <2>12, <2>13, <2>14 DEF RxDataOK, StageOrder
<1> QED BY <1>2, <1>3

(* The handler keeps the descriptor's fields with the buffer. *)
LEMMA RxFillData ==
    ASSUME RxInv, RxDataOK, IsrRxFill
    PROVE  RxDataOK'
<1> DEFINE e == [hdr |-> isrDesc.hdr, lane |-> isrDesc.lane, lenErr |-> FALSE]
<1>0. /\ RxTypeOK /\ HeldOK /\ ReadOK /\ OnceOK /\ StageOrder /\ GoneOrder
      /\ isrPc = "rxFill" /\ isrPc' = "rxPublish" /\ isrBuf \in RxBufs
      /\ IsrHoldsRx /\ IsrHoldsRx' /\ UNCHANGED <<isrBuf, isrDesc>>
      /\ UNCHANGED <<rxMem, arrived, rxFree, rxDma, rxDone, rPc, rRet>>
      /\ UNCHANGED <<rxRead, rxWrite, delivered, dropped>>
      /\ rxQueue' = [rxQueue EXCEPT ![rxWrite] = isrBuf]
      /\ rxBuffer' = [rxBuffer EXCEPT ![isrBuf] = e]
  BY DEF RxInv, RxDataOK, RxPcOK, IsrRxFill, IsrGoto, IsrHoldsRx, cardVars, memVars, rxVars, rVars
<1>1. e.hdr = isrDesc.hdr
  OBVIOUS
<1> HIDE DEF e
<1>2. \A c \in RxBufs : rxBuffer'[c] = IF c = isrBuf THEN e ELSE rxBuffer[c]
  BY <1>0 DEF RxTypeOK
<1>3. isrBuf \in RxOut /\ RxOut' = RxOut
  BY <1>0 DEF RxOut
<1>4. RxRingT!Fill(isrBuf)
  BY <1>0, <1>3 DEF RxRingT!Fill
<1>5. \A i \in RxIndex : /\ RxRingT!IsLive(i)' <=> RxRingT!IsLive(i)
                         /\ RxRingT!IsLive(i) => rxQueue'[i] = rxQueue[i]
  BY <1>0, <1>4, RxRingT!FillLive, RxRingConstants DEF RxInv
<1>6. \A c : /\ InIsr(c)' <=> InIsr(c)
             /\ InDone(c)' <=> InDone(c)
             /\ InDma(c)' <=> InDma(c)
  BY <1>0 DEF InIsr, InDone, InDma
<1>7. OnceOK' /\ GoneOrder'
  BY <1>0, FramesStay
<1>8. HeldOK'
  BY <1>0, <1>1, <1>2, <1>3 DEF HeldOK
<1>9. ReadOK'
  <2>1. rPc = "cmd" => RxHead' = RxHead
    <3>1. rxQueue \in [RxIndex -> RxBufs \cup {NoBuf}]
      BY RxRingConstants DEF RxInv, RxRingT!RingInv, RxRingT!TypeOK
    <3> QED BY <1>0, <3>1, ReadHeadLive DEF RxHead
  <2> QED BY <1>0, <2>1 DEF ReadOK
<1>10. QueueOrder'
  BY <1>0, <1>5 DEF StageOrder, QueueOrder
<1>11. QueueFirst' /\ HandlerNext' /\ ChannelLast'
  BY <1>0, <1>3, <1>6 DEF StageOrder, QueueFirst, HandlerNext, ChannelLast
<1>12. DoneOrder'
  BY <1>0 DEF StageOrder, DoneOrder
<1> QED BY <1>7, <1>8, <1>9, <1>10, <1>11, <1>12 DEF RxDataOK, StageOrder

(* The handler publishes the entry: the frame is the youngest in the queue. *)
LEMMA RxPublishData ==
    ASSUME RxInv, RxDataOK, IsrRxPublish
    PROVE  RxDataOK'
<1> DEFINE b == isrBuf
<1>0. /\ RxTypeOK /\ HeldOK /\ ReadOK /\ OnceOK /\ StageOrder /\ GoneOrder
      /\ isrPc = "rxPublish" /\ isrPc' = "rxReadA" /\ b \in RxBufs
      /\ IsrHoldsRx /\ ~IsrHoldsRx' /\ rxQueue[rxWrite] = b
      /\ UNCHANGED <<rxMem, arrived, rxFree, rxDma, rxDone, rRet, isrDesc>>
      /\ UNCHANGED <<rxQueue, rxRead, rxBuffer, delivered, dropped>>
      /\ rPc' = IF rPc = "asleep" THEN "check" ELSE rPc
  BY DEF RxInv, RxDataOK, RxPcOK, IsrRxPublish, IsrGoto, IsrHoldsRx, cardVars, memVars, rxVars
<1>1. RxRingT!Publish
  BY RxPublishStep
<1>2. RxOut' = RxOut \ {b}
  BY <1>0, <1>1 DEF RxRingT!Publish
<1>3. \A i \in RxIndex : /\ RxRingT!IsLive(i)' <=> RxRingT!IsLive(i) \/ i = rxWrite
                         /\ RxRingT!IsLive(i) =>
                               RxRingT!Dist(i, rxRead) < RxRingT!Dist(rxWrite, rxRead)
  BY <1>1, RxRingT!PublishLive, RxRingConstants DEF RxInv, RxRingT!Publish
<1>4. InIsr(b) /\ \A c : InIsr(c) => c = b
  BY <1>0 DEF InIsr
<1>11. \A c : /\ ~InIsr(c)'
              /\ InDone(c)' <=> InDone(c)
              /\ InDma(c)' <=> InDma(c)
  BY <1>0 DEF InIsr, InDone, InDma
<1> HIDE DEF b
<1>5. OnceOK' /\ GoneOrder'
  BY <1>0, FramesStay
<1>6. HeldOK'
  BY <1>0, <1>2 DEF HeldOK, b
<1>7. ReadOK'
  BY <1>0 DEF ReadOK, RxHead
<1>8. QueueOrder'
  <2> SUFFICES ASSUME NEW i \in RxIndex, NEW j \in RxIndex,
                      RxRingT!IsLive(i)', RxRingT!IsLive(j)',
                      RxRingT!Dist(i, rxRead) < RxRingT!Dist(j, rxRead),
                      Home(rxQueue[i]) = Home(rxQueue[j])
               PROVE  rxMem[rxQueue[i]] < rxMem[rxQueue[j]]
    BY <1>0 DEF QueueOrder
  <2>1. CASE RxRingT!IsLive(i) /\ RxRingT!IsLive(j)
    BY <1>0, <2>1 DEF StageOrder, QueueOrder
  <2>2. CASE RxRingT!IsLive(i) /\ j = rxWrite
    <3>1. rxQueue[i] \in RxBufs \ RxOut
      BY <2>2, LiveHolds
    <3> QED BY <1>0, <1>4, <2>2, <3>1 DEF StageOrder, QueueFirst
  <2>3. CASE i = rxWrite
    <3>1. RxRingT!Dist(i, rxRead) \in RxIndex /\ RxRingT!Dist(j, rxRead) \in RxIndex
      <4>1. rxRead \in RxIndex
        BY RxRingConstants DEF RxInv, RxRingT!RingInv, RxRingT!TypeOK
      <4> QED BY <4>1, RxRingT!DistValue, RxRingConstants
    <3> QED BY <1>3, <2>3, <3>1, RxRingConstants DEF RxIndex
  <2> QED BY <1>3, <2>1, <2>2, <2>3
<1>9. QueueFirst' /\ HandlerNext' /\ ChannelLast'
  BY <1>0, <1>2, <1>4, <1>11 DEF StageOrder, QueueFirst, HandlerNext, ChannelLast
<1>10. DoneOrder'
  BY <1>0 DEF StageOrder, DoneOrder
<1> QED BY <1>5, <1>6, <1>7, <1>8, <1>9, <1>10 DEF RxDataOK, StageOrder

(* A buffer that returns to a free list is posted, no other one is. *)
LEMMA PostedAgain ==
    ASSUME RxTypeOK, NEW n \in Lanes, NEW b \in RxBufs,
           rxFree' = [rxFree EXCEPT ![n] = Append(rxFree[n], b)]
    PROVE  \A c : Posted(c)' <=> Posted(c) \/ c = b
<1>1. rxFree[n] \in Seq(RxBufs)
  BY DEF RxTypeOK
<1>2. \A l \in Lanes : rxFree'[l] = IF l = n THEN Append(rxFree[n], b) ELSE rxFree[l]
  BY DEF RxTypeOK
<1>3. ASSUME NEW l \in Lanes, NEW k \in DOMAIN rxFree'[l]
      PROVE  \/ k \in DOMAIN rxFree[l] /\ rxFree'[l][k] = rxFree[l][k]
             \/ rxFree'[l][k] = b
  BY <1>1, <1>2, AppendEntries
<1>4. ASSUME NEW l \in Lanes, NEW k \in DOMAIN rxFree[l]
      PROVE  k \in DOMAIN rxFree'[l] /\ rxFree'[l][k] = rxFree[l][k]
  BY <1>1, <1>2, AppendEntries
<1>5. \E k \in DOMAIN rxFree'[n] : rxFree'[n][k] = b
  <2>1. rxFree'[n] = Append(rxFree[n], b)
    BY <1>2
  <2> QED BY <1>1, <2>1, AppendEntries
<1> QED BY <1>3, <1>4, <1>5 DEF Posted

(* The device is closed: the handler's frame is dropped, its buffer posted. *)
LEMMA RxDropData ==
    ASSUME RxInv, RxDataOK, IsrRxDrop
    PROVE  RxDataOK'
<1> DEFINE b == isrBuf
           x == isrDesc.hdr
<1>0. /\ RxTypeOK /\ HeldOK /\ ReadOK /\ OnceOK /\ StageOrder /\ GoneOrder
      /\ isrPc' = "rxReadA" /\ IsrHoldsRx /\ ~IsrHoldsRx'
      /\ isrDesc \in RxDesc /\ b \in RxBufs
      /\ UNCHANGED <<rxMem, arrived, rxDma, rxDone, rxBuffer, rPc, rRet>>
      /\ UNCHANGED <<rxQueue, rxRead, rxWrite, delivered>>
      /\ rxFree' = [rxFree EXCEPT ![isrDesc.lane] = Append(rxFree[isrDesc.lane], b)]
      /\ dropped' = dropped \cup {x}
  BY DEF RxInv, RxDataOK, RxPcOK, IsrRxDrop, IsrGoto, WriteRxFree, IsrHoldsRx, memVars, rxqVars
<1>1. isrDesc.lane \in Lanes /\ x = rxMem[b]
  BY <1>0, DescBuf DEF HeldOK
<1> HIDE DEF b, x
<1>2. \A c : Posted(c)' <=> Posted(c) \/ c = b
  BY <1>0, <1>1, PostedAgain
<1>3. InIsr(b) /\ ~Posted(b)
  BY <1>0, PlacesApart DEF InIsr, b
<1>4. RxOut' = RxOut
  BY RxDropStep DEF RxRingT!ringVars
<1>5. \A f : Gone(f)' <=> Gone(f) \/ f = x
  BY <1>0 DEF Gone
<1>6. x \in 1 .. arrived /\ ~Gone(x)
  BY <1>0, <1>1, <1>3, HeldArrived
<1>7. HeldOK' /\ ReadOK'
  <2>1. isrPc' # "rxPublish"
    BY <1>0
  <2>2. HeldOK'
    BY <1>0, <1>4, <2>1 DEF HeldOK
  <2> QED BY <1>0, <2>2 DEF ReadOK, RxHead
<1>8. OnceOK'
  <2>1. \A c \in RxBufs : ~Posted(c)' => rxMem[c] \in 1 .. arrived /\ ~Gone(rxMem[c])'
    BY <1>0, <1>1, <1>2, <1>3, <1>5 DEF OnceOK
  <2>2. \A c, e \in RxBufs : ~Posted(c)' /\ ~Posted(e)' /\ rxMem[c] = rxMem[e] => c = e
    BY <1>0, <1>2 DEF OnceOK
  <2>3. \A f \in 1 .. arrived : Gone(f)' \/ \E c \in RxBufs : ~Posted(c)' /\ rxMem[c] = f
    BY <1>0, <1>1, <1>2, <1>5 DEF OnceOK
  <2>4. rPc = "advance" => rRet.hdr # x
    BY <1>6 DEF Gone
  <2>5. \A l \in Lanes : \A k \in DOMAIN delivered[l] : delivered[l][k].hdr # x
    BY <1>6 DEF Gone
  <2> QED BY <1>0, <1>6, <2>1, <2>2, <2>3, <2>4, <2>5 DEF OnceOK
<1>9. \A c : /\ ~InIsr(c)'
             /\ InDone(c)' <=> InDone(c)
             /\ InDma(c)' <=> InDma(c)
  BY <1>0 DEF InIsr, InDone, InDma
<1>10. QueueOrder' /\ DoneOrder'
  BY <1>0 DEF StageOrder, QueueOrder, DoneOrder, RxRingT!IsLive, RxRingT!InUse, RxRingT!Used
<1>11. QueueFirst' /\ HandlerNext' /\ ChannelLast'
  BY <1>0, <1>4, <1>9 DEF StageOrder, QueueFirst, HandlerNext, ChannelLast
<1>12. GoneOrder'
  BY <1>0, <1>2 DEF GoneOrder
<1> QED BY <1>7, <1>8, <1>10, <1>11, <1>12 DEF RxDataOK, StageOrder

(* Read gives the buffer of its frame back: the frame is in its hands, and *)
(* all others of the lane are younger.                                     *)
LEMMA ReadFreeData ==
    ASSUME RxInv, RxDataOK, ReadFree
    PROVE  RxDataOK'
<1> DEFINE b == RxHead
           n == rxBuffer[RxHead].lane
           x == rRet.hdr
<1>0. /\ RxTypeOK /\ HeldOK /\ ReadOK /\ OnceOK /\ StageOrder /\ GoneOrder
      /\ rPc = "cmd" /\ rPc' = "advance"
      /\ UNCHANGED <<rxMem, arrived, rxDma, rxDone, rxBuffer, rRet, isrPc, isrBuf, isrDesc>>
      /\ UNCHANGED <<rxQueue, rxRead, rxWrite, delivered, dropped>>
      /\ rxFree' = [rxFree EXCEPT ![n] = Append(rxFree[n], b)]
  BY DEF RxInv, RxDataOK, ReadFree, RGoto, WriteRxFree, memVars, rxqVars, isrVars
<1>1. b \in RxBufs \ RxOut /\ rxRead \in RxIndex
  BY <1>0, ReadHeadLive
<1>2. n = Home(b) /\ n \in Lanes /\ x = rxMem[b] /\ rRet.lane = Home(b)
  <2>1. n = Home(b)
    BY <1>1 DEF RxInv, RxHomeOK
  <2>2. n \in Lanes
    BY <1>0, <1>1 DEF RxTypeOK, RxKept
  <2> QED BY <1>0, <2>1, <2>2 DEF ReadOK
<1>3. RxRingT!Release /\ b = rxQueue[rxRead]
  BY ReadFreeStep DEF RxHead
<1>4. RxOut' = RxOut \cup {b}
  BY <1>3 DEF RxRingT!Release
<1> HIDE DEF b, n, x
<1>5. \A c : Posted(c)' <=> Posted(c) \/ c = b
  BY <1>0, <1>1, <1>2, PostedAgain
<1>6. ~Posted(b)
  BY <1>1, PlacesApart
<1>7. \A f : Gone(f)' <=> Gone(f) \/ f = x
  BY <1>0 DEF Gone, x
<1>8. x \in 1 .. arrived /\ ~Gone(x)
  BY <1>0, <1>1, <1>2, <1>6, HeldArrived
<1>9. HeldOK' /\ ReadOK'
  <2>1. HeldOK'
    BY <1>0, <1>4 DEF HeldOK, IsrHoldsRx
  <2> QED BY <1>0, <2>1 DEF ReadOK
<1>10. OnceOK'
  <2>1. \A c \in RxBufs : ~Posted(c)' => rxMem[c] \in 1 .. arrived /\ ~Gone(rxMem[c])'
    BY <1>0, <1>1, <1>2, <1>5, <1>6, <1>7 DEF OnceOK
  <2>2. \A c, e \in RxBufs : ~Posted(c)' /\ ~Posted(e)' /\ rxMem[c] = rxMem[e] => c = e
    BY <1>0, <1>5 DEF OnceOK
  <2>3. \A f \in 1 .. arrived : Gone(f)' \/ \E c \in RxBufs : ~Posted(c)' /\ rxMem[c] = f
    BY <1>0, <1>2, <1>5, <1>7 DEF OnceOK
  <2>4. x \notin dropped /\ \A l \in Lanes : \A k \in DOMAIN delivered[l] : delivered[l][k].hdr # x
    BY <1>8 DEF Gone
  <2> QED BY <1>0, <1>8, <2>1, <2>2, <2>3, <2>4 DEF OnceOK, x
<1>11. \A c : /\ InIsr(c)' <=> InIsr(c)
              /\ InDone(c)' <=> InDone(c)
              /\ InDma(c)' <=> InDma(c)
  BY <1>0 DEF InIsr, InDone, InDma, IsrHoldsRx
<1>12. \A i \in RxIndex : /\ RxRingT!IsLive(i)' <=> RxRingT!IsLive(i) /\ i # rxRead
                          /\ i # rxRead => RxRingT!Dist(rxRead, rxRead) < RxRingT!Dist(i, rxRead)
  BY <1>3, RxRingT!ReleaseLive, RxRingConstants DEF RxInv, RxRingT!Release
<1>13. QueueOrder' /\ DoneOrder'
  <2>1. QueueOrder'
    BY <1>0, <1>12 DEF StageOrder, QueueOrder
  <2> QED BY <1>0, <2>1 DEF StageOrder, DoneOrder
<1>14. QueueFirst' /\ HandlerNext' /\ ChannelLast'
  BY <1>0, <1>4, <1>11 DEF StageOrder, QueueFirst, HandlerNext, ChannelLast
<1>15. ASSUME NEW c \in RxBufs, ~Posted(c), c # b, Home(c) = Home(b)
       PROVE  x < rxMem[c]
  <2>1. CASE c \in RxOut
    <3>1. InIsr(c) \/ InDone(c) \/ InDma(c)
      BY <1>15, <2>1, PlacesApart
    <3> QED BY <1>0, <1>1, <1>2, <1>15, <3>1 DEF StageOrder, QueueFirst
  <2>2. CASE c \notin RxOut
    <3>1. PICK i \in RxIndex : RxRingT!IsLive(i) /\ rxQueue[i] = c
      BY <2>2, LiveHolds
    <3>2. RxRingT!IsLive(rxRead)
      BY <1>3, RxRingT!ReleaseLive, RxRingConstants DEF RxInv, RxRingT!Release
    <3>3. i # rxRead
      BY <1>3, <1>15, <3>1
    <3> QED BY <1>0, <1>1, <1>2, <1>3, <1>12, <1>15, <3>1, <3>2, <3>3 DEF StageOrder, QueueOrder
  <2> QED BY <2>1, <2>2
<1>16. GoneOrder'
  <2>1. \A k \in DOMAIN delivered[rRet.lane] : delivered[rRet.lane][k].hdr < x
    BY <1>0, <1>1, <1>2, <1>6 DEF GoneOrder
  <2> QED BY <1>0, <1>2, <1>5, <1>15, <2>1 DEF GoneOrder, x
<1> QED BY <1>9, <1>10, <1>13, <1>14, <1>16 DEF RxDataOK, StageOrder

(* Read returns: the frame is with the application, or lost to a failed    *)
(* copy.                                                                   *)
LEMMA ReadAdvanceData ==
    ASSUME RxInv, RxDataOK, ReadAdvance
    PROVE  RxDataOK'
<1> DEFINE x == rRet.hdr
           n == rRet.lane
<1>0. /\ RxTypeOK /\ HeldOK /\ ReadOK /\ OnceOK /\ StageOrder /\ GoneOrder
      /\ rPc = "advance" /\ rPc' = "idle"
      /\ UNCHANGED <<rxMem, arrived, rxFree, rxDma, rxDone, isrPc, isrBuf, isrDesc>>
      /\ UNCHANGED <<rxQueue, rxWrite, rxBuffer>>
  BY DEF RxInv, RxDataOK, ReadAdvance, RGoto, cardVars, memVars, rxVars, isrVars
<1>1. rRet \in Ret /\ n \in Lanes /\ delivered[n] \in Seq(Ret) /\ delivered \in [Lanes -> Seq(Ret)]
  BY <1>0 DEF RxTypeOK, Ret
<1>2. \/ dropped' = dropped \cup {x} /\ delivered' = delivered
      \/ /\ rRet.data = x /\ dropped' = dropped
         /\ delivered' = [delivered EXCEPT ![n] = Append(delivered[n], rRet)]
  BY <1>0 DEF ReadAdvance, ReadOK
<1>3. /\ x \in 1 .. arrived /\ x \notin dropped
      /\ \A l \in Lanes : \A k \in DOMAIN delivered[l] : delivered[l][k].hdr # x
  BY <1>0 DEF OnceOK
<1>4. RxRingT!Advance
  BY ReadAdvanceStep
<1>5. RxOut' = RxOut
  BY <1>4 DEF RxRingT!Advance
<1> HIDE DEF x, n
<1>6. ASSUME NEW l \in Lanes, NEW k \in DOMAIN delivered'[l]
      PROVE  \/ k \in DOMAIN delivered[l] /\ delivered'[l][k] = delivered[l][k]
             \/ /\ l = n /\ k = Len(delivered[n]) + 1 /\ delivered'[l][k] = rRet
                /\ rRet.data = x /\ dropped' = dropped
  <2>1. CASE l = n /\ delivered' # delivered
    <3>1. delivered'[l] = Append(delivered[n], rRet) /\ rRet.data = x /\ dropped' = dropped
      BY <1>1, <1>2, <2>1
    <3> QED BY <1>1, <2>1, <3>1, AppendEntries
  <2>2. CASE l # n \/ delivered' = delivered
    <3>1. delivered'[l] = delivered[l]
      BY <1>1, <1>2, <2>2
    <3> QED BY <3>1
  <2> QED BY <2>1, <2>2
<1>7. ASSUME NEW l \in Lanes, NEW k \in DOMAIN delivered[l]
      PROVE  k \in DOMAIN delivered'[l] /\ delivered'[l][k] = delivered[l][k]
  BY <1>1, <1>2, AppendEntries
<1>8. \A k \in DOMAIN delivered[n] : k \in Nat /\ k < Len(delivered[n]) + 1
  BY <1>1
<1>9. x \in dropped' \/ \E k \in DOMAIN delivered'[n] : delivered'[n][k] = rRet
  <2>1. x \in dropped' \/ delivered'[n] = Append(delivered[n], rRet)
    BY <1>1, <1>2
  <2>2. /\ Len(delivered[n]) + 1 \in DOMAIN Append(delivered[n], rRet)
        /\ Append(delivered[n], rRet)[Len(delivered[n]) + 1] = rRet
    BY <1>1, AppendEntries
  <2> QED BY <2>1, <2>2
<1>10. \A f : Gone(f)' <=> Gone(f)
  <2>1. ASSUME NEW f, Gone(f)' PROVE Gone(f)
    <3>1. f \in dropped' => f \in dropped \/ f = x
      BY <1>2
    <3>2. CASE \E l \in Lanes : \E k \in DOMAIN delivered'[l] : delivered'[l][k].hdr = f
      BY <1>0, <1>6, <3>2 DEF Gone, x
    <3> QED BY <1>0, <2>1, <3>1, <3>2 DEF Gone, x
  <2>2. ASSUME NEW f, Gone(f) PROVE Gone(f)'
    <3>1. f \in dropped => f \in dropped'
      BY <1>2
    <3>2. CASE f = x
      BY <1>1, <1>9, <3>2 DEF Gone, x
    <3>3. CASE \E l \in Lanes : \E k \in DOMAIN delivered[l] : delivered[l][k].hdr = f
      BY <1>7, <3>3 DEF Gone
    <3> QED BY <1>0, <2>2, <3>1, <3>2, <3>3 DEF Gone, x
  <2> QED BY <2>1, <2>2
<1>11. \A c : Posted(c)' <=> Posted(c)
  BY <1>0 DEF Posted
<1>12. HeldOK'
  BY <1>0, <1>5 DEF HeldOK, IsrHoldsRx
<1>13. ReadOK'
  <2>1. rRet.cut => rRet.err
    BY <1>0 DEF ReadOK
  <2>2. \A l \in Lanes : \A k \in DOMAIN delivered'[l] :
           /\ delivered'[l][k].data = delivered'[l][k].hdr
           /\ delivered'[l][k].cut => delivered'[l][k].err
    BY <1>0, <1>6, <2>1 DEF ReadOK, x
  <2> QED BY <1>0, <2>2 DEF ReadOK
<1>14. OnceOK'
  <2>1. \A b \in RxBufs : ~Posted(b)' => rxMem[b] \in 1 .. arrived /\ ~Gone(rxMem[b])'
    BY <1>0, <1>10, <1>11 DEF OnceOK
  <2>2. \A b, c \in RxBufs : ~Posted(b)' /\ ~Posted(c)' /\ rxMem[b] = rxMem[c] => b = c
    BY <1>0, <1>11 DEF OnceOK
  <2>3. \A f \in 1 .. arrived : Gone(f)' \/ \E b \in RxBufs : ~Posted(b)' /\ rxMem[b] = f
    BY <1>0, <1>10, <1>11 DEF OnceOK
  <2>4. \A f \in dropped' : f \in 1 .. arrived
    BY <1>0, <1>2, <1>3 DEF OnceOK
  <2>5. \A l \in Lanes : \A k \in DOMAIN delivered'[l] :
           delivered'[l][k].hdr \in 1 .. arrived /\ delivered'[l][k].hdr \notin dropped'
    BY <1>0, <1>2, <1>3, <1>6 DEF OnceOK, x
  <2>6. \A l, m \in Lanes : \A j \in DOMAIN delivered'[l], k \in DOMAIN delivered'[m] :
           delivered'[l][j].hdr = delivered'[m][k].hdr => l = m /\ j = k
    BY <1>0, <1>3, <1>6 DEF OnceOK, x
  <2> QED BY <1>0, <2>1, <2>2, <2>3, <2>4, <2>5, <2>6 DEF OnceOK
<1>15. \A c : /\ InIsr(c)' <=> InIsr(c)
              /\ InDone(c)' <=> InDone(c)
              /\ InDma(c)' <=> InDma(c)
  BY <1>0 DEF InIsr, InDone, InDma, IsrHoldsRx
<1>16. QueueOrder'
  <2>1. \A i \in RxIndex : /\ RxRingT!IsLive(i)' <=> RxRingT!IsLive(i)
                           /\ RxRingT!IsLive(i) =>
                                 RxRingT!Dist(i, rxRead') = RxRingT!Dist(i, rxRead) - 1
    BY <1>4, RxRingT!AdvanceLive, RxRingConstants DEF RxInv, RxRingT!Advance
  <2>2. \A i \in RxIndex : RxRingT!Dist(i, rxRead) \in Nat
    <3>1. rxRead \in RxIndex
      BY RxRingConstants DEF RxInv, RxRingT!RingInv, RxRingT!TypeOK
    <3>2. \A i \in RxIndex : RxRingT!Dist(i, rxRead) \in RxIndex
      BY <3>1, RxRingT!DistValue, RxRingConstants
    <3> QED BY <3>2, RxRingConstants DEF RxIndex
  <2>3. ASSUME NEW i \in RxIndex, NEW j \in RxIndex, RxRingT!IsLive(i), RxRingT!IsLive(j),
               RxRingT!Dist(i, rxRead') < RxRingT!Dist(j, rxRead')
        PROVE  RxRingT!Dist(i, rxRead) < RxRingT!Dist(j, rxRead)
    BY <2>1, <2>2, <2>3
  <2> QED BY <1>0, <2>1, <2>3 DEF StageOrder, QueueOrder
<1>17. QueueFirst' /\ HandlerNext' /\ ChannelLast' /\ DoneOrder'
  <2>1. DoneOrder'
    BY <1>0 DEF StageOrder, DoneOrder
  <2> QED BY <1>0, <1>5, <1>15, <2>1 DEF StageOrder, QueueFirst, HandlerNext, ChannelLast
<1>18. GoneOrder'
  <2>1. \A l \in Lanes : \A j, k \in DOMAIN delivered'[l] :
           j < k => delivered'[l][j].hdr < delivered'[l][k].hdr
    BY <1>0, <1>6, <1>8 DEF GoneOrder, x, n
  <2>2. \A l \in Lanes : \A k \in DOMAIN delivered'[l] : \A b \in RxBufs :
           ~Posted(b) /\ Home(b) = l => delivered'[l][k].hdr < rxMem[b]
    BY <1>0, <1>6 DEF GoneOrder, x, n
  <2> QED BY <1>0, <1>11, <2>1, <2>2 DEF GoneOrder
<1> QED BY <1>12, <1>13, <1>14, <1>16, <1>17, <1>18 DEF RxDataOK, StageOrder

(* Steps that touch no RX buffer and nothing of the reader. *)
LEMMA RxUntouchedData ==
    ASSUME RxInv, RxDataOK, UNCHANGED <<rxMem, arrived, rxFree, rxDma, rxDone, rxqVars, rVars>>,
           UNCHANGED isrVars \/ (~IsrHoldsRx /\ ~IsrHoldsRx')
    PROVE  RxDataOK'
<1>1. RxDataQuiet
  BY DEF RxDataQuiet, rxqVars, rVars, isrVars
<1>2. ReadOK'
  BY DEF RxDataOK, ReadOK, RxHead, rxqVars, rVars
<1> QED BY <1>1, <1>2, RxQuietData

(* Every step of the interrupt handler keeps the data invariant. *)
LEMMA HandlerData ==
    ASSUME RxInv, RxDataOK, Handler
    PROVE  RxDataOK'
<1>1. CASE \/ IsrEnter \/ IsrDisable \/ IsrTxStat \/ IsrTxPop \/ IsrTxFill \/ IsrTxPublish
           \/ IsrRxStat \/ IsrRxReadA \/ IsrEnable
  <2>1. UNCHANGED <<rxMem, arrived, rxFree, rxDma, rxDone, rxqVars, rVars>>
    BY <1>1 DEF IsrEnter, IsrDisable, IsrTxStat, IsrTxPop, IsrTxFill, IsrTxPublish, IsrRxStat,
                IsrRxReadA, IsrEnable, UnchangedButIsr, cardVars, memVars, rxVars
  <2>2. ~IsrHoldsRx /\ ~IsrHoldsRx'
    BY <1>1 DEF IsrEnter, IsrDisable, IsrTxStat, IsrTxPop, IsrTxFill, IsrTxPublish, IsrRxStat,
                IsrRxReadA, IsrEnable, IsrGoto, IsrHoldsRx
  <2> QED BY <2>1, <2>2, RxUntouchedData
<1> QED BY <1>1, RxReadBData, RxFillData, RxPublishData, RxDropData DEF Handler

(* Initially every buffer is posted and no frame has arrived. *)
LEMMA RxInitData == Init => RxDataOK
<1> SUFFICES ASSUME Init PROVE RxDataOK
  OBVIOUS
<1>0. /\ rxDma = [l \in Lanes |-> NoRxDesc] /\ rxDone = << >> /\ ~IsrHoldsRx
      /\ isrPc = "idle" /\ rPc = "idle"
      /\ arrived = 0 /\ delivered = [l \in Lanes |-> << >>] /\ dropped = {}
  BY DEF Init, CardInit, IsrHoldsRx
<1>1. ASSUME NEW b \in RxBufs PROVE Posted(b)
  <2>1. Home(b) \in Lanes
    BY CardAssumption DEF Home, RxBufs, Lanes
  <2>2. rxFree = [l \in Lanes |-> PostedTo(l)]
    BY DEF Init, CardInit
  <2> QED BY <2>1, <2>2, PostedBuffers DEF Posted
<1>2. RxBufs \ RxOut = {}
  BY <1>1 DEF Posted, RxOut
<1>3. HeldOK /\ ReadOK
  BY <1>0, <1>2 DEF HeldOK, ReadOK
<1>4. OnceOK /\ GoneOrder
  BY <1>0, <1>1 DEF OnceOK, GoneOrder
<1>5. QueueOrder
  BY <1>2, RxInitInv, LiveHolds DEF QueueOrder
<1>6. \A b \in RxBufs : ~InDma(b) /\ ~InDone(b) /\ ~InIsr(b)
  BY <1>0, DescBuf DEF InDma, InDone, InIsr
<1>7. QueueFirst /\ HandlerNext /\ ChannelLast /\ DoneOrder
  BY <1>0, <1>6 DEF QueueFirst, HandlerNext, ChannelLast, DoneOrder
<1> QED BY <1>3, <1>4, <1>5, <1>7 DEF RxDataOK, StageOrder

(* Every step keeps each frame whole, in one place and in its order. *)
LEMMA RxNextData ==
    ASSUME RxInv, RxDataOK, [Next]_vars
    PROVE  RxDataOK'
<1>1. CASE CardStep /\ UNCHANGED hostVars
  <2>1. ASSUME NEW l \in Lanes, TxNew(l) \/ TxDone(l)
        PROVE  UNCHANGED <<rxMem, arrived, rxFree, rxDma, rxDone, rxqVars, rVars, isrVars>>
    BY <1>1, <2>1 DEF TxNew, TxDone, hostVars, memVars, rxVars
  <2>2. CASE IrqSet \/ IrqAck \/ IrqServ
    BY <1>1, <2>2, RxUntouchedData DEF IrqSet, IrqAck, IrqServ, IrqGoto, hostVars, memVars, rxVars
  <2> QED BY <1>1, <2>1, <2>2, RxUntouchedData, RxNewData, RxDoneData DEF CardStep
<1>2. CASE Open \/ Release
  BY <1>2, RxUntouchedData DEF Open, Release, cardVars, memVars, rxVars
<1>3. CASE Writer
  <2>1. UNCHANGED <<rxMem, rxVars, rxqVars, rVars, isrVars>>
    BY <1>3 DEF Writer, WriteStart, WriteReturn, WriteSleep, WriteCopy, WriteDescA, WriteBadLane,
                WriteDescB, WriteAdvance, cardVars, memVars
  <2> QED BY <2>1, RxUntouchedData DEF rxVars
<1>4. CASE Reader
  BY <1>4, ReaderData, ReadFreeData, ReadAdvanceData DEF Reader
<1>5. CASE Handler
  BY <1>5, HandlerData
<1>6. CASE UNCHANGED vars
  BY <1>6, RxUntouchedData DEF vars, cardVars, memVars, rxVars, hostVars
<1> QED BY <1>1, <1>2, <1>3, <1>4, <1>5, <1>6 DEF Next

-----------------------------------------------------------------------------
(* Each frame is whole, in one place and behind the older ones of its lane *)
(* in every reachable state.                                               *)
THEOREM RxDataSafe == Spec => []RxDataOK
<1>1. Init => RxDataOK
  BY RxInitData
<1>2. RxInv /\ RxDataOK /\ [Next]_vars => RxDataOK'
  BY RxNextData
<1> QED BY <1>1, <1>2, RxSafe, PTL DEF Spec

(* What PgpCard_Read returns is a frame's own payload with its own header, *)
(* a cut payload is flagged, and the frames of a lane come in order of     *)
(* arrival, although buffers are reused, descriptors are read in two       *)
(* halves, reads fail half-way and the device is closed at any moment.     *)
THEOREM RxReadIntegrity == Spec => []RxIntegrity
<1>1. RxDataOK => RxIntegrity
  BY DEF RxDataOK, ReadOK, GoneOrder, RxIntegrity
<1> QED BY <1>1, RxDataSafe, PTL

(* A frame in a buffer is held by the holder of the buffer. *)
LEMMA FrameInBuffer ==
    ASSUME RxInv, RxDataOK, NEW f \in 1 .. arrived, NEW b \in RxBufs, ~Posted(b), rxMem[b] = f
    PROVE  FrameHolders(f) # {}
<1>0. HeldOK /\ b # NoBuf
  BY DescBuf DEF RxDataOK
<1>1. CASE InDma(b)
  <2>1. PICK l \in Lanes : rxDma[l].buf = b
    BY <1>1 DEF InDma
  <2>2. rxDma[l].hdr = f
    BY <1>0, <2>1, DescBuf DEF HeldOK
  <2>3. <<"dma", l, 0>> \in FrameHolders(f)
    BY <2>2 DEF FrameHolders
  <2> QED BY <2>3
<1>2. CASE InDone(b)
  <2>1. PICK k \in DOMAIN rxDone : rxDone[k].buf = b
    BY <1>2 DEF InDone
  <2>2. rxDone[k].hdr = f
    BY <1>0, <2>1 DEF HeldOK
  <2>3. <<"done", 0, k>> \in FrameHolders(f)
    BY <2>2 DEF FrameHolders
  <2> QED BY <2>3
<1>3. CASE InIsr(b)
  <2>1. IsrHoldsRx /\ isrDesc.hdr = f
    BY <1>0, <1>3 DEF HeldOK, InIsr
  <2>2. <<"isr", 0, 0>> \in FrameHolders(f)
    BY <2>1 DEF FrameHolders
  <2> QED BY <2>2
<1>4. CASE b \notin RxOut
  <2>1. PICK i \in RxIndex : RxRingT!IsLive(i) /\ rxQueue[i] = b
    BY <1>4, LiveHolds
  <2>2. i \in RxLive /\ rxBuffer[rxQueue[i]].hdr = f
    BY <1>0, <1>4, <2>1, RxLiveIsLive DEF HeldOK
  <2>3. <<"queue", 0, i>> \in FrameHolders(f)
    BY <2>2 DEF FrameHolders
  <2> QED BY <2>3
<1> QED BY <1>1, <1>2, <1>3, <1>4, PlacesApart

(* The places of a frame: those of the one buffer that contains it, or a   *)
(* place behind the queue.                                                 *)
LEMMA FramePlaces ==
    ASSUME RxInv, RxDataOK, NEW f \in 1 .. arrived, NEW x \in FrameHolders(f)
    PROVE  \/ \E b \in RxBufs : ~Posted(b) /\ rxMem[b] = f /\ x \in RxHolders(b)
           \/ rPc = "advance" /\ rRet.hdr = f /\ x = <<"read", 0, 0>>
           \/ \E l \in Lanes : \E k \in DOMAIN delivered[l] :
                  delivered[l][k].hdr = f /\ x = <<"user", l, k>>
           \/ f \in dropped /\ x = <<"dropped", 0, 0>>
<1> DEFINE InBuffer == \E b \in RxBufs : ~Posted(b) /\ rxMem[b] = f /\ x \in RxHolders(b)
<1>0. HeldOK /\ RxTypeOK /\ f # 0
  <2>1. arrived \in Nat
    BY CardAssumption DEF RxInv, RxTypeOK, RxFrames
  <2> QED BY <2>1 DEF RxInv, RxDataOK
<1>1. CASE x \in {<<"dma", l, 0>> : l \in {m \in Lanes : rxDma[m].hdr = f}}
  <2>1. PICK l \in Lanes : rxDma[l].hdr = f /\ x = <<"dma", l, 0>>
    BY <1>1
  <2>2. rxDma[l] \in RxDesc /\ rxDma[l] # NoRxDesc
    BY <1>0, <2>1, DescBuf DEF RxTypeOK, NoRxDesc
  <2> DEFINE b == rxDma[l].buf
  <2>3. b \in RxBufs /\ rxMem[b] = f /\ InDma(b)
    BY <1>0, <2>1, <2>2, DescBuf DEF HeldOK, InDma
  <2>4. x \in RxHolders(b)
    BY <2>1 DEF RxHolders
  <2>5. InBuffer
    BY <2>3, <2>4, PlacesApart
  <2> QED BY <2>5
<1>2. CASE x \in {<<"done", 0, k>> : k \in {j \in DOMAIN rxDone : rxDone[j].hdr = f}}
  <2>1. PICK k \in DOMAIN rxDone : rxDone[k].hdr = f /\ x = <<"done", 0, k>>
    BY <1>2
  <2> DEFINE b == rxDone[k].buf
  <2>2. b \in RxBufs /\ rxMem[b] = f /\ InDone(b)
    BY <1>0, <2>1, DescBuf DEF RxTypeOK, HeldOK, InDone
  <2>3. x \in RxHolders(b)
    BY <2>1 DEF RxHolders
  <2>4. InBuffer
    BY <2>2, <2>3, PlacesApart
  <2> QED BY <2>4
<1>3. CASE x \in {<<"isr", 0, 0>> : z \in {y \in {isrDesc.hdr} : IsrHoldsRx /\ y = f}}
  <2>1. IsrHoldsRx /\ isrDesc.hdr = f /\ x = <<"isr", 0, 0>>
    BY <1>3
  <2>2. isrBuf \in RxBufs /\ rxMem[isrBuf] = f /\ InIsr(isrBuf)
    BY <1>0, <2>1 DEF RxInv, RxPcOK, HeldOK, InIsr
  <2>3. x \in RxHolders(isrBuf)
    BY <2>1 DEF RxHolders
  <2>4. InBuffer
    BY <2>2, <2>3, PlacesApart
  <2> QED BY <2>4
<1>4. CASE x \in {<<"queue", 0, i>> : i \in {j \in RxLive : rxBuffer[rxQueue[j]].hdr = f}}
  <2>1. PICK i \in RxLive : rxBuffer[rxQueue[i]].hdr = f /\ x = <<"queue", 0, i>>
    BY <1>4
  <2> DEFINE b == rxQueue[i]
  <2>2. b \in RxBufs \ RxOut
    BY LiveHolds, RxLiveIsLive
  <2>3. rxMem[b] = f
    BY <1>0, <2>1, <2>2 DEF HeldOK
  <2>4. x \in RxHolders(b)
    BY <2>1 DEF RxHolders
  <2>5. InBuffer
    BY <2>2, <2>3, <2>4, PlacesApart
  <2> QED BY <2>5
<1>5. CASE x \in {<<"read", 0, 0>> : z \in {y \in {rRet.hdr} : rPc = "advance" /\ y = f}}
  BY <1>5
<1>6. CASE x \in UNION {{<<"user", l, k>> : k \in {j \in DOMAIN delivered[l] : delivered[l][j].hdr = f}} : l \in Lanes}
  BY <1>6
<1>7. CASE x \in {<<"dropped", 0, 0>> : z \in dropped \cap {f}}
  BY <1>7
<1> QED BY <1>1, <1>2, <1>3, <1>4, <1>5, <1>6, <1>7 DEF FrameHolders

(* No received frame is lost or duplicated: from its arrival on it is in   *)
(* exactly one place between the link and the application, unless the      *)
(* handler of a closed device or a failed copy has discarded it.           *)
THEOREM RxEachFrameOnce == Spec => []RxFrameOnce
<1>1. RxInv /\ RxDataOK => RxFrameOnce
  <2> SUFFICES ASSUME RxInv, RxDataOK, NEW f \in 1 .. arrived
               PROVE  FrameHolders(f) # {} /\ AtMostOne(FrameHolders(f))
    BY DEF RxFrameOnce
  <2>0. OnceOK
    BY DEF RxDataOK
  <2>1. FrameHolders(f) # {}
    <3>1. CASE \E b \in RxBufs : ~Posted(b) /\ rxMem[b] = f
      BY <3>1, FrameInBuffer
    <3>2. CASE rPc = "advance" /\ rRet.hdr = f
      <4>1. <<"read", 0, 0>> \in FrameHolders(f)
        BY <3>2 DEF FrameHolders
      <4> QED BY <4>1
    <3>3. CASE f \in dropped
      <4>1. <<"dropped", 0, 0>> \in FrameHolders(f)
        BY <3>3 DEF FrameHolders
      <4> QED BY <4>1
    <3>4. ASSUME NEW l \in Lanes, NEW k \in DOMAIN delivered[l], delivered[l][k].hdr = f
          PROVE  FrameHolders(f) # {}
      <4>1. <<"user", l, k>> \in FrameHolders(f)
        BY <3>4 DEF FrameHolders
      <4> QED BY <4>1
    <3> QED BY <2>0, <3>1, <3>2, <3>3, <3>4 DEF OnceOK, Gone
  <2>2. ASSUME NEW p \in FrameHolders(f), NEW q \in FrameHolders(f)
        PROVE  p = q
    <3> DEFINE B(x) == \E b \in RxBufs : ~Posted(b) /\ rxMem[b] = f /\ x \in RxHolders(b)
               R(x) == rPc = "advance" /\ rRet.hdr = f /\ x = <<"read", 0, 0>>
               U(x) == \E l \in Lanes : \E k \in DOMAIN delivered[l] :
                           delivered[l][k].hdr = f /\ x = <<"user", l, k>>
               P(x) == f \in dropped /\ x = <<"dropped", 0, 0>>
    <3>1. (B(p) \/ R(p) \/ U(p) \/ P(p)) /\ (B(q) \/ R(q) \/ U(q) \/ P(q))
      BY FramePlaces
    <3>2. B(p) /\ B(q) => p = q
      BY <2>0, InvRxExclusive DEF OnceOK, AtMostOne
    <3>3. \A x : B(x) => ~Gone(f)
      BY <2>0 DEF OnceOK
    <3>4. \A x : R(x) \/ U(x) \/ P(x) => Gone(f)
      BY DEF Gone
    <3>5. (R(p) => R(q) \/ B(q)) /\ (R(q) => R(p) \/ B(p))
      BY <2>0, <3>1 DEF OnceOK
    <3>6. (P(p) => P(q) \/ B(q) \/ R(q)) /\ (P(q) => P(p) \/ B(p) \/ R(p))
      BY <2>0, <3>1 DEF OnceOK
    <3>7. U(p) /\ U(q) => p = q
      BY <2>0 DEF OnceOK
    <3>8. (R(p) /\ R(q) => p = q) /\ (P(p) /\ P(q) => p = q)
      OBVIOUS
    <3> HIDE DEF B, R, U, P
    <3> QED BY <3>1, <3>2, <3>3, <3>4, <3>5, <3>6, <3>7, <3>8
  <2> QED BY <2>1, <2>2 DEF AtMostOne
<1> QED BY <1>1, RxSafe, RxDataSafe, PTL
=============================================================================
