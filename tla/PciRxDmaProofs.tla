--------------------------- MODULE PciRxDmaProofs ---------------------------
(***************************************************************************)
(* The receive DMA of one lane, for any transaction length, frame lengths  *)
(* and FIFO depth: the two FIFOs stay in step, and a buffer holds its      *)
(* frame.                                                                  *)
(*                                                                         *)
(* The invariant follows two marks per FIFO entry.  ends[i] is where the   *)
(* data FIFO has come to before entry i: frame, first word of the          *)
(* transaction, last word.  cuts[i] is the same for the transaction FIFO:  *)
(* frame and last word.  ends[1] is the last word PciRxDma has taken,      *)
(* cuts[1] the last word of the last transaction it has taken.             *)
(***************************************************************************)
EXTENDS PciRxDma, TLAPS

(* A frame some word of which PciRxTransFifo accepts. *)
Taken(f) == f \in 1 .. FrameCnt /\ Begin(f) \in 1 .. frames[f].len

(* The length of a frame; before the first one there is an empty frame 0.  *)
FLen(f) == IF f = 0 THEN 0 ELSE frames[f].len

(* The word after word k of frame f is word j of frame g. *)
Follows(f, k, g, j) ==
    \/ k < FLen(f) /\ g = f /\ j = k + 1
    \/ k = FLen(f) /\ g > f /\ Taken(g) /\ j = Begin(g) /\ \A h \in f + 1 .. g - 1 : ~Taken(h)

(* Where a transaction that starts at word s of frame f has its last word: *)
(* after TransLen words or at the end of the frame.                        *)
EndsAt(f, s, x) == x \in s .. s + TransLen - 1 /\ x <= frames[f].len /\ (x = s + TransLen - 1 \/ x = frames[f].len)

(* The error mark a frame has in the end. *)
FrameEofe(f) == frames[f].eofe \/ (frames[f].mid > Begin(f) /\ frames[f].mid < frames[f].len)

Mark  == [frame : Nat, start : Nat, last : Nat]
Place == [frame : Nat, last : Nat]
Entry == [sof : BOOLEAN, eof : BOOLEAN, eofe : BOOLEAN, length : Nat, cnt : Nat]
Data  == [words : Seq(Nat \X Nat), sof : BOOLEAN, last : BOOLEAN]

SpType == [state : {"idle", "send"}, cnt : Nat, tranCnt : Nat, tranEof : BOOLEAN,
           tranEofe : BOOLEAN, words : Seq(Nat \X Nat)]
DmaStates == {"IDLE", "ACK_WAIT", "READ_TRANS", "HDR", "COLLECT", "TR_DONE"}
DmaType == [state : DmaStates, tran : Entry, cnt : Nat, newAddr : Nat, put : Nat,
            doneLength : Nat, lengthErr : BOOLEAN]

Types ==
    /\ at \in [frame : Nat, idx : Nat] /\ at.frame >= 1 /\ at.idx >= 1
    /\ sp \in SpType /\ dma \in DmaType
    /\ data \in Seq(Data) /\ tran \in Seq(Entry)

(* Beat b continues the stream at mark a and leaves it at mark z: the      *)
(* first word of a transaction alone, the others four at a time.           *)
Ended(a) == a.last = FLen(a.frame) \/ a.last = a.start + TransLen - 1

FirstBeat(a, b, z) ==
    /\ Ended(a)
    /\ Follows(a.frame, a.last, z.frame, z.last) /\ z.start = z.last
    /\ b.words = <<<<z.frame, z.last>>>>
    /\ z.last = Begin(z.frame) => b.sof
NextBeat(a, b, z) ==
    /\ ~Ended(a)
    /\ z.frame = a.frame /\ z.start = a.start
    /\ Len(b.words) \in 1 .. 4 /\ z.last = a.last + Len(b.words)
    /\ \A k \in 1 .. Len(b.words) : b.words[k] = <<a.frame, a.last + k>>
    /\ z.last <= frames[z.frame].len /\ z.last <= z.start + TransLen - 1
    /\ Len(b.words) = 4 \/ Ended(z)
BeatOK(a, b, z) ==
    /\ FirstBeat(a, b, z) \/ NextBeat(a, b, z)
    /\ b.last <=> z.last = frames[z.frame].len

(* Transaction t of frame z.frame ends at word z.last. *)
Start(t, z) == z.last - t.length + 1
TranShape(t, z) ==
    /\ z.frame \in 1 .. FrameCnt /\ t.length >= 1
    /\ Begin(z.frame) >= 1 /\ Start(t, z) >= Begin(z.frame)
    /\ EndsAt(z.frame, Start(t, z), z.last)
    /\ t.length > 1 => 4 * t.cnt < t.length - 1 /\ t.length - 1 <= 4 * t.cnt + 4
    /\ t.eof <=> z.last = frames[z.frame].len
    /\ t.eof => (t.eofe <=> FrameEofe(z.frame))
TranOK(a, t, z) == TranShape(t, z) /\ t.sof /\ Follows(a.frame, a.last, z.frame, Start(t, z))

DataOK(ends) ==
    /\ ends \in Seq(Mark) /\ Len(ends) = Len(data) + 1
    /\ \A i \in 1 .. Len(data) : BeatOK(ends[i], data[i], ends[i + 1])
TransOK(cuts) ==
    /\ cuts \in Seq(Place) /\ Len(cuts) = Len(tran) + 1
    /\ \A i \in 1 .. Len(tran) : TranOK(cuts[i], tran[i], cuts[i + 1])

(* PciRxTransFifo continues both streams: m and z are their last marks.    *)
BetweenFrames(f) ==   \* frame f is the last one that was accepted
    /\ f < at.frame
    /\ \A h \in f + 1 .. at.frame - 1 : ~Taken(h)
    /\ at.frame \in 1 .. FrameCnt => Begin(at.frame) \notin 1 .. at.idx - 1
InFrame ==
    /\ Taken(at.frame) /\ Begin(at.frame) < at.idx
    /\ sp.tranEofe <=> frames[at.frame].mid > Begin(at.frame) /\ frames[at.frame].mid < at.idx
SpIdle(m, z) ==
    /\ z.frame = m.frame /\ z.last = m.last
    /\ m.frame \in 0 .. FrameCnt
    /\ IF sp.tranEof
       THEN m.last = FLen(m.frame) /\ BetweenFrames(m.frame)
       ELSE /\ InFrame /\ m.frame = at.frame
            /\ m.last = at.idx - 1 /\ m.last = m.start + TransLen - 1
SpSend(m, z) ==
    /\ ~sp.tranEof /\ InFrame
    /\ sp.cnt \in 2 .. TransLen
    /\ Len(sp.words) < 4 /\ sp.cnt = 4 * sp.tranCnt + Len(sp.words) + 2
    /\ m.frame = at.frame /\ m.start = at.idx - sp.cnt + 1 /\ m.last = at.idx - 1 - Len(sp.words)
    /\ Begin(m.frame) <= m.start
    /\ \A k \in 1 .. Len(sp.words) : sp.words[k] = <<m.frame, m.last + k>>
    /\ Follows(z.frame, z.last, m.frame, m.start)
SpOK(m, z) ==
    /\ at.frame \in 1 .. FrameCnt => at.idx <= frames[at.frame].len
    /\ sp.state = "idle" => SpIdle(m, z)
    /\ sp.state = "send" => SpSend(m, z)

(* PciRxDma has taken the words up to mark m and the transactions up to z. *)
Image(f, y) == {<<k - Begin(f), <<f, k>>>> : k \in Begin(f) .. y}

InStep(m, z) == z.frame = m.frame /\ z.last = m.last
FrameDone(m) == m.last = FLen(m.frame) /\ m.frame \in 0 .. FrameCnt
Holds(f, y)  == dma.doneLength = y - Begin(f) + 1 /\ buffer = Image(f, y)
NoError      == ~dma.lengthErr /\ dma.doneLength # MaxFrame

DmaReadTrans(m, z) ==
    /\ InStep(m, z) /\ Ended(m) /\ NoError /\ dma.newAddr = dma.doneLength
    /\ \/ dma.doneLength = 0 /\ buffer = {} /\ FrameDone(m)
       \/ Taken(m.frame) /\ m.last \in Begin(m.frame) .. frames[m.frame].len - 1 /\ Holds(m.frame, m.last)
DmaHdr(m, z) ==
    /\ Ended(m) /\ NoError /\ dma.newAddr = dma.doneLength /\ dma.cnt = 0
    /\ TranOK(m, dma.tran, z) /\ Holds(z.frame, Start(dma.tran, z) - 1)
DmaCollect(m, z) ==
    /\ TranShape(dma.tran, z) /\ dma.tran.length > 1
    /\ m.frame = z.frame /\ m.start = Start(dma.tran, z)
    /\ m.last = m.start + 4 * dma.cnt /\ m.last < z.last
    /\ Holds(m.frame, m.last) /\ dma.put = dma.doneLength
    /\ dma.newAddr = z.last - Begin(z.frame) + 1
DmaTrDone(m, z) ==
    /\ InStep(m, z) /\ FrameDone(m) /\ Taken(m.frame) /\ dma.newAddr = dma.doneLength
    /\ Holds(m.frame, m.last) /\ (dma.tran.eofe <=> FrameEofe(m.frame))
DmaOK(m, z) ==
    /\ dma.state \in {"IDLE", "ACK_WAIT"} => InStep(m, z) /\ FrameDone(m)
    /\ dma.state = "READ_TRANS" => DmaReadTrans(m, z)
    /\ dma.state = "HDR" => DmaHdr(m, z)
    /\ dma.state = "COLLECT" => DmaCollect(m, z)
    /\ dma.state = "TR_DONE" => DmaTrDone(m, z)

Marks(ends, cuts) ==
    /\ DataOK(ends) /\ TransOK(cuts)
    /\ SpOK(ends[Len(data) + 1], cuts[Len(tran) + 1])
    /\ DmaOK(ends[1], cuts[1])

RxDmaInv ==
    /\ frames \in [1 .. FrameCnt -> Frame]
    /\ ~lost => Types /\ \E ends \in Seq(Mark), cuts \in Seq(Place) : Marks(ends, cuts)

-----------------------------------------------------------------------------
(* What the constants and the frames are. *)
LEMMA FrameFacts ==
    ASSUME frames \in [1 .. FrameCnt -> Frame]
    PROVE  /\ Len(frames) = FrameCnt /\ FrameCnt \in Nat /\ FrameCnt >= 1
           /\ TransLen \in Nat /\ TransLen > 1
           /\ FLen(0) = 0
           /\ \A f \in 1 .. FrameCnt :
                 /\ frames[f].len \in Nat /\ frames[f].len >= 1 /\ FLen(f) = frames[f].len
                 /\ frames[f].mid \in Nat /\ frames[f].mid # 1
                 /\ frames[f].sof \in BOOLEAN /\ frames[f].eofe \in BOOLEAN
                 /\ Begin(f) \in Nat /\ (Begin(f) = IF frames[f].sof THEN 1 ELSE frames[f].mid)
<1>1. /\ FrameCnt \in Nat /\ FrameCnt >= 1 /\ TransLen \in Nat /\ TransLen > 1
      /\ \A n \in Lengths : n \in Nat /\ n >= 1
      /\ \A n \in Mids : n \in Nat /\ n # 1
  <2>1. \A n \in {TransLen, BufWords, MaxFrame, FrameCnt, Depth} \cup Lengths : n \in Nat /\ n # 0
    BY RxDmaAssumption
  <2>2. TransLen > 1 /\ \A n \in Mids : n \in Nat /\ n # 1
    BY RxDmaAssumption
  <2> QED BY <2>1, <2>2
<1>2. Len(frames) = FrameCnt
  BY <1>1
<1>3. ASSUME NEW f \in 1 .. FrameCnt PROVE frames[f] \in Frame /\ f # 0
  BY <1>1, <1>3
<1> QED BY <1>1, <1>2, <1>3 DEF Frame, FLen, Begin

(* A word has one successor. *)
LEMMA FollowsOnce ==
    ASSUME NEW f \in Nat, NEW k \in Nat, NEW g, NEW j, NEW h, NEW i,
           FLen(f) \in Nat, Follows(f, k, g, j), Follows(f, k, h, i)
    PROVE  g = h /\ i = j
<1>1. CASE k < FLen(f)
  BY <1>1 DEF Follows
<1>2. CASE k = FLen(f)
  <2>1. /\ g \in 1 .. FrameCnt /\ g > f /\ Taken(g) /\ j = Begin(g) /\ \A x \in f + 1 .. g - 1 : ~Taken(x)
        /\ h \in 1 .. FrameCnt /\ h > f /\ Taken(h) /\ i = Begin(h) /\ \A x \in f + 1 .. h - 1 : ~Taken(x)
    BY <1>2 DEF Follows, Taken
  <2>2. ~(g < h) /\ ~(h < g)
    BY <2>1, RxDmaAssumption
  <2> QED BY <2>1, <2>2, RxDmaAssumption
<1> QED BY <1>1, <1>2 DEF Follows

(* The frames do not change, so neither does what is said of them alone. *)
LEMMA Static ==
    ASSUME frames' = frames
    PROVE  /\ \A f : Begin(f)' = Begin(f) /\ FLen(f)' = FLen(f) /\ (Taken(f)' <=> Taken(f))
           /\ \A f : FrameEofe(f)' <=> FrameEofe(f)
           /\ \A f, k, g, j : Follows(f, k, g, j)' <=> Follows(f, k, g, j)
           /\ \A f, s, x : EndsAt(f, s, x)' <=> EndsAt(f, s, x)
           /\ \A a : Ended(a)' <=> Ended(a)
           /\ \A a, b, z : BeatOK(a, b, z)' <=> BeatOK(a, b, z)
           /\ \A t, z : TranShape(t, z)' <=> TranShape(t, z)
           /\ \A a, t, z : TranOK(a, t, z)' <=> TranOK(a, t, z)
           /\ \A f, y : Image(f, y)' = Image(f, y)
<1>1. \A f : Begin(f)' = Begin(f) /\ FLen(f)' = FLen(f)
  BY DEF Begin, FLen
<1>2. \A f : Taken(f)' <=> Taken(f)
  BY DEF Taken, Begin
<1>3. \A f : FrameEofe(f)' <=> FrameEofe(f)
  BY DEF FrameEofe, Begin
<1>4. \A f, k, g, j : Follows(f, k, g, j)' <=> Follows(f, k, g, j)
  BY <1>1, <1>2 DEF Follows
<1>5. \A f, s, x : EndsAt(f, s, x)' <=> EndsAt(f, s, x)
  BY DEF EndsAt
<1>6. \A a : Ended(a)' <=> Ended(a)
  BY <1>1 DEF Ended
<1>7. \A a, b, z : BeatOK(a, b, z)' <=> BeatOK(a, b, z)
  <2>1. \A a, b, z : FirstBeat(a, b, z)' <=> FirstBeat(a, b, z)
    BY <1>1, <1>4, <1>6 DEF FirstBeat
  <2>2. \A a, b, z : NextBeat(a, b, z)' <=> NextBeat(a, b, z)
    BY <1>6 DEF NextBeat
  <2> QED BY <2>1, <2>2 DEF BeatOK
<1>8. \A t, z : TranShape(t, z)' <=> TranShape(t, z)
  BY <1>1, <1>3, <1>5 DEF TranShape, Start
<1>9. \A a, t, z : TranOK(a, t, z)' <=> TranOK(a, t, z)
  BY <1>4, <1>8 DEF TranOK, Start
<1>10. \A f, y : Image(f, y)' = Image(f, y)
  BY <1>1 DEF Image
<1> QED BY <1>1, <1>2, <1>3, <1>4, <1>5, <1>6, <1>7, <1>8, <1>9, <1>10

-----------------------------------------------------------------------------
(* The two FIFOs: an entry is appended or taken, and with it its mark.     *)
LEMMA DataPush ==
    ASSUME frames' = frames, data \in Seq(Data), NEW ends, DataOK(ends),
           NEW b \in Data, NEW z \in Mark, data' = Append(data, b),
           BeatOK(ends[Len(data) + 1], b, z)
    PROVE  /\ data' \in Seq(Data) /\ DataOK(Append(ends, z))'
           /\ Append(ends, z)[Len(data') + 1] = z /\ Append(ends, z)[1] = ends[1]
<1> DEFINE e == Append(ends, z)
<1>1. ends \in Seq(Mark) /\ Len(ends) = Len(data) + 1 /\ Len(data) \in Nat
  BY DEF DataOK
<1>2. data' \in Seq(Data) /\ Len(data') = Len(data) + 1
  OBVIOUS
<1>3. e \in Seq(Mark) /\ Len(e) = Len(data) + 2 /\ e[Len(data) + 2] = z
      /\ \A i \in 1 .. Len(data) + 1 : e[i] = ends[i]
  BY <1>1
<1>4. \A i \in 1 .. Len(data) : data'[i] = data[i]
  BY <1>1
<1>5. data'[Len(data) + 1] = b
  BY <1>1
<1> HIDE DEF e
<1>6. ASSUME NEW i \in 1 .. Len(data) + 1 PROVE BeatOK(e[i], data'[i], e[i + 1])
  <2>1. CASE i = Len(data) + 1
    BY <2>1, <1>1, <1>3, <1>5
  <2>2. CASE i \in 1 .. Len(data)
    <3>1. e[i] = ends[i] /\ e[i + 1] = ends[i + 1] /\ data'[i] = data[i]
      BY <2>2, <1>1, <1>3, <1>4
    <3> QED BY <2>2, <3>1 DEF DataOK
  <2> QED BY <2>1, <2>2, <1>1
<1>7. (\A i \in 1 .. Len(data) : BeatOK(e[i], data[i], e[i + 1]))'
  BY <1>2, <1>6, Static
<1>8. DataOK(e)'
  BY <1>2, <1>3, <1>7 DEF DataOK
<1>9. e[Len(data') + 1] = z /\ e[1] = ends[1]
  BY <1>1, <1>2, <1>3
<1> QED BY <1>2, <1>8, <1>9 DEF e

(* A beat leaves the data FIFO: the marks of the others stay as they are. *)
LEMMA DataPop ==
    ASSUME frames' = frames, data \in Seq(Data), data # <<>>, NEW ends, DataOK(ends),
           data' = Tail(data)
    PROVE  /\ data' \in Seq(Data) /\ DataOK(Tail(ends))' /\ Tail(ends) \in Seq(Mark)
           /\ Tail(ends)[Len(data') + 1] = ends[Len(data) + 1] /\ Tail(ends)[1] = ends[2]
           /\ ends[1] \in Mark /\ ends[2] \in Mark /\ Head(data) \in Data
           /\ BeatOK(ends[1], Head(data), ends[2])
<1> DEFINE e == Tail(ends)
<1>1. /\ ends \in Seq(Mark) /\ Len(ends) = Len(data) + 1 /\ Len(data) \in Nat /\ Len(data) >= 1
      /\ Len(ends) >= 2 /\ ends # <<>>
  BY DEF DataOK
<1>2. /\ data' \in Seq(Data) /\ Len(data') = Len(data) - 1
      /\ \A i \in 1 .. Len(data) - 1 : data'[i] = data[i + 1]
  BY <1>1
<1>3. e \in Seq(Mark) /\ Len(e) = Len(data) /\ \A i \in 1 .. Len(data) : e[i] = ends[i + 1]
  BY <1>1
<1>4. Head(data) = data[1] /\ data[1] \in Data /\ ends[1] \in Mark /\ ends[2] \in Mark
  <2>1. 1 \in 1 .. Len(data) /\ 1 \in 1 .. Len(ends) /\ 2 \in 1 .. Len(ends)
    BY <1>1
  <2> QED BY <2>1, <1>1
<1> HIDE DEF e
<1>5. ASSUME NEW i \in 1 .. Len(data) - 1 PROVE BeatOK(e[i], data'[i], e[i + 1])
  <2>1. i + 1 \in 1 .. Len(data) /\ i \in 1 .. Len(data) /\ i + 1 \in Nat
    BY <1>1
  <2>2. e[i] = ends[i + 1] /\ e[i + 1] = ends[(i + 1) + 1] /\ data'[i] = data[i + 1]
    BY <2>1, <1>2, <1>3
  <2> QED BY <2>1, <2>2 DEF DataOK
<1>6. (\A i \in 1 .. Len(data) : BeatOK(e[i], data[i], e[i + 1]))'
  BY <1>2, <1>5, Static
<1>7. DataOK(e)'
  BY <1>1, <1>2, <1>3, <1>6 DEF DataOK
<1>8. BeatOK(ends[1], data[1], ends[1 + 1])
  BY <1>1 DEF DataOK
<1>9. e[Len(data') + 1] = ends[Len(data) + 1] /\ e[1] = ends[2]
  BY <1>1, <1>2, <1>3
<1> QED BY <1>2, <1>3, <1>4, <1>7, <1>8, <1>9 DEF e

(* An entry is written into the transaction FIFO; its mark is appended. *)
LEMMA TranPush ==
    ASSUME frames' = frames, tran \in Seq(Entry), NEW cuts, TransOK(cuts),
           NEW t \in Entry, NEW z \in Place, tran' = Append(tran, t),
           TranOK(cuts[Len(tran) + 1], t, z)
    PROVE  /\ tran' \in Seq(Entry) /\ TransOK(Append(cuts, z))'
           /\ Append(cuts, z)[Len(tran') + 1] = z /\ Append(cuts, z)[1] = cuts[1]
<1> DEFINE c == Append(cuts, z)
<1>1. cuts \in Seq(Place) /\ Len(cuts) = Len(tran) + 1 /\ Len(tran) \in Nat
  BY DEF TransOK
<1>2. tran' \in Seq(Entry) /\ Len(tran') = Len(tran) + 1
  OBVIOUS
<1>3. c \in Seq(Place) /\ Len(c) = Len(tran) + 2 /\ c[Len(tran) + 2] = z
      /\ \A i \in 1 .. Len(tran) + 1 : c[i] = cuts[i]
  BY <1>1
<1>4. \A i \in 1 .. Len(tran) : tran'[i] = tran[i]
  BY <1>1
<1>5. tran'[Len(tran) + 1] = t
  BY <1>1
<1> HIDE DEF c
<1>6. ASSUME NEW i \in 1 .. Len(tran) + 1 PROVE TranOK(c[i], tran'[i], c[i + 1])
  <2>1. CASE i = Len(tran) + 1
    BY <2>1, <1>1, <1>3, <1>5
  <2>2. CASE i \in 1 .. Len(tran)
    <3>1. c[i] = cuts[i] /\ c[i + 1] = cuts[i + 1] /\ tran'[i] = tran[i]
      BY <2>2, <1>1, <1>3, <1>4
    <3> QED BY <2>2, <3>1 DEF TransOK
  <2> QED BY <2>1, <2>2, <1>1
<1>7. (\A i \in 1 .. Len(tran) : TranOK(c[i], tran[i], c[i + 1]))'
  BY <1>2, <1>6, Static
<1>8. TransOK(c)'
  BY <1>2, <1>3, <1>7 DEF TransOK
<1>9. c[Len(tran') + 1] = z /\ c[1] = cuts[1]
  BY <1>1, <1>2, <1>3
<1> QED BY <1>2, <1>8, <1>9 DEF c

(* An entry leaves the transaction FIFO. *)
LEMMA TranPop ==
    ASSUME frames' = frames, tran \in Seq(Entry), tran # <<>>, NEW cuts, TransOK(cuts),
           tran' = Tail(tran)
    PROVE  /\ tran' \in Seq(Entry) /\ TransOK(Tail(cuts))' /\ Tail(cuts) \in Seq(Place)
           /\ Tail(cuts)[Len(tran') + 1] = cuts[Len(tran) + 1] /\ Tail(cuts)[1] = cuts[2]
           /\ cuts[1] \in Place /\ cuts[2] \in Place /\ Head(tran) \in Entry
           /\ TranOK(cuts[1], Head(tran), cuts[2])
<1> DEFINE c == Tail(cuts)
<1>1. /\ cuts \in Seq(Place) /\ Len(cuts) = Len(tran) + 1 /\ Len(tran) \in Nat /\ Len(tran) >= 1
      /\ Len(cuts) >= 2 /\ cuts # <<>>
  BY DEF TransOK
<1>2. /\ tran' \in Seq(Entry) /\ Len(tran') = Len(tran) - 1
      /\ \A i \in 1 .. Len(tran) - 1 : tran'[i] = tran[i + 1]
  BY <1>1
<1>3. c \in Seq(Place) /\ Len(c) = Len(tran) /\ \A i \in 1 .. Len(tran) : c[i] = cuts[i + 1]
  BY <1>1
<1>4. Head(tran) = tran[1] /\ tran[1] \in Entry /\ cuts[1] \in Place /\ cuts[2] \in Place
  <2>1. 1 \in 1 .. Len(tran) /\ 1 \in 1 .. Len(cuts) /\ 2 \in 1 .. Len(cuts)
    BY <1>1
  <2> QED BY <2>1, <1>1
<1> HIDE DEF c
<1>5. ASSUME NEW i \in 1 .. Len(tran) - 1 PROVE TranOK(c[i], tran'[i], c[i + 1])
  <2>1. i + 1 \in 1 .. Len(tran) /\ i \in 1 .. Len(tran) /\ i + 1 \in Nat
    BY <1>1
  <2>2. c[i] = cuts[i + 1] /\ c[i + 1] = cuts[(i + 1) + 1] /\ tran'[i] = tran[i + 1]
    BY <2>1, <1>2, <1>3
  <2> QED BY <2>1, <2>2 DEF TransOK
<1>6. (\A i \in 1 .. Len(tran) : TranOK(c[i], tran[i], c[i + 1]))'
  BY <1>2, <1>5, Static
<1>7. TransOK(c)'
  BY <1>1, <1>2, <1>3, <1>6 DEF TransOK
<1>8. TranOK(cuts[1], tran[1], cuts[1 + 1])
  BY <1>1 DEF TransOK
<1>9. c[Len(tran') + 1] = cuts[Len(tran) + 1] /\ c[1] = cuts[2]
  BY <1>1, <1>2, <1>3
<1> QED BY <1>2, <1>3, <1>4, <1>7, <1>8, <1>9 DEF c

(* What does not change keeps its place in the invariant. *)
LEMMA FifosKept ==
    ASSUME frames' = frames
    PROVE  /\ data' = data => \A e : DataOK(e)' <=> DataOK(e)
           /\ tran' = tran => \A c : TransOK(c)' <=> TransOK(c)
<1>1. ASSUME data' = data, NEW e PROVE DataOK(e)' <=> DataOK(e)
  BY <1>1, Static DEF DataOK
<1>2. ASSUME tran' = tran, NEW c PROVE TransOK(c)' <=> TransOK(c)
  BY <1>2, Static DEF TransOK
<1> QED BY <1>1, <1>2

(* What the packer has depends on the stream and its own registers only, *)
LEMMA SpKept ==
    ASSUME UNCHANGED <<frames, at, sp>>
    PROVE  \A m, z : SpOK(m, z)' <=> SpOK(m, z)
<1>1. frames' = frames /\ at' = at /\ sp' = sp
  OBVIOUS
<1>2. \A f : BetweenFrames(f)' <=> BetweenFrames(f)
  BY <1>1, Static DEF BetweenFrames
<1>3. InFrame' <=> InFrame
  BY <1>1, Static DEF InFrame
<1>4. \A m, z : SpIdle(m, z)' <=> SpIdle(m, z)
  BY <1>1, <1>2, <1>3, Static DEF SpIdle
<1>5. \A m, z : SpSend(m, z)' <=> SpSend(m, z)
  BY <1>1, <1>3, Static DEF SpSend
<1> QED BY <1>1, <1>4, <1>5 DEF SpOK

(* and what the DMA engine has on its registers and the buffers. *)
LEMMA DmaKept ==
    ASSUME UNCHANGED <<frames, dma, buffer>>
    PROVE  \A m, z : DmaOK(m, z)' <=> DmaOK(m, z)
<1>1. frames' = frames /\ dma' = dma /\ buffer' = buffer
  OBVIOUS
<1>2. \A f, y : Holds(f, y)' <=> Holds(f, y)
  BY <1>1, Static DEF Holds
<1>3. (NoError' <=> NoError) /\ \A m : FrameDone(m)' <=> FrameDone(m)
  BY <1>1, Static DEF NoError, FrameDone
<1>4. \A m, z : DmaReadTrans(m, z)' <=> DmaReadTrans(m, z)
  BY <1>1, <1>2, <1>3, Static DEF DmaReadTrans, InStep
<1>5. \A m, z : DmaHdr(m, z)' <=> DmaHdr(m, z)
  BY <1>1, <1>2, <1>3, Static DEF DmaHdr, Start
<1>6. \A m, z : DmaCollect(m, z)' <=> DmaCollect(m, z)
  BY <1>1, <1>2, Static DEF DmaCollect, Start
<1>7. \A m, z : DmaTrDone(m, z)' <=> DmaTrDone(m, z)
  BY <1>1, <1>2, <1>3, Static DEF DmaTrDone, InStep
<1> QED BY <1>1, <1>3, <1>4, <1>5, <1>6, <1>7 DEF DmaOK, InStep

-----------------------------------------------------------------------------
(* PciRxTransFifo: the word it sees and the place it comes to. *)
LEMMA AtWord ==
    ASSUME frames \in [1 .. FrameCnt -> Frame], frames' = frames, Types, Ready, at' = NextWord,
           at.frame \in 1 .. FrameCnt => at.idx <= frames[at.frame].len
    PROVE  /\ at.frame \in 1 .. FrameCnt /\ at.idx \in 1 .. frames[at.frame].len
           /\ Word.word = <<at.frame, at.idx>> /\ Word.word \in Nat \X Nat
           /\ Word.last \in BOOLEAN /\ Word.sof \in BOOLEAN /\ Word.eofe \in BOOLEAN
           /\ Word.last <=> at.idx = frames[at.frame].len
           /\ Word.eofe <=> frames[at.frame].eofe
           /\ (at.idx = 1 => (Word.sof <=> frames[at.frame].sof))
           /\ (at.idx # 1 => (Word.sof <=> at.idx = frames[at.frame].mid))
           /\ at' \in [frame : Nat, idx : Nat] /\ at'.frame >= 1 /\ at'.idx >= 1
           /\ Word.last => at'.frame = at.frame + 1 /\ at'.idx = 1
           /\ ~Word.last => at'.frame = at.frame /\ at'.idx = at.idx + 1
           /\ (at.frame \in 1 .. FrameCnt => at.idx <= frames[at.frame].len)'
<1>1. at \in [frame : Nat, idx : Nat] /\ at.frame >= 1 /\ at.idx >= 1
  BY DEF Types
<1>2. at.frame \in 1 .. FrameCnt /\ at.idx \in 1 .. frames[at.frame].len
  BY <1>1, FrameFacts DEF Ready
<1>3. /\ frames[at.frame].len \in Nat
      /\ frames[at.frame].sof \in BOOLEAN /\ frames[at.frame].eofe \in BOOLEAN
  BY <1>2, FrameFacts
<1>4. /\ Word.word = <<at.frame, at.idx>> /\ Word.eofe = frames[at.frame].eofe
      /\ Word.sof = IF at.idx = 1 THEN frames[at.frame].sof ELSE at.idx = frames[at.frame].mid
      /\ Word.last = (at.idx = frames[at.frame].len)
  BY DEF Word
<1>5. Word.word \in Nat \X Nat /\ Word.word = <<at.frame, at.idx>>
  BY <1>1, <1>4
<1>6. /\ Word.last \in BOOLEAN /\ (Word.last <=> at.idx = frames[at.frame].len)
      /\ Word.eofe \in BOOLEAN /\ (Word.eofe <=> frames[at.frame].eofe)
  BY <1>3, <1>4
<1>7. /\ Word.sof \in BOOLEAN /\ (at.idx = 1 => (Word.sof <=> frames[at.frame].sof))
      /\ (at.idx # 1 => (Word.sof <=> at.idx = frames[at.frame].mid))
  BY <1>3, <1>4
<1>8. ASSUME at.idx = frames[at.frame].len
      PROVE  /\ at' \in [frame : Nat, idx : Nat] /\ at'.frame >= 1 /\ at'.idx >= 1
             /\ at'.frame = at.frame + 1 /\ at'.idx = 1
             /\ (at.frame \in 1 .. FrameCnt => at.idx <= frames[at.frame].len)'
  <2>1. at' = [frame |-> at.frame + 1, idx |-> 1]
    BY <1>8 DEF NextWord
  <2>2. /\ at'.frame = at.frame + 1 /\ at'.idx = 1
        /\ at' \in [frame : Nat, idx : Nat] /\ at'.frame >= 1 /\ at'.idx >= 1
    BY <2>1, <1>1
  <2>3. at'.frame \in 1 .. FrameCnt => at'.idx <= frames'[at'.frame].len
    BY <2>2, FrameFacts
  <2> QED BY <2>2, <2>3
<1>9. ASSUME at.idx # frames[at.frame].len
      PROVE  /\ at' \in [frame : Nat, idx : Nat] /\ at'.frame >= 1 /\ at'.idx >= 1
             /\ at'.frame = at.frame /\ at'.idx = at.idx + 1
             /\ (at.frame \in 1 .. FrameCnt => at.idx <= frames[at.frame].len)'
  <2>1. at' = [at EXCEPT !.idx = at.idx + 1]
    BY <1>9 DEF NextWord
  <2>2. at'.frame = at.frame /\ at'.idx = at.idx + 1 /\ at' \in [frame : Nat, idx : Nat]
    BY <2>1, <1>1
  <2>3. at'.idx <= frames'[at'.frame].len
    BY <2>2, <1>2, <1>3, <1>9
  <2>4. at'.frame >= 1 /\ at'.idx >= 1
    BY <2>2, <1>1
  <2> QED BY <2>2, <2>3, <2>4
<1>10. /\ at' \in [frame : Nat, idx : Nat] /\ at'.frame >= 1 /\ at'.idx >= 1
       /\ (at.frame \in 1 .. FrameCnt => at.idx <= frames[at.frame].len)'
  BY <1>8, <1>9
<1>11. /\ Word.last => at'.frame = at.frame + 1 /\ at'.idx = 1
       /\ ~Word.last => at'.frame = at.frame /\ at'.idx = at.idx + 1
  BY <1>6, <1>8, <1>9
<1> QED BY <1>2, <1>5, <1>6, <1>7, <1>10, <1>11

(* While a frame is looked for, the mark is on the first word of one;      *)
(* within a frame it is the second mark.                                   *)
LEMMA SofMeans ==
    ASSUME frames \in [1 .. FrameCnt -> Frame], Types, at.frame \in 1 .. FrameCnt,
           at.idx = 1 => (Word.sof <=> frames[at.frame].sof),
           at.idx # 1 => (Word.sof <=> at.idx = frames[at.frame].mid)
    PROVE  /\ \A f : BetweenFrames(f) => (Word.sof <=> at.idx = Begin(at.frame))
           /\ InFrame => (Word.sof <=> at.idx = frames[at.frame].mid)
<1>1. at.idx \in Nat /\ at.idx >= 1
  BY DEF Types
<1>2. /\ Begin(at.frame) \in Nat
      /\ (Begin(at.frame) = IF frames[at.frame].sof THEN 1 ELSE frames[at.frame].mid)
      /\ frames[at.frame].mid \in Nat /\ frames[at.frame].mid # 1
  BY FrameFacts
<1>3. ASSUME NEW f, BetweenFrames(f) PROVE Word.sof <=> at.idx = Begin(at.frame)
  <2>1. Begin(at.frame) \notin 1 .. at.idx - 1
    BY <1>3 DEF BetweenFrames
  <2>2. CASE at.idx = 1
    BY <2>2, <1>2
  <2>3. CASE at.idx # 1
    BY <2>1, <2>3, <1>1, <1>2
  <2> QED BY <2>2, <2>3
<1>4. ASSUME InFrame PROVE Word.sof <=> at.idx = frames[at.frame].mid
  BY <1>4, <1>1, <1>2, FrameFacts DEF InFrame, Taken
<1> QED BY <1>3, <1>4

(* After a frame the next one is looked for. *)
LEMMA FrameEnds ==
    ASSUME frames \in [1 .. FrameCnt -> Frame], frames' = frames, NEW f \in 1 .. FrameCnt,
           at'.frame = f + 1, at'.idx = 1
    PROVE  BetweenFrames(f)'
<1>1. f \in Nat /\ f < at'.frame /\ \A h \in f + 1 .. at'.frame - 1 : FALSE
  BY FrameFacts
<1>2. 1 .. at'.idx - 1 = {}
  OBVIOUS
<1>3. (at.frame \in 1 .. FrameCnt => Begin(at.frame) \notin 1 .. at.idx - 1)'
  BY <1>2
<1>4. (\A h \in f + 1 .. at.frame - 1 : ~Taken(h))'
  BY <1>1
<1> QED BY <1>1, <1>3, <1>4 DEF BetweenFrames

(* A word of a frame without a start mark is dropped: no mark changes. *)
LEMMA DropWordKeeps ==
    ASSUME frames \in [1 .. FrameCnt -> Frame], Types, NEW ends, NEW cuts, Marks(ends, cuts), DropWord
    PROVE  Types' /\ Marks(ends, cuts)'
<1> DEFINE m == ends[Len(data) + 1]
           z == cuts[Len(tran) + 1]
<1>1. /\ frames' = frames /\ sp' = sp /\ data' = data /\ tran' = tran /\ dma' = dma /\ buffer' = buffer
      /\ at' = NextWord /\ sp.state = "idle" /\ sp.tranEof /\ ~Word.sof /\ Ready
  BY DEF DropWord
<1>2. SpIdle(m, z) /\ (at.frame \in 1 .. FrameCnt => at.idx <= frames[at.frame].len)
  BY <1>1 DEF Marks, SpOK
<1>3. /\ z.frame = m.frame /\ z.last = m.last /\ m.frame \in 0 .. FrameCnt
      /\ m.last = FLen(m.frame) /\ BetweenFrames(m.frame)
  BY <1>1, <1>2 DEF SpIdle
<1> HIDE DEF m, z
<1>4. /\ at.frame \in 1 .. FrameCnt /\ at.idx \in 1 .. frames[at.frame].len
      /\ (Word.last <=> at.idx = frames[at.frame].len)
      /\ (at.idx = 1 => (Word.sof <=> frames[at.frame].sof))
      /\ (at.idx # 1 => (Word.sof <=> at.idx = frames[at.frame].mid))
      /\ at' \in [frame : Nat, idx : Nat] /\ at'.frame >= 1 /\ at'.idx >= 1
      /\ Word.last => at'.frame = at.frame + 1 /\ at'.idx = 1
      /\ ~Word.last => at'.frame = at.frame /\ at'.idx = at.idx + 1
      /\ (at.frame \in 1 .. FrameCnt => at.idx <= frames[at.frame].len)'
  BY <1>1, <1>2, AtWord
<1>5. Begin(at.frame) # at.idx
  BY <1>1, <1>3, <1>4, SofMeans
<1>6. /\ m.frame \in Nat /\ m.frame < at.frame /\ at.frame \in Nat /\ at.idx \in Nat
      /\ frames[at.frame].len \in Nat /\ Begin(at.frame) \in Nat
      /\ \A h \in m.frame + 1 .. at.frame - 1 : ~Taken(h)
      /\ Begin(at.frame) \notin 1 .. at.idx - 1
  BY <1>3, <1>4, FrameFacts DEF BetweenFrames
<1>7. Begin(at.frame) \notin 1 .. at.idx
  BY <1>5, <1>6
<1>8. ASSUME NEW f, f = m.frame PROVE BetweenFrames(f)'
  <2>1. CASE Word.last
    <3>1. at'.frame = at.frame + 1 /\ at'.idx = 1 /\ at.idx = frames[at.frame].len
      BY <2>1, <1>4
    <3>2. ~Taken(at.frame)
      BY <3>1, <1>7 DEF Taken
    <3>3. \A h \in f + 1 .. at'.frame - 1 : ~Taken(h)
      BY <3>1, <3>2, <1>6, <1>8
    <3>4. (\A h \in f + 1 .. at.frame - 1 : ~Taken(h))'
      BY <3>3, <1>1, Static
    <3>5. 1 .. at'.idx - 1 = {}
      BY <3>1
    <3>6. (at.frame \in 1 .. FrameCnt => Begin(at.frame) \notin 1 .. at.idx - 1)'
      BY <3>5
    <3>7. f < at'.frame
      BY <3>1, <1>6, <1>8
    <3> QED BY <3>4, <3>6, <3>7 DEF BetweenFrames
  <2>2. CASE ~Word.last
    <3>1. at'.frame = at.frame /\ at'.idx = at.idx + 1
      BY <2>2, <1>4
    <3>2. (\A h \in f + 1 .. at.frame - 1 : ~Taken(h))'
      BY <3>1, <1>1, <1>6, <1>8, Static
    <3>3. at'.idx - 1 = at.idx /\ f < at'.frame
      BY <3>1, <1>6, <1>8
    <3>4. (at.frame \in 1 .. FrameCnt => Begin(at.frame) \notin 1 .. at.idx - 1)'
      BY <3>1, <3>3, <1>1, <1>7 DEF Begin
    <3> QED BY <3>2, <3>3, <3>4 DEF BetweenFrames
  <2> QED BY <2>1, <2>2
<1>9. ASSUME NEW f, f = m.frame PROVE FLen(f)' = FLen(f) /\ BetweenFrames(f)'
  BY <1>8, <1>9, <1>1, Static
<1>10. ASSUME NEW a, NEW c, a = m, c = z PROVE SpOK(a, c)'
  <2>1. SpIdle(a, c)'
    BY <1>1, <1>3, <1>9, <1>10 DEF SpIdle
  <2> QED BY <2>1, <1>1, <1>4 DEF SpOK
<1>11. DataOK(ends)' /\ TransOK(cuts)' /\ DmaOK(ends[1], cuts[1])'
  BY <1>1, FifosKept, DmaKept DEF Marks
<1>12. ends[Len(data') + 1] = m /\ cuts[Len(tran') + 1] = z
  BY <1>1 DEF m, z
<1>13. Marks(ends, cuts)'
  BY <1>10, <1>11, <1>12 DEF Marks
<1>14. Types'
  BY <1>1, <1>4 DEF Types
<1> QED BY <1>13, <1>14

(* The first word of a transaction. *)
LEMMA FirstWordMarks ==
    ASSUME frames \in [1 .. FrameCnt -> Frame], Types, FirstWord,
           NEW m \in Mark, NEW z \in Place, SpOK(m, z),
           NEW b, b.words = <<Word.word>>, b.sof = Word.sof, b.last = Word.last,
           NEW n, n = [frame |-> at.frame, start |-> at.idx, last |-> at.idx],
           NEW p, p = [frame |-> at.frame, last |-> at.idx]
    PROVE  /\ BeatOK(m, b, n)
           /\ Word.last => /\ TranOK(z, Tran(1, sp.tranCnt, TRUE, FirstEofe(Word)), p)
                           /\ SpOK(n, p)'
           /\ ~Word.last => SpOK(n, z)'
<1>1. /\ frames' = frames /\ at' = NextWord /\ sp.state = "idle" /\ (sp.tranEof => Word.sof) /\ Ready
      /\ sp' = [sp EXCEPT !.tranEof = Word.last, !.tranEofe = FirstEofe(Word),
                          !.state = IF Word.last THEN "idle" ELSE "send",
                          !.cnt = IF Word.last THEN 1 ELSE 2,
                          !.tranCnt = IF Word.last THEN @ ELSE 0,
                          !.words = <<>>]
  BY DEF FirstWord
<1>2. SpIdle(m, z) /\ (at.frame \in 1 .. FrameCnt => at.idx <= frames[at.frame].len)
  BY <1>1 DEF SpOK
<1>3. /\ at.frame \in 1 .. FrameCnt /\ at.idx \in 1 .. frames[at.frame].len
      /\ Word.word = <<at.frame, at.idx>> /\ Word.last \in BOOLEAN /\ Word.sof \in BOOLEAN
      /\ (Word.last <=> at.idx = frames[at.frame].len) /\ (Word.eofe <=> frames[at.frame].eofe)
      /\ (at.idx = 1 => (Word.sof <=> frames[at.frame].sof))
      /\ (at.idx # 1 => (Word.sof <=> at.idx = frames[at.frame].mid))
      /\ Word.last => at'.frame = at.frame + 1 /\ at'.idx = 1
      /\ ~Word.last => at'.frame = at.frame /\ at'.idx = at.idx + 1
      /\ (at.frame \in 1 .. FrameCnt => at.idx <= frames[at.frame].len)'
  BY <1>1, <1>2, AtWord
<1>4. /\ at.frame \in Nat /\ at.frame >= 1 /\ at.idx \in Nat /\ at.idx >= 1
      /\ frames[at.frame].len \in Nat /\ frames[at.frame].mid \in Nat /\ Begin(at.frame) \in Nat
      /\ FLen(at.frame) = frames[at.frame].len /\ TransLen \in Nat /\ TransLen > 1
  BY <1>3, FrameFacts
<1>5. /\ m.frame \in Nat /\ m.last \in Nat /\ m.start \in Nat
      /\ n.frame = at.frame /\ n.start = at.idx /\ n.last = at.idx
      /\ p.frame = at.frame /\ p.last = at.idx
  BY DEF Mark
<1>6. z.frame = m.frame /\ z.last = m.last /\ m.frame \in 0 .. FrameCnt
  BY <1>2 DEF SpIdle
<1>7. /\ sp.tranEof => m.last = FLen(m.frame) /\ BetweenFrames(m.frame)
      /\ ~sp.tranEof => InFrame /\ m.frame = at.frame /\ m.last = at.idx - 1 /\ m.last = m.start + TransLen - 1
  BY <1>2 DEF SpIdle
<1>8. /\ sp.tranEof => at.idx = Begin(at.frame)
      /\ ~sp.tranEof => (Word.sof <=> at.idx = frames[at.frame].mid)
  BY <1>1, <1>3, <1>7, SofMeans
(* What it says of the frame. *)
<1>9. /\ Begin(at.frame) >= 1 /\ Begin(at.frame) <= at.idx /\ Taken(at.frame)
      /\ ~sp.tranEof => Begin(at.frame) < at.idx
                        /\ (sp.tranEofe <=> frames[at.frame].mid > Begin(at.frame) /\ frames[at.frame].mid < at.idx)
  <2>1. CASE sp.tranEof
    BY <2>1, <1>3, <1>4, <1>8 DEF Taken
  <2>2. CASE ~sp.tranEof
    BY <2>2, <1>3, <1>4, <1>7 DEF InFrame, Taken
  <2> QED BY <2>1, <2>2
<1>10. Ended(m) /\ Follows(m.frame, m.last, at.frame, at.idx)
  <2>1. CASE sp.tranEof
    <3>1. /\ m.last = FLen(m.frame) /\ m.frame < at.frame
          /\ \A h \in m.frame + 1 .. at.frame - 1 : ~Taken(h)
      BY <2>1, <1>7 DEF BetweenFrames
    <3> QED BY <3>1, <2>1, <1>8, <1>9 DEF Ended, Follows
  <2>2. CASE ~sp.tranEof
    <3>1. m.frame = at.frame /\ m.last = at.idx - 1 /\ m.last = m.start + TransLen - 1
      BY <2>2, <1>7
    <3>2. Ended(m)
      BY <3>1 DEF Ended
    <3>3. at.idx \in Nat /\ at.idx <= FLen(at.frame) /\ FLen(at.frame) \in Nat
      BY <1>3, <1>4
    <3>4. m.last < FLen(m.frame) /\ at.idx = m.last + 1
      BY <3>1, <3>3
    <3> QED BY <3>1, <3>2, <3>4 DEF Follows
  <2> QED BY <2>1, <2>2
<1>11. BeatOK(m, b, n)
  <2>1. at.idx = Begin(at.frame) => b.sof
    BY <1>1, <1>4, <1>9
  <2>2. FirstBeat(m, b, n)
    BY <2>1, <1>3, <1>5, <1>10 DEF FirstBeat
  <2> QED BY <2>2, <1>3, <1>5 DEF BeatOK
(* The error mark. *)
<1>12. /\ Word.last => (FirstEofe(Word) <=> FrameEofe(at.frame))
       /\ ~Word.last => (FirstEofe(Word) <=> frames[at.frame].mid > Begin(at.frame)
                                             /\ frames[at.frame].mid < at.idx + 1)
  <2>1. FirstEofe(Word) <=> \/ ~sp.tranEof /\ (sp.tranEofe \/ (Word.sof /\ ~Word.last))
                            \/ Word.last /\ Word.eofe
    BY DEF FirstEofe
  <2>2. FrameEofe(at.frame) <=> Word.eofe \/ (frames[at.frame].mid > Begin(at.frame)
                                              /\ frames[at.frame].mid < frames[at.frame].len)
    BY <1>3 DEF FrameEofe
  <2>3. CASE Word.last
    BY <2>1, <2>2, <2>3, <1>3, <1>4, <1>8, <1>9
  <2>4. CASE ~Word.last
    BY <2>1, <2>4, <1>3, <1>4, <1>8, <1>9
  <2> QED BY <2>3, <2>4
<1>13. /\ sp'.tranEof = Word.last /\ sp'.tranEofe = FirstEofe(Word)
       /\ sp'.state = (IF Word.last THEN "idle" ELSE "send")
       /\ sp'.cnt = (IF Word.last THEN 1 ELSE 2)
       /\ sp'.tranCnt = (IF Word.last THEN sp.tranCnt ELSE 0)
       /\ sp'.words = <<>>
  BY <1>1 DEF Types, SpType
(* A transaction of one word. *)
<1>14. ASSUME Word.last
       PROVE  TranOK(z, Tran(1, sp.tranCnt, TRUE, FirstEofe(Word)), p)
  <2> DEFINE t == Tran(1, sp.tranCnt, TRUE, FirstEofe(Word))
  <2>1. t.length = 1 /\ t.eof /\ (t.eofe <=> FirstEofe(Word)) /\ t.sof
    BY DEF Tran
  <2> HIDE DEF t
  <2>2. Start(t, p) = at.idx
    BY <2>1, <1>4, <1>5 DEF Start
  <2>3. EndsAt(at.frame, at.idx, at.idx)
    BY <1>3, <1>4, <1>14 DEF EndsAt
  <2>4. TranShape(t, p)
    BY <2>1, <2>2, <2>3, <1>3, <1>5, <1>9, <1>12, <1>14 DEF TranShape
  <2>5. TranOK(z, t, p)
    BY <2>1, <2>2, <2>4, <1>5, <1>6, <1>10 DEF TranOK
  <2> QED BY <2>5 DEF t
<1>15. ASSUME Word.last PROVE SpOK(n, p)'
  <2>1. at'.frame = at.frame + 1 /\ at'.idx = 1 /\ sp'.tranEof /\ sp'.state = "idle"
    BY <1>3, <1>13, <1>15
  <2>2. ASSUME NEW f, f = at.frame PROVE BetweenFrames(f)' /\ FLen(f)' = frames[f].len
    BY <2>1, <2>2, <1>1, <1>3, <1>4, FrameEnds, Static
  <2>3. SpIdle(n, p)'
    BY <2>1, <2>2, <1>3, <1>4, <1>5, <1>15 DEF SpIdle
  <2> QED BY <2>1, <2>3, <1>3 DEF SpOK
<1>16. ASSUME ~Word.last PROVE SpOK(n, z)'
  <2>1. /\ at'.frame = at.frame /\ at'.idx = at.idx + 1 /\ ~sp'.tranEof /\ sp'.state = "send"
        /\ sp'.cnt = 2 /\ sp'.tranCnt = 0 /\ sp'.words = <<>>
    BY <1>3, <1>13, <1>16
  <2>2. InFrame'
    <3>1. Taken(at.frame) /\ Begin(at.frame) < at.idx + 1
      BY <1>4, <1>9
    <3>2. FirstEofe(Word) <=> frames[at.frame].mid > Begin(at.frame) /\ frames[at.frame].mid < at.idx + 1
      BY <1>12, <1>16
    <3>3. (sp.tranEofe <=> frames[at.frame].mid > Begin(at.frame) /\ frames[at.frame].mid < at.idx)'
      BY <3>2, <2>1, <1>1, <1>13 DEF Begin
    <3>4. Taken(at.frame)' /\ (Begin(at.frame) < at.idx)'
      BY <3>1, <2>1, <1>1 DEF Taken, Begin
    <3> QED BY <3>3, <3>4 DEF InFrame
  <2>3. /\ sp'.cnt \in 2 .. TransLen /\ Len(sp'.words) = 0
        /\ sp'.cnt = 4 * sp'.tranCnt + Len(sp'.words) + 2
    BY <2>1, <1>4
  <2>4. /\ n.frame = at'.frame /\ n.start = at'.idx - sp'.cnt + 1
        /\ n.last = at'.idx - 1 - Len(sp'.words)
    <3>1. at'.frame = at.frame /\ at'.idx = at.idx + 1 /\ sp'.cnt = 2 /\ Len(sp'.words) = 0
      BY <2>1, <2>3
    <3>2. at.idx = (at.idx + 1) - 2 + 1 /\ at.idx = (at.idx + 1) - 1 - 0
      BY <1>4
    <3> QED BY <3>1, <3>2, <1>5
  <2>5. Begin(n.frame)' <= n.start /\ Follows(z.frame, z.last, n.frame, n.start)'
    BY <1>1, <1>5, <1>6, <1>9, <1>10, Static
  <2>6. \A k \in 1 .. Len(sp'.words) : sp'.words[k] = <<n.frame, n.last + k>>
    BY <2>3
  <2>7. SpSend(n, z)'
    BY <2>1, <2>2, <2>3, <2>4, <2>5, <2>6 DEF SpSend
  <2> QED BY <2>1, <2>7, <1>3 DEF SpOK
<1> QED BY <1>11, <1>14, <1>15, <1>16

(* The first word of a frame: a beat and, for a short frame, a *)
(* transaction.                                                *)
LEMMA FirstWordKeeps ==
    ASSUME frames \in [1 .. FrameCnt -> Frame], Types, NEW ends, NEW cuts, Marks(ends, cuts), FirstWord
    PROVE  Types' /\ \E e \in Seq(Mark), c \in Seq(Place) : Marks(e, c)'
<1> DEFINE b == Beat(<<Word.word>>, Word.sof, Word.last)
           t == Tran(1, sp.tranCnt, TRUE, FirstEofe(Word))
<1>1. /\ frames' = frames /\ dma' = dma /\ buffer' = buffer /\ at' = NextWord /\ Ready
      /\ data' = Append(data, b)
      /\ tran' = IF Word.last THEN Append(tran, t) ELSE tran
      /\ sp' = [sp EXCEPT !.tranEof = Word.last, !.tranEofe = FirstEofe(Word),
                          !.state = IF Word.last THEN "idle" ELSE "send",
                          !.cnt = IF Word.last THEN 1 ELSE 2,
                          !.tranCnt = IF Word.last THEN sp.tranCnt ELSE 0,
                          !.words = <<>>]
  BY DEF FirstWord
<1>2. /\ data \in Seq(Data) /\ tran \in Seq(Entry) /\ sp \in SpType /\ dma \in DmaType
      /\ sp.tranCnt \in Nat /\ Len(data) \in Nat /\ Len(tran) \in Nat
      /\ at \in [frame : Nat, idx : Nat] /\ at.frame \in Nat /\ at.idx \in Nat
  BY DEF Types, SpType
<1>3. /\ DataOK(ends) /\ TransOK(cuts) /\ DmaOK(ends[1], cuts[1])
      /\ SpOK(ends[Len(data) + 1], cuts[Len(tran) + 1])
  BY DEF Marks
<1>4. /\ ends[Len(data) + 1] \in Mark /\ cuts[Len(tran) + 1] \in Place
      /\ ends \in Seq(Mark) /\ cuts \in Seq(Place)
  <2>1. /\ ends \in Seq(Mark) /\ Len(ends) = Len(data) + 1
        /\ cuts \in Seq(Place) /\ Len(cuts) = Len(tran) + 1
    BY <1>3 DEF DataOK, TransOK
  <2> QED BY <2>1, <1>2
<1>5. /\ Word.word \in Nat \X Nat /\ Word.last \in BOOLEAN /\ Word.sof \in BOOLEAN
      /\ at' \in [frame : Nat, idx : Nat] /\ at'.frame >= 1 /\ at'.idx >= 1
  BY <1>1, <1>3, AtWord DEF SpOK
<1>6. PICK m \in Mark : m = ends[Len(data) + 1]
  BY <1>4
<1>7. PICK z \in Place : z = cuts[Len(tran) + 1]
  BY <1>4
<1>8. PICK n \in Mark : n = [frame |-> at.frame, start |-> at.idx, last |-> at.idx]
  BY <1>2 DEF Mark
<1>9. PICK p \in Place : p = [frame |-> at.frame, last |-> at.idx]
  BY <1>2 DEF Place
<1>10. b.words = <<Word.word>> /\ b.sof = Word.sof /\ b.last = Word.last
  BY DEF Beat
<1>11. b \in Data
  BY <1>5 DEF Data, Beat
<1>12. FirstEofe(Word) \in BOOLEAN
  BY DEF FirstEofe
<1>13. t \in Entry
  BY <1>2, <1>12 DEF Entry, Tran
<1>14. sp' \in SpType
  <2>1. <<>> \in Seq(Nat \X Nat)
    OBVIOUS
  <2>2. CASE Word.last
    <3>1. sp' = [sp EXCEPT !.tranEof = Word.last, !.tranEofe = FirstEofe(Word), !.state = "idle",
                           !.cnt = 1, !.tranCnt = sp.tranCnt, !.words = <<>>]
      BY <2>2, <1>1
    <3> QED BY <2>1, <3>1, <1>2, <1>5, <1>12 DEF SpType
  <2>3. CASE ~Word.last
    <3>1. sp' = [sp EXCEPT !.tranEof = Word.last, !.tranEofe = FirstEofe(Word), !.state = "send",
                           !.cnt = 2, !.tranCnt = 0, !.words = <<>>]
      BY <2>3, <1>1
    <3> QED BY <2>1, <3>1, <1>2, <1>5, <1>12 DEF SpType
  <2> QED BY <2>2, <2>3
<1> HIDE DEF b
<1>15. /\ BeatOK(m, b, n)
       /\ Word.last => TranOK(z, t, p) /\ SpOK(n, p)'
       /\ ~Word.last => SpOK(n, z)'
  BY <1>3, <1>6, <1>7, <1>8, <1>9, <1>10, FirstWordMarks
<1> HIDE DEF t
<1>16. PICK e \in Seq(Mark) : e = Append(ends, n)
  <2>1. Append(ends, n) \in Seq(Mark)
    BY <1>4
  <2> QED BY <2>1
<1>17. data' \in Seq(Data) /\ DataOK(e)' /\ e[Len(data') + 1] = n /\ e[1] = ends[1]
  BY <1>1, <1>2, <1>3, <1>6, <1>11, <1>15, <1>16, DataPush
<1>18. DmaOK(ends[1], cuts[1])'
  BY <1>1, <1>3, DmaKept
<1>19. tran' \in Seq(Entry) /\ \E c \in Seq(Place) : Marks(e, c)'
  <2>1. CASE Word.last
    <3>1. PICK c \in Seq(Place) : c = Append(cuts, p)
      <4>1. Append(cuts, p) \in Seq(Place)
        BY <1>4
      <4> QED BY <4>1
    <3>2. tran' = Append(tran, t)
      BY <2>1, <1>1
    <3>3. tran' \in Seq(Entry) /\ TransOK(c)' /\ c[Len(tran') + 1] = p /\ c[1] = cuts[1]
      BY <2>1, <3>1, <3>2, <1>1, <1>2, <1>3, <1>7, <1>13, <1>15, TranPush
    <3>4. SpOK(e[Len(data) + 1], c[Len(tran) + 1])'
      BY <2>1, <3>3, <1>15, <1>17
    <3>5. DmaOK(e[1], c[1])'
      BY <3>3, <1>17, <1>18
    <3> QED BY <3>3, <3>4, <3>5, <1>17 DEF Marks
  <2>2. CASE ~Word.last
    <3>1. tran' = tran /\ TransOK(cuts)'
      BY <2>2, <1>1, <1>3, FifosKept
    <3>2. SpOK(e[Len(data) + 1], cuts[Len(tran) + 1])'
      BY <2>2, <3>1, <1>7, <1>15, <1>17
    <3>3. DmaOK(e[1], cuts[1])'
      BY <1>17, <1>18
    <3> QED BY <3>1, <3>2, <3>3, <1>2, <1>4, <1>17 DEF Marks
  <2> QED BY <2>1, <2>2
<1>20. Types'
  BY <1>1, <1>2, <1>5, <1>14, <1>17, <1>19 DEF Types
<1> QED BY <1>19, <1>20

(* The other words of a transaction. *)
SendEofe == sp.tranEofe \/ (Word.sof /\ ~Word.last) \/ (Word.last /\ Word.eofe)
SendEnd  == sp.cnt = TransLen \/ Word.last

(* A further word: the beat it completes follows the last mark of the data *)
(* FIFO, the transaction it completes the last one of the transaction      *)
(* FIFO.                                                                   *)
LEMMA SendWordMarks ==
    ASSUME frames \in [1 .. FrameCnt -> Frame], Types, SendWord,
           NEW m \in Mark, NEW z \in Place, SpOK(m, z),
           NEW ws, ws = Append(sp.words, Word.word),
           NEW b, b.words = ws, b.last = (SendEnd /\ Word.last),
           NEW t, t = Tran(sp.cnt, sp.tranCnt, Word.last, SendEofe),
           NEW n, n = [frame |-> at.frame, start |-> m.start, last |-> at.idx],
           NEW p, p = [frame |-> at.frame, last |-> at.idx]
    PROVE  /\ SendEnd \/ Len(ws) = 4 => BeatOK(m, b, n)
           /\ SendEnd => TranOK(z, t, p) /\ SpOK(n, p)'
           /\ ~SendEnd /\ Len(ws) = 4 => SpOK(n, z)'
           /\ ~SendEnd /\ Len(ws) # 4 => SpOK(m, z)'
<1>1. /\ frames' = frames /\ at' = NextWord /\ sp.state = "send" /\ Ready
      /\ sp' = [sp EXCEPT !.tranEof = Word.last, !.tranEofe = SendEofe,
                          !.state = IF SendEnd THEN "idle" ELSE "send",
                          !.cnt = IF SendEnd THEN 1 ELSE @ + 1,
                          !.tranCnt = IF ~SendEnd /\ Len(ws) = 4 THEN @ + 1 ELSE @,
                          !.words = IF Len(ws) = 4 THEN <<>> ELSE ws]
  BY DEF SendWord, SendEnd, SendEofe, CntAtEnd
<1>2. SpSend(m, z) /\ (at.frame \in 1 .. FrameCnt => at.idx <= frames[at.frame].len)
  BY <1>1 DEF SpOK
<1>3. /\ at.frame \in 1 .. FrameCnt /\ at.idx \in 1 .. frames[at.frame].len
      /\ Word.word = <<at.frame, at.idx>> /\ Word.word \in Nat \X Nat
      /\ Word.last \in BOOLEAN /\ Word.sof \in BOOLEAN
      /\ (Word.last <=> at.idx = frames[at.frame].len) /\ (Word.eofe <=> frames[at.frame].eofe)
      /\ (at.idx = 1 => (Word.sof <=> frames[at.frame].sof))
      /\ (at.idx # 1 => (Word.sof <=> at.idx = frames[at.frame].mid))
      /\ Word.last => at'.frame = at.frame + 1 /\ at'.idx = 1
      /\ ~Word.last => at'.frame = at.frame /\ at'.idx = at.idx + 1
      /\ (at.frame \in 1 .. FrameCnt => at.idx <= frames[at.frame].len)'
  BY <1>1, <1>2, AtWord
<1>4. /\ at.frame \in Nat /\ at.frame >= 1 /\ at.idx \in Nat /\ at.idx >= 1
      /\ frames[at.frame].len \in Nat /\ frames[at.frame].mid \in Nat /\ Begin(at.frame) \in Nat
      /\ FLen(at.frame) = frames[at.frame].len /\ TransLen \in Nat /\ TransLen > 1
  BY <1>3, FrameFacts
<1>5. /\ m.frame \in Nat /\ m.last \in Nat /\ m.start \in Nat
      /\ n.frame = at.frame /\ n.start = m.start /\ n.last = at.idx
      /\ p.frame = at.frame /\ p.last = at.idx
  BY DEF Mark
<1>6. /\ ~sp.tranEof /\ InFrame /\ sp.cnt \in 2 .. TransLen
      /\ Len(sp.words) < 4 /\ sp.cnt = 4 * sp.tranCnt + Len(sp.words) + 2
      /\ m.frame = at.frame /\ m.start = at.idx - sp.cnt + 1 /\ m.last = at.idx - 1 - Len(sp.words)
      /\ Begin(at.frame) <= m.start
      /\ Follows(z.frame, z.last, at.frame, m.start)
  BY <1>2 DEF SpSend
<1>7. \A k \in 1 .. Len(sp.words) : sp.words[k] = <<at.frame, m.last + k>>
  BY <1>2 DEF SpSend
<1>8. sp.words \in Seq(Nat \X Nat) /\ sp.tranCnt \in Nat /\ sp.cnt \in Nat /\ Len(sp.words) \in Nat
  <2>1. sp.words \in Seq(Nat \X Nat) /\ sp.tranCnt \in Nat /\ sp.cnt \in Nat
    BY DEF Types, SpType
  <2> QED BY <2>1
<1>9. /\ Len(ws) = Len(sp.words) + 1 /\ ws[Len(sp.words) + 1] = Word.word
      /\ \A k \in 1 .. Len(sp.words) : ws[k] = sp.words[k]
  BY <1>3, <1>8
<1>10. TransLen \in Nat /\ sp.cnt \in 2 .. TransLen /\ sp.tranCnt \in Nat /\ Len(sp.words) \in Nat
  BY <1>4, <1>6, <1>8
<1>11. /\ m.last + (Len(sp.words) + 1) = at.idx /\ Len(sp.words) + 1 \in 1 .. 4
       /\ m.last < at.idx /\ m.last < m.start + TransLen - 1
       /\ at.idx <= m.start + TransLen - 1 /\ at.idx \in m.start .. m.start + TransLen - 1
       /\ sp.cnt = TransLen => at.idx = m.start + TransLen - 1
       /\ sp.cnt # TransLen => sp.cnt + 1 \in 2 .. TransLen
       /\ at.idx - sp.cnt + 1 = m.start /\ m.start = (at.idx + 1) - (sp.cnt + 1) + 1
       /\ 4 * sp.tranCnt < sp.cnt - 1 /\ sp.cnt - 1 <= 4 * sp.tranCnt + 4
       /\ Len(sp.words) + 1 = 4 => sp.cnt + 1 = 4 * (sp.tranCnt + 1) + 2
       /\ Len(sp.words) + 1 # 4 => Len(sp.words) + 1 < 4
       /\ sp.cnt + 1 = 4 * sp.tranCnt + (Len(sp.words) + 1) + 2
       /\ m.last = (at.idx + 1) - 1 - (Len(sp.words) + 1) /\ at.idx = (at.idx + 1) - 1 - 0
  <2>1. /\ Len(sp.words) < 4 /\ sp.cnt = 4 * sp.tranCnt + Len(sp.words) + 2
        /\ m.start = at.idx - sp.cnt + 1 /\ m.last = at.idx - 1 - Len(sp.words)
        /\ at.idx \in Nat /\ m.start \in Nat /\ m.last \in Nat
    BY <1>4, <1>5, <1>6
  <2> DEFINE i == at.idx  c == sp.cnt  q == sp.tranCnt  l == Len(sp.words)  s == m.start  y == m.last
  <2>2. /\ TransLen \in Nat /\ i \in Nat /\ c \in 2 .. TransLen /\ q \in Nat /\ l \in Nat /\ s \in Nat
        /\ y \in Nat /\ l < 4 /\ c = 4 * q + l + 2 /\ s = i - c + 1 /\ y = i - 1 - l
    BY <2>1, <1>10
  <2> HIDE DEF i, c, q, l, s, y
  <2>3. /\ y + (l + 1) = i /\ l + 1 \in 1 .. 4
        /\ y < i /\ y < s + TransLen - 1 /\ i <= s + TransLen - 1 /\ i \in s .. s + TransLen - 1
    BY <2>2
  <2>4. /\ c = TransLen => i = s + TransLen - 1
        /\ c # TransLen => c + 1 \in 2 .. TransLen
        /\ i - c + 1 = s /\ s = (i + 1) - (c + 1) + 1
    BY <2>2
  <2>5. /\ 4 * q < c - 1 /\ c - 1 <= 4 * q + 4
        /\ l + 1 = 4 => c + 1 = 4 * (q + 1) + 2
        /\ l + 1 # 4 => l + 1 < 4
    BY <2>2
  <2>6. c + 1 = 4 * q + (l + 1) + 2 /\ y = (i + 1) - 1 - (l + 1) /\ i = (i + 1) - 1 - 0
    BY <2>2
  <2> QED BY <2>3, <2>4, <2>5, <2>6 DEF i, c, q, l, s, y
<1>12. \A k \in 1 .. Len(ws) : ws[k] = <<at.frame, m.last + k>>
  <2>1. m.last + (Len(sp.words) + 1) = at.idx
    BY <1>11
  <2>2. ASSUME NEW k \in 1 .. Len(ws), k # Len(sp.words) + 1 PROVE k \in 1 .. Len(sp.words)
    BY <2>2, <1>9, <1>10
  <2>3. ws[Len(sp.words) + 1] = <<at.frame, m.last + (Len(sp.words) + 1)>>
    BY <2>1, <1>3, <1>9
  <2> QED BY <2>2, <2>3, <1>9, <1>7
<1>13. /\ Taken(at.frame) /\ Begin(at.frame) >= 1 /\ Begin(at.frame) < at.idx
       /\ (sp.tranEofe <=> frames[at.frame].mid > Begin(at.frame) /\ frames[at.frame].mid < at.idx)
       /\ (Word.sof <=> at.idx = frames[at.frame].mid)
  BY <1>3, <1>4, <1>6, SofMeans DEF InFrame, Taken
<1>14. /\ Word.last => (SendEofe <=> FrameEofe(at.frame))
       /\ ~Word.last => (SendEofe <=> frames[at.frame].mid > Begin(at.frame)
                                      /\ frames[at.frame].mid < at.idx + 1)
  <2>1. SendEofe <=> sp.tranEofe \/ (Word.sof /\ ~Word.last) \/ (Word.last /\ Word.eofe)
    BY DEF SendEofe
  <2>2. FrameEofe(at.frame) <=> Word.eofe \/ (frames[at.frame].mid > Begin(at.frame)
                                              /\ frames[at.frame].mid < frames[at.frame].len)
    BY <1>3 DEF FrameEofe
  <2>3. CASE Word.last
    BY <2>1, <2>2, <2>3, <1>3, <1>4, <1>13
  <2>4. CASE ~Word.last
    BY <2>1, <2>4, <1>3, <1>4, <1>13
  <2> QED BY <2>3, <2>4
<1>15. /\ sp'.tranEof = Word.last /\ sp'.tranEofe = SendEofe
       /\ sp'.state = (IF SendEnd THEN "idle" ELSE "send")
       /\ sp'.cnt = (IF SendEnd THEN 1 ELSE sp.cnt + 1)
       /\ sp'.tranCnt = (IF ~SendEnd /\ Len(ws) = 4 THEN sp.tranCnt + 1 ELSE sp.tranCnt)
       /\ sp'.words = (IF Len(ws) = 4 THEN <<>> ELSE ws)
  BY <1>1 DEF Types, SpType
<1>16. ASSUME SendEnd PROVE Ended(n) /\ (Word.last \/ at.idx = m.start + TransLen - 1)
  <2>1. CASE Word.last
    BY <2>1, <1>3, <1>4, <1>5 DEF Ended
  <2>2. CASE sp.cnt = TransLen
    <3>1. at.idx = m.start + TransLen - 1
      BY <2>2, <1>11
    <3> QED BY <3>1, <1>5 DEF Ended
  <2> QED BY <2>1, <2>2, <1>16 DEF SendEnd
<1>17. ASSUME SendEnd \/ Len(ws) = 4 PROVE BeatOK(m, b, n)
  <2>1. ~Ended(m)
    <3>1. m.last < FLen(m.frame)
      <4>1. at.idx <= frames[at.frame].len
        BY <1>3, <1>4
      <4>2. FLen(m.frame) = frames[at.frame].len
        BY <1>4, <1>6
      <4>3. m.last < at.idx
        BY <1>11
      <4>4. at.idx \in Nat /\ m.last \in Nat /\ frames[at.frame].len \in Nat
        BY <1>4, <1>5
      <4> QED BY <4>1, <4>2, <4>3, <4>4
    <3>2. m.last < m.start + TransLen - 1
      BY <1>11
    <3>3. m.last # FLen(m.frame) /\ m.last # m.start + TransLen - 1
      <4>1. m.last \in Nat /\ FLen(m.frame) \in Nat
        BY <1>4, <1>5, <1>6
      <4>2. m.start + TransLen - 1 \in Int
        BY <1>4, <1>5
      <4> QED BY <3>1, <3>2, <4>1, <4>2
    <3> QED BY <3>3 DEF Ended
  <2>2. Len(b.words) \in 1 .. 4 /\ n.last = m.last + Len(b.words)
    BY <1>5, <1>9, <1>11
  <2>3. n.last <= frames[n.frame].len /\ n.last <= n.start + TransLen - 1
    BY <1>3, <1>5, <1>11
  <2>4. \A k \in 1 .. Len(b.words) : b.words[k] = <<m.frame, m.last + k>>
    BY <1>6, <1>12
  <2>5. Len(b.words) = 4 \/ Ended(n)
    BY <1>16, <1>17
  <2>6. NextBeat(m, b, n)
    BY <2>1, <2>2, <2>3, <2>4, <2>5, <1>5, <1>6 DEF NextBeat
  <2>7. b.last <=> n.last = frames[n.frame].len
    BY <1>3, <1>5 DEF SendEnd
  <2> QED BY <2>6, <2>7 DEF BeatOK
<1>18. ASSUME SendEnd PROVE TranOK(z, t, p)
  <2>1. /\ t.length = sp.cnt /\ t.cnt = sp.tranCnt /\ t.eof = Word.last /\ (t.eofe <=> SendEofe) /\ t.sof
    BY DEF Tran
  <2>2. Start(t, p) = m.start
    BY <2>1, <1>5, <1>11 DEF Start
  <2>3. EndsAt(at.frame, m.start, at.idx)
    <3>1. at.idx \in m.start .. m.start + TransLen - 1 /\ at.idx <= frames[at.frame].len
      BY <1>3, <1>11
    <3>2. at.idx = m.start + TransLen - 1 \/ at.idx = frames[at.frame].len
      BY <1>3, <1>16, <1>18
    <3> QED BY <3>1, <3>2 DEF EndsAt
  <2>4. t.length > 1 /\ 4 * t.cnt < t.length - 1 /\ t.length - 1 <= 4 * t.cnt + 4
    <3>1. sp.cnt > 1
      BY <1>10
    <3> QED BY <2>1, <3>1, <1>11
  <2>5. /\ (t.eof <=> p.last = frames[p.frame].len)
        /\ (t.eof => (t.eofe <=> FrameEofe(p.frame)))
    BY <2>1, <1>3, <1>5, <1>14
  <2>6. t.length >= 1
    BY <2>1, <1>6
  <2>7. Begin(p.frame) >= 1 /\ Start(t, p) >= Begin(p.frame) /\ p.frame \in 1 .. FrameCnt
    BY <2>2, <1>3, <1>4, <1>5, <1>6, <1>13
  <2>8. TranShape(t, p)
    BY <2>2, <2>3, <2>4, <2>5, <2>6, <2>7, <1>5 DEF TranShape
  <2> QED BY <2>1, <2>2, <2>8, <1>5, <1>6 DEF TranOK
<1>19. ASSUME ~Word.last PROVE InFrame' /\ at'.frame = at.frame /\ at'.idx = at.idx + 1
  <2>1. at'.frame = at.frame /\ at'.idx = at.idx + 1
    BY <1>3, <1>19
  <2>2. Taken(at.frame) /\ Begin(at.frame) < at.idx + 1
    BY <1>4, <1>13
  <2>3. SendEofe <=> frames[at.frame].mid > Begin(at.frame) /\ frames[at.frame].mid < at.idx + 1
    BY <1>14, <1>19
  <2>4. (sp.tranEofe <=> frames[at.frame].mid > Begin(at.frame) /\ frames[at.frame].mid < at.idx)'
    BY <2>1, <2>3, <1>1, <1>15 DEF Begin
  <2>5. Taken(at.frame)' /\ (Begin(at.frame) < at.idx)'
    BY <2>1, <2>2, <1>1 DEF Taken, Begin
  <2> QED BY <2>1, <2>4, <2>5 DEF InFrame
<1>20. ASSUME SendEnd PROVE SpOK(n, p)'
  <2>1. sp'.state = "idle" /\ sp'.tranEof = Word.last
    BY <1>15, <1>20
  <2>2. CASE Word.last
    <3>1. ASSUME NEW f, f = at.frame PROVE BetweenFrames(f)' /\ FLen(f)' = frames[f].len
      BY <2>2, <3>1, <1>1, <1>3, <1>4, FrameEnds, Static
    <3>2. SpIdle(n, p)'
      BY <2>1, <2>2, <3>1, <1>3, <1>4, <1>5 DEF SpIdle
    <3> QED BY <2>1, <3>2, <1>3 DEF SpOK
  <2>3. CASE ~Word.last
    <3>1. InFrame' /\ at'.frame = at.frame /\ at'.idx = at.idx + 1
      BY <2>3, <1>19
    <3>2. n.last = at'.idx - 1 /\ n.last = n.start + TransLen - 1
      BY <2>3, <3>1, <1>4, <1>5, <1>16, <1>20
    <3>3. SpIdle(n, p)'
      BY <2>1, <2>3, <3>1, <3>2, <1>3, <1>4, <1>5 DEF SpIdle
    <3> QED BY <2>1, <3>3, <1>3 DEF SpOK
  <2> QED BY <2>2, <2>3
<1>21. ASSUME ~SendEnd
       PROVE  /\ sp'.state = "send" /\ ~sp'.tranEof /\ InFrame'
              /\ at'.frame = at.frame /\ at'.idx = at.idx + 1
              /\ sp'.cnt = sp.cnt + 1 /\ sp'.cnt \in 2 .. TransLen
              /\ m.start = at'.idx - sp'.cnt + 1
              /\ (Begin(m.frame) <= m.start)' /\ Follows(z.frame, z.last, m.frame, m.start)'
  <2>1. ~Word.last /\ sp.cnt # TransLen
    BY <1>21 DEF SendEnd
  <2>2. sp'.state = "send" /\ ~sp'.tranEof /\ sp'.cnt = sp.cnt + 1
    BY <2>1, <1>15, <1>21
  <2>3. InFrame' /\ at'.frame = at.frame /\ at'.idx = at.idx + 1
    BY <2>1, <1>19
  <2>4. sp'.cnt \in 2 .. TransLen /\ m.start = at'.idx - sp'.cnt + 1
    BY <2>1, <2>2, <2>3, <1>11
  <2>5. (Begin(m.frame) <= m.start)' /\ Follows(z.frame, z.last, m.frame, m.start)'
    BY <1>1, <1>6, Static
  <2> QED BY <2>2, <2>3, <2>4, <2>5
<1>22. ASSUME ~SendEnd, Len(ws) = 4 PROVE SpOK(n, z)'
  <2>1. sp'.words = <<>> /\ sp'.tranCnt = sp.tranCnt + 1
    BY <1>15, <1>22
  <2>2. Len(sp'.words) = 0 /\ sp'.cnt = 4 * sp'.tranCnt + Len(sp'.words) + 2
    <3>1. Len(sp'.words) = 0
      BY <2>1
    <3>2. Len(sp.words) + 1 = 4
      BY <1>9, <1>22
    <3>3. sp.cnt + 1 = 4 * (sp.tranCnt + 1) + 2
      BY <3>2, <1>11
    <3>4. 4 * (sp.tranCnt + 1) + 2 = 4 * (sp.tranCnt + 1) + 0 + 2
      BY <1>8
    <3>5. sp'.cnt = sp.cnt + 1 /\ sp'.tranCnt = sp.tranCnt + 1
      BY <2>1, <1>21, <1>22
    <3> QED BY <3>1, <3>3, <3>4, <3>5
  <2>3. n.frame = m.frame /\ n.last = at'.idx - 1 - Len(sp'.words)
    BY <2>2, <1>5, <1>6, <1>21, <1>22, <1>11
  <2>4. \A k \in 1 .. Len(sp'.words) : sp'.words[k] = <<n.frame, n.last + k>>
    BY <2>2
  <2>5. (Begin(n.frame) <= n.start)' /\ Follows(z.frame, z.last, n.frame, n.start)'
    BY <2>3, <1>5, <1>21, <1>22
  <2>6. SpSend(n, z)'
    BY <2>2, <2>3, <2>4, <2>5, <1>5, <1>6, <1>21, <1>22 DEF SpSend
  <2> QED BY <2>6, <1>3, <1>21, <1>22 DEF SpOK
<1>23. ASSUME ~SendEnd, Len(ws) # 4 PROVE SpOK(m, z)'
  <2>1. sp'.words = ws /\ sp'.tranCnt = sp.tranCnt
    BY <1>15, <1>23
  <2>2. Len(sp'.words) < 4 /\ sp'.cnt = 4 * sp'.tranCnt + Len(sp'.words) + 2
    BY <2>1, <1>6, <1>8, <1>9, <1>21, <1>23, <1>11
  <2>3. m.frame = at'.frame /\ m.last = at'.idx - 1 - Len(sp'.words)
    BY <2>1, <1>6, <1>9, <1>21, <1>23, <1>11
  <2>4. \A k \in 1 .. Len(sp'.words) : sp'.words[k] = <<m.frame, m.last + k>>
    BY <2>1, <1>6, <1>12
  <2>5. SpSend(m, z)'
    BY <2>2, <2>3, <2>4, <1>21, <1>23 DEF SpSend
  <2> QED BY <2>5, <1>3, <1>21, <1>23 DEF SpOK
<1> QED BY <1>17, <1>18, <1>20, <1>22, <1>23

(* A further word keeps the marks of both FIFOs. *)
LEMMA SendWordKeeps ==
    ASSUME frames \in [1 .. FrameCnt -> Frame], Types, NEW ends, NEW cuts, Marks(ends, cuts), SendWord
    PROVE  Types' /\ \E e \in Seq(Mark), c \in Seq(Place) : Marks(e, c)'
<1>1. /\ data \in Seq(Data) /\ tran \in Seq(Entry) /\ sp \in SpType /\ dma \in DmaType
      /\ sp.tranCnt \in Nat /\ sp.cnt \in Nat /\ sp.words \in Seq(Nat \X Nat) /\ sp.tranEofe \in BOOLEAN
      /\ Len(data) \in Nat /\ Len(tran) \in Nat
      /\ at \in [frame : Nat, idx : Nat] /\ at.frame \in Nat /\ at.idx \in Nat
  BY DEF Types, SpType
<1>2. /\ DataOK(ends) /\ TransOK(cuts) /\ DmaOK(ends[1], cuts[1])
      /\ SpOK(ends[Len(data) + 1], cuts[Len(tran) + 1])
  BY DEF Marks
<1>3. /\ ends[Len(data) + 1] \in Mark /\ cuts[Len(tran) + 1] \in Place
      /\ ends \in Seq(Mark) /\ cuts \in Seq(Place)
  <2>1. /\ ends \in Seq(Mark) /\ Len(ends) = Len(data) + 1
        /\ cuts \in Seq(Place) /\ Len(cuts) = Len(tran) + 1
    BY <1>2 DEF DataOK, TransOK
  <2> QED BY <2>1, <1>1
<1>4. /\ frames' = frames /\ at' = NextWord /\ Ready /\ dma' = dma /\ buffer' = buffer
  BY DEF SendWord
<1>5. /\ Word.word \in Nat \X Nat /\ Word.last \in BOOLEAN /\ Word.sof \in BOOLEAN /\ Word.eofe \in BOOLEAN
      /\ at' \in [frame : Nat, idx : Nat] /\ at'.frame >= 1 /\ at'.idx >= 1
  BY <1>2, <1>4, AtWord DEF SpOK
<1>6. PICK m \in Mark : m = ends[Len(data) + 1]
  BY <1>3
<1>7. PICK z \in Place : z = cuts[Len(tran) + 1]
  BY <1>3
<1>8. PICK n \in Mark : n = [frame |-> at.frame, start |-> m.start, last |-> at.idx]
  BY <1>1 DEF Mark
<1>9. PICK p \in Place : p = [frame |-> at.frame, last |-> at.idx]
  BY <1>1 DEF Place
<1>10. PICK ws \in Seq(Nat \X Nat) : ws = Append(sp.words, Word.word)
  <2>1. Append(sp.words, Word.word) \in Seq(Nat \X Nat)
    BY <1>1, <1>5
  <2> QED BY <2>1
<1>11. SendEnd \in BOOLEAN /\ SendEofe \in BOOLEAN
  BY DEF SendEnd, SendEofe
<1>12. PICK b \in Data : b = Beat(ws, FALSE, SendEnd /\ Word.last)
  <2>1. Beat(ws, FALSE, SendEnd /\ Word.last) \in Data
    BY <1>10, <1>11 DEF Data, Beat
  <2> QED BY <2>1
<1>13. PICK t \in Entry : t = Tran(sp.cnt, sp.tranCnt, Word.last, SendEofe)
  <2>1. Tran(sp.cnt, sp.tranCnt, Word.last, SendEofe) \in Entry
    BY <1>1, <1>5, <1>11 DEF Entry, Tran
  <2> QED BY <2>1
<1>14. /\ data' = (IF SendEnd \/ Len(ws) = 4 THEN Append(data, b) ELSE data)
       /\ tran' = (IF SendEnd THEN Append(tran, t) ELSE tran)
       /\ sp' = [sp EXCEPT !.tranEof = Word.last, !.tranEofe = SendEofe,
                           !.state = IF SendEnd THEN "idle" ELSE "send",
                           !.cnt = IF SendEnd THEN 1 ELSE sp.cnt + 1,
                           !.tranCnt = IF ~SendEnd /\ Len(ws) = 4 THEN sp.tranCnt + 1 ELSE sp.tranCnt,
                           !.words = IF Len(ws) = 4 THEN <<>> ELSE ws]
  BY <1>10, <1>12, <1>13 DEF SendWord, SendEnd, SendEofe, CntAtEnd
<1>15. sp' \in SpType
  <2>1. <<>> \in Seq(Nat \X Nat)
    OBVIOUS
  <2>2. /\ (IF SendEnd THEN "idle" ELSE "send") \in {"idle", "send"}
        /\ (IF SendEnd THEN 1 ELSE sp.cnt + 1) \in Nat
        /\ (IF ~SendEnd /\ Len(ws) = 4 THEN sp.tranCnt + 1 ELSE sp.tranCnt) \in Nat
    BY <1>1
  <2>3. (IF Len(ws) = 4 THEN <<>> ELSE ws) \in Seq(Nat \X Nat)
    BY <2>1, <1>10
  <2> QED BY <2>2, <2>3, <1>1, <1>5, <1>11, <1>14 DEF SpType
<1>16. /\ SendEnd \/ Len(ws) = 4 => BeatOK(m, b, n)
       /\ SendEnd => TranOK(z, t, p) /\ SpOK(n, p)'
       /\ ~SendEnd /\ Len(ws) = 4 => SpOK(n, z)'
       /\ ~SendEnd /\ Len(ws) # 4 => SpOK(m, z)'
  <2>1. b.words = ws /\ b.last = (SendEnd /\ Word.last)
    BY <1>12 DEF Beat
  <2>2. SpOK(m, z)
    BY <1>2, <1>6, <1>7
  <2> QED BY <2>1, <2>2, <1>8, <1>9, <1>10, <1>13, SendWordMarks
<1>17. DmaOK(ends[1], cuts[1])'
  BY <1>2, <1>4, DmaKept
<1>18. ASSUME SendEnd \/ Len(ws) = 4
       PROVE  \E e \in Seq(Mark) : /\ data' \in Seq(Data) /\ DataOK(e)'
                                   /\ e[Len(data') + 1] = n /\ e[1] = ends[1]
  <2>1. PICK e \in Seq(Mark) : e = Append(ends, n)
    <3>1. Append(ends, n) \in Seq(Mark)
      BY <1>3
    <3> QED BY <3>1
  <2>2. data' = Append(data, b) /\ BeatOK(ends[Len(data) + 1], b, n)
    BY <1>6, <1>14, <1>16, <1>18
  <2>3. data \in Seq(Data) /\ DataOK(ends) /\ frames' = frames
    BY <1>1, <1>2, <1>4
  <2>4. /\ data' \in Seq(Data) /\ DataOK(e)' /\ e[Len(data') + 1] = n /\ e[1] = ends[1]
    BY <2>1, <2>2, <2>3, DataPush
  <2> QED BY <2>4
<1>19. CASE SendEnd
  <2>1. PICK e \in Seq(Mark) : data' \in Seq(Data) /\ DataOK(e)' /\ e[Len(data') + 1] = n /\ e[1] = ends[1]
    BY <1>18, <1>19
  <2>2. PICK c \in Seq(Place) : c = Append(cuts, p)
    <3>1. Append(cuts, p) \in Seq(Place)
      BY <1>3
    <3> QED BY <3>1
  <2>3. tran' = Append(tran, t) /\ TranOK(cuts[Len(tran) + 1], t, p)
    BY <1>7, <1>14, <1>16, <1>19
  <2>4. tran' \in Seq(Entry) /\ TransOK(c)' /\ c[Len(tran') + 1] = p /\ c[1] = cuts[1]
    BY <2>2, <2>3, <1>1, <1>2, <1>4, TranPush
  <2>5. SpOK(e[Len(data) + 1], c[Len(tran) + 1])'
    BY <2>1, <2>4, <1>16, <1>19
  <2>6. DmaOK(e[1], c[1])'
    BY <2>1, <2>4, <1>17
  <2>7. Marks(e, c)'
    BY <2>1, <2>4, <2>5, <2>6 DEF Marks
  <2> QED BY <2>1, <2>4, <2>7, <1>1, <1>4, <1>5, <1>15 DEF Types
<1>20. CASE ~SendEnd
  <2>1. tran' = tran /\ TransOK(cuts)'
    BY <1>2, <1>4, <1>14, <1>20, FifosKept
  <2>2. CASE Len(ws) = 4
    <3>1. PICK e \in Seq(Mark) : data' \in Seq(Data) /\ DataOK(e)' /\ e[Len(data') + 1] = n /\ e[1] = ends[1]
      BY <2>2, <1>18
    <3>2. SpOK(e[Len(data) + 1], cuts[Len(tran) + 1])'
      BY <2>1, <2>2, <3>1, <1>7, <1>16, <1>20
    <3>3. DmaOK(e[1], cuts[1])'
      BY <3>1, <1>17
    <3>4. Marks(e, cuts)'
      BY <2>1, <3>1, <3>2, <3>3 DEF Marks
    <3> QED BY <2>1, <3>1, <3>4, <1>1, <1>3, <1>4, <1>5, <1>15 DEF Types
  <2>3. CASE Len(ws) # 4
    <3>1. data' = data /\ DataOK(ends)'
      BY <2>3, <1>2, <1>4, <1>14, <1>20, FifosKept
    <3>2. SpOK(ends[Len(data) + 1], cuts[Len(tran) + 1])'
      BY <2>1, <2>3, <3>1, <1>6, <1>7, <1>16, <1>20
    <3>3. Marks(ends, cuts)'
      BY <2>1, <3>1, <3>2, <1>17 DEF Marks
    <3> QED BY <2>1, <3>1, <3>3, <1>1, <1>3, <1>4, <1>5, <1>15 DEF Types
  <2> QED BY <2>2, <2>3
<1> QED BY <1>19, <1>20

-----------------------------------------------------------------------------
(* PciRxDma: what it has written grows word by word. *)
NewWords(f, y, k) == {<<y - Begin(f) + j, <<f, y + j>>>> : j \in 1 .. k}

(* A beat adds its words to the image of a frame. *)
LEMMA ImageGrows ==
    ASSUME NEW f, Begin(f) \in Nat, NEW y \in Nat, Begin(f) <= y + 1, NEW k \in Nat
    PROVE  Image(f, y) \cup NewWords(f, y, k) = Image(f, y + k)
<1>1. ASSUME NEW w \in Image(f, y) PROVE w \in Image(f, y + k)
  <2>1. PICK i \in Begin(f) .. y : w = <<i - Begin(f), <<f, i>>>>
    BY <1>1 DEF Image
  <2>2. i \in Begin(f) .. y + k
    OBVIOUS
  <2> QED BY <2>1, <2>2 DEF Image
<1>2. ASSUME NEW w \in NewWords(f, y, k) PROVE w \in Image(f, y + k)
  <2>1. PICK j \in 1 .. k : w = <<y - Begin(f) + j, <<f, y + j>>>>
    BY <1>2 DEF NewWords
  <2>2. y + j \in Begin(f) .. y + k /\ y - Begin(f) + j = (y + j) - Begin(f)
    OBVIOUS
  <2> QED BY <2>1, <2>2 DEF Image
<1>3. ASSUME NEW w \in Image(f, y + k) PROVE w \in Image(f, y) \cup NewWords(f, y, k)
  <2>1. PICK i \in Begin(f) .. y + k : w = <<i - Begin(f), <<f, i>>>>
    BY <1>3 DEF Image
  <2>2. CASE i <= y
    <3>1. i \in Begin(f) .. y
      BY <2>2
    <3> QED BY <2>1, <3>1 DEF Image
  <2>3. CASE i > y
    <3>1. PICK j \in 1 .. k : j = i - y
      BY <2>3
    <3>2. y - Begin(f) + j = i - Begin(f) /\ y + j = i
      BY <3>1
    <3>3. w = <<y - Begin(f) + j, <<f, y + j>>>>
      BY <2>1, <3>2
    <3> QED BY <3>3 DEF NewWords
  <2> QED BY <2>2, <2>3
<1> QED BY <1>1, <1>2, <1>3

(* Waiting for a transaction takes nothing from the FIFOs, *)
LEMMA IdleKeeps ==
    ASSUME frames \in [1 .. FrameCnt -> Frame], Types, NEW ends, NEW cuts, Marks(ends, cuts), Idle
    PROVE  Types' /\ Marks(ends, cuts)'
<1>1. dma.state = "IDLE" /\ frames' = frames /\ at' = at /\ sp' = sp /\ buffer' = buffer
  BY DEF Idle
<1>2. /\ data \in Seq(Data) /\ tran \in Seq(Entry) /\ sp \in SpType /\ dma \in DmaType
      /\ at \in [frame : Nat, idx : Nat] /\ at.frame >= 1 /\ at.idx >= 1
  BY DEF Types
<1>3. /\ DataOK(ends) /\ TransOK(cuts) /\ InStep(ends[1], cuts[1]) /\ FrameDone(ends[1])
      /\ SpOK(ends[Len(data) + 1], cuts[Len(tran) + 1])
  BY <1>1 DEF Marks, DmaOK
(* The word after a frame is the first of a frame, and has its mark. *)
<1>4. ASSUME data # <<>> PROVE Head(data).sof
  <2>1. /\ ends[1] \in Mark /\ ends[2] \in Mark /\ BeatOK(ends[1], data[1], ends[1 + 1])
        /\ Head(data) = data[1]
    <3>1. Len(data) \in Nat /\ Len(data) >= 1 /\ ends \in Seq(Mark) /\ Len(ends) = Len(data) + 1
      BY <1>2, <1>3, <1>4 DEF DataOK
    <3>2. 1 \in 1 .. Len(ends) /\ 2 \in 1 .. Len(ends) /\ 1 \in 1 .. Len(data)
      BY <3>1
    <3>3. BeatOK(ends[1], data[1], ends[1 + 1])
      BY <3>2, <1>3 DEF DataOK
    <3> QED BY <3>1, <3>2, <3>3, <1>2
  <2>2. BeatOK(ends[1], data[1], ends[2])
    BY <2>1
  <2>3. Ended(ends[1]) /\ ends[1].last = FLen(ends[1].frame)
    BY <1>3 DEF FrameDone, Ended
  <2>4. FirstBeat(ends[1], data[1], ends[2])
    BY <2>2, <2>3 DEF BeatOK, NextBeat
  <2>5. ends[2].last = Begin(ends[2].frame)
    <3>1. ends[1].last \in Nat
      BY <2>1 DEF Mark
    <3> QED BY <3>1, <2>3, <2>4 DEF FirstBeat, Follows
  <2> QED BY <2>1, <2>4, <2>5 DEF FirstBeat
<1>5. dma' = [dma EXCEPT !.state = "ACK_WAIT"] /\ data' = data /\ tran' = tran
  BY <1>4 DEF Idle
<1>6. dma'.state = "ACK_WAIT" /\ dma' \in DmaType
  BY <1>2, <1>5 DEF DmaType, DmaStates
<1>7. DmaOK(ends[1], cuts[1])'
  <2>1. InStep(ends[1], cuts[1])' /\ FrameDone(ends[1])'
    BY <1>1, <1>3, Static DEF InStep, FrameDone
  <2> QED BY <2>1, <1>6 DEF DmaOK
<1>8. DataOK(ends)' /\ TransOK(cuts)' /\ SpOK(ends[Len(data) + 1], cuts[Len(tran) + 1])'
  BY <1>1, <1>3, <1>5, FifosKept, SpKept
<1> QED BY <1>1, <1>2, <1>5, <1>6, <1>7, <1>8 DEF Types, Marks

(* nor does waiting for a descriptor, *)
LEMMA AckWaitKeeps ==
    ASSUME frames \in [1 .. FrameCnt -> Frame], Types, NEW ends, NEW cuts, Marks(ends, cuts), AckWait
    PROVE  Types' /\ Marks(ends, cuts)'
<1>1. /\ dma.state = "ACK_WAIT" /\ frames' = frames /\ at' = at /\ sp' = sp /\ data' = data /\ tran' = tran
      /\ dma' = [dma EXCEPT !.state = "READ_TRANS", !.lengthErr = FALSE, !.newAddr = 0, !.doneLength = 0]
      /\ buffer' = {}
  BY DEF AckWait
<1>2. dma \in DmaType
  BY DEF Types
<1>3. /\ DataOK(ends) /\ TransOK(cuts) /\ InStep(ends[1], cuts[1]) /\ FrameDone(ends[1])
      /\ SpOK(ends[Len(data) + 1], cuts[Len(tran) + 1])
  BY <1>1 DEF Marks, DmaOK
<1>4. /\ dma'.state = "READ_TRANS" /\ ~dma'.lengthErr /\ dma'.newAddr = 0 /\ dma'.doneLength = 0
      /\ dma' \in DmaType
  BY <1>1, <1>2 DEF DmaType, DmaStates
<1>5. MaxFrame # 0
  BY RxDmaAssumption
<1>6. DmaReadTrans(ends[1], cuts[1])'
  <2>1. InStep(ends[1], cuts[1])' /\ FrameDone(ends[1])' /\ Ended(ends[1])'
    BY <1>1, <1>3, Static DEF InStep, FrameDone, Ended
  <2> QED BY <2>1, <1>1, <1>4, <1>5 DEF DmaReadTrans, NoError
<1>7. DmaOK(ends[1], cuts[1])'
  BY <1>4, <1>6 DEF DmaOK
<1>8. DataOK(ends)' /\ TransOK(cuts)' /\ SpOK(ends[Len(data) + 1], cuts[Len(tran) + 1])'
  BY <1>1, <1>3, FifosKept, SpKept
<1> QED BY <1>1, <1>4, <1>7, <1>8 DEF Types, Marks

(* nor does the end of a transaction. *)
LEMMA TrDoneKeeps ==
    ASSUME frames \in [1 .. FrameCnt -> Frame], Types, NEW ends, NEW cuts, Marks(ends, cuts), TrDone
    PROVE  Types' /\ Marks(ends, cuts)'
<1>1. /\ dma.state = "TR_DONE" /\ frames' = frames /\ at' = at /\ sp' = sp /\ data' = data /\ tran' = tran
      /\ dma' = [dma EXCEPT !.state = "IDLE"]
  BY DEF TrDone
<1>2. dma' \in DmaType /\ dma'.state = "IDLE"
  BY <1>1 DEF Types, DmaType, DmaStates
<1>3. /\ DataOK(ends) /\ TransOK(cuts) /\ InStep(ends[1], cuts[1]) /\ FrameDone(ends[1])
      /\ SpOK(ends[Len(data) + 1], cuts[Len(tran) + 1])
  BY <1>1 DEF Marks, DmaOK, DmaTrDone
<1>4. DmaOK(ends[1], cuts[1])'
  <2>1. InStep(ends[1], cuts[1])' /\ FrameDone(ends[1])'
    BY <1>1, <1>3, Static DEF InStep, FrameDone
  <2> QED BY <2>1, <1>2 DEF DmaOK
<1>5. DataOK(ends)' /\ TransOK(cuts)' /\ SpOK(ends[Len(data) + 1], cuts[Len(tran) + 1])'
  BY <1>1, <1>3, FifosKept, SpKept
<1> QED BY <1>1, <1>2, <1>4, <1>5 DEF Types, Marks

(* READ_TRANS_S takes an entry of the transaction FIFO. *)
LEMMA ReadTransKeeps ==
    ASSUME frames \in [1 .. FrameCnt -> Frame], Types, NEW ends, NEW cuts, Marks(ends, cuts), ReadTrans
    PROVE  Types' /\ \E c \in Seq(Place) : Marks(ends, c)'
<1>1. /\ dma.state = "READ_TRANS" /\ tran # <<>> /\ tran' = Tail(tran)
      /\ dma' = [dma EXCEPT !.state = "HDR", !.tran = Head(tran), !.cnt = 0]
      /\ frames' = frames /\ at' = at /\ sp' = sp /\ data' = data /\ buffer' = buffer
  BY DEF ReadTrans
<1>2. tran \in Seq(Entry) /\ dma \in DmaType /\ dma.doneLength \in Nat
  BY DEF Types, DmaType
<1>3. /\ DataOK(ends) /\ TransOK(cuts) /\ DmaReadTrans(ends[1], cuts[1])
      /\ SpOK(ends[Len(data) + 1], cuts[Len(tran) + 1])
  BY <1>1 DEF Marks, DmaOK
<1>4. PICK c \in Seq(Place) : c = Tail(cuts)
  BY <1>1, <1>2, <1>3, TranPop
<1>5. /\ tran' \in Seq(Entry) /\ TransOK(c)' /\ c[Len(tran') + 1] = cuts[Len(tran) + 1] /\ c[1] = cuts[2]
      /\ cuts[1] \in Place /\ cuts[2] \in Place /\ Head(tran) \in Entry
      /\ TranOK(cuts[1], Head(tran), cuts[2])
  BY <1>1, <1>2, <1>3, <1>4, TranPop
<1>6. PICK m \in Mark : m = ends[1]
  <2>1. ends \in Seq(Mark) /\ Len(ends) = Len(data) + 1 /\ Len(data) \in Nat
    BY <1>3 DEF DataOK, Types
  <2>2. ends[1] \in Mark
    BY <2>1
  <2> QED BY <2>2
<1>7. PICK z \in Place : z = cuts[2]
  BY <1>5
<1>8. PICK t \in Entry : t = Head(tran)
  BY <1>5
<1>9. /\ dma'.state = "HDR" /\ dma'.tran = t /\ dma'.cnt = 0 /\ dma'.lengthErr = dma.lengthErr
      /\ dma'.newAddr = dma.newAddr /\ dma'.doneLength = dma.doneLength
  BY <1>1, <1>2, <1>8 DEF DmaType
<1>10. dma' \in DmaType
  BY <1>1, <1>2, <1>5 DEF DmaType, DmaStates
<1>11. Ended(m) /\ NoError /\ dma.newAddr = dma.doneLength /\ cuts[1].frame = m.frame /\ cuts[1].last = m.last
  BY <1>3, <1>6 DEF DmaReadTrans, InStep
<1>12. TranShape(t, z) /\ t.sof /\ Follows(m.frame, m.last, z.frame, Start(t, z))
  BY <1>5, <1>7, <1>8, <1>11 DEF TranOK
<1>13. /\ z.frame \in 1 .. FrameCnt /\ Begin(z.frame) \in Nat /\ Begin(z.frame) >= 1
       /\ m.frame \in Nat /\ m.last \in Nat /\ Start(t, z) \in Int
  <2>1. z.frame \in 1 .. FrameCnt /\ Begin(z.frame) >= 1
    BY <1>12 DEF TranShape
  <2> QED BY <2>1, FrameFacts DEF Mark, Place, Entry, Start
<1>14. Holds(z.frame, Start(t, z) - 1)
  <2>1. CASE dma.doneLength = 0 /\ buffer = {} /\ FrameDone(m)
    <3>1. Start(t, z) = Begin(z.frame)
      BY <2>1, <1>12, <1>13 DEF FrameDone, Follows
    <3>2. Image(z.frame, Begin(z.frame) - 1) = {}
      <4>1. Begin(z.frame) .. Begin(z.frame) - 1 = {}
        BY <1>13
      <4> QED BY <4>1 DEF Image
    <3> QED BY <2>1, <3>1, <3>2, <1>13 DEF Holds
  <2>2. CASE /\ Taken(m.frame) /\ m.last \in Begin(m.frame) .. frames[m.frame].len - 1
             /\ Holds(m.frame, m.last)
    <3>1. FLen(m.frame) = frames[m.frame].len /\ frames[m.frame].len \in Nat /\ Begin(m.frame) \in Nat
      BY <2>2, FrameFacts DEF Taken
    <3>2. z.frame = m.frame /\ Start(t, z) = m.last + 1
      BY <2>2, <3>1, <1>12, <1>13 DEF Follows
    <3>3. Start(t, z) - 1 = m.last
      BY <3>2, <1>13
    <3> QED BY <2>2, <3>2, <3>3
  <2> QED BY <2>1, <2>2, <1>3, <1>6 DEF DmaReadTrans
<1>15. DmaHdr(m, z)'
  <2>1. /\ Ended(m)' /\ NoError' /\ dma'.newAddr = dma'.doneLength /\ dma'.cnt = 0
    BY <1>1, <1>9, <1>11, Static DEF NoError
  <2>2. TranOK(m, t, z)'
    BY <1>1, <1>12, Static DEF TranOK
  <2>3. Holds(z.frame, Start(t, z) - 1)'
    <3>1. ASSUME NEW f, NEW y, Holds(f, y) PROVE Holds(f, y)'
      BY <3>1, <1>1, <1>9, Static DEF Holds
    <3> QED BY <3>1, <1>14 DEF Start
  <2> QED BY <2>1, <2>2, <2>3, <1>9 DEF DmaHdr, Start
<1>16. DmaOK(ends[1], c[1])'
  BY <1>5, <1>6, <1>7, <1>9, <1>15 DEF DmaOK
<1>17. SpOK(ends[Len(data) + 1], c[Len(tran) + 1])'
  <2>1. ASSUME NEW x, NEW y, SpOK(x, y) PROVE SpOK(x, y)'
    BY <2>1, <1>1, SpKept
  <2> QED BY <2>1, <1>1, <1>3, <1>5
<1>18. DataOK(ends)'
  BY <1>1, <1>3, FifosKept
<1>19. Marks(ends, c)'
  BY <1>5, <1>16, <1>17, <1>18 DEF Marks
<1> QED BY <1>1, <1>5, <1>10, <1>19 DEF Types

(* The beat that goes out with the header is the first word of the         *)
(* transaction.                                                            *)
LEMMA HdrMarks ==
    ASSUME frames \in [1 .. FrameCnt -> Frame], Types, SendHdr,
           NEW m \in Mark, NEW n \in Mark, NEW z \in Place, DmaHdr(m, z), BeatOK(m, Head(data), n)
    PROVE  DmaOK(n, z)' /\ dma' \in DmaType
<1> DEFINE s == Start(dma.tran, z)
           f == z.frame
<1>1. /\ dma \in DmaType /\ dma.doneLength \in Nat /\ dma.newAddr \in Nat /\ dma.cnt \in Nat
      /\ dma.tran \in Entry /\ dma.tran.length \in Nat /\ dma.tran.eof \in BOOLEAN
      /\ dma.lengthErr \in BOOLEAN /\ n.last \in Nat /\ z.last \in Nat /\ m.frame \in Nat /\ m.last \in Nat
  BY DEF Types, DmaType, Entry, Mark, Place
<1>2. /\ Ended(m) /\ ~dma.lengthErr /\ dma.doneLength # MaxFrame /\ dma.newAddr = dma.doneLength
      /\ dma.cnt = 0 /\ TranShape(dma.tran, z) /\ Follows(m.frame, m.last, f, s)
      /\ dma.doneLength = s - 1 - Begin(f) + 1 /\ buffer = Image(f, s - 1)
  BY DEF DmaHdr, NoError, TranOK, Holds
<1>3. /\ f \in 1 .. FrameCnt /\ dma.tran.length >= 1 /\ Begin(f) >= 1 /\ s >= Begin(f)
      /\ EndsAt(f, s, z.last) /\ (dma.tran.eof <=> z.last = frames[f].len)
      /\ (dma.tran.eof => (dma.tran.eofe <=> FrameEofe(f)))
  BY <1>2 DEF TranShape
<1>4. /\ Begin(f) \in Nat /\ frames[f].len \in Nat /\ FLen(f) = frames[f].len /\ TransLen \in Nat /\ TransLen > 1
      /\ s = z.last - dma.tran.length + 1 /\ s \in Nat
  <2>1. /\ Begin(f) \in Nat /\ frames[f].len \in Nat /\ FLen(f) = frames[f].len /\ TransLen \in Nat /\ TransLen > 1
    BY <1>3, FrameFacts
  <2>2. s = z.last - dma.tran.length + 1
    BY DEF Start
  <2>3. s \in Int
    BY <2>2, <1>1
  <2> HIDE DEF s, f
  <2>4. s >= Begin(f)
    BY <1>3
  <2> QED BY <2>1, <2>2, <2>3, <2>4
<1>5. n.frame = f /\ n.last = s /\ n.start = s /\ Head(data).words = <<<<f, s>>>>
  <2>1. FirstBeat(m, Head(data), n)
    BY <1>2 DEF BeatOK, NextBeat
  <2>2. /\ Follows(m.frame, m.last, n.frame, n.last) /\ n.start = n.last
        /\ Head(data).words = <<<<n.frame, n.last>>>>
    BY <2>1 DEF FirstBeat
  <2>3. FLen(m.frame) \in Nat
    <3>1. m.frame = f \/ (m.frame < f /\ m.last = FLen(m.frame))
      BY <1>2 DEF Follows
    <3> QED BY <3>1, <1>1, <1>4
  <2>4. n.frame = f /\ n.last = s
    BY <2>2, <2>3, <1>1, <1>2, FollowsOnce
  <2> QED BY <2>2, <2>4
<1>6. Head(data).last <=> s = frames[f].len
  BY <1>5 DEF BeatOK
<1> HIDE DEF s, f
<1>7. z.last >= s /\ z.last <= frames[f].len /\ (z.last = s + TransLen - 1 \/ z.last = frames[f].len)
  BY <1>1, <1>3, <1>4 DEF EndsAt
<1>8. dma.tran.length = 1 <=> z.last = s
  BY <1>1, <1>4
<1>9. z.last = s => s = frames[f].len
  BY <1>4, <1>7
<1>10. /\ dma' = [dma EXCEPT !.newAddr = dma.newAddr + dma.tran.length, !.put = dma.newAddr + 1,
                            !.doneLength = dma.doneLength + 1, !.lengthErr = FALSE,
                            !.state = IF dma.tran.length = 1 THEN "TR_DONE" ELSE "COLLECT"]
       /\ frames' = frames /\ buffer' = buffer \cup {<<dma.newAddr, <<f, s>>>>}
  <2>1. Head(data).words[1] = <<f, s>>
    BY <1>5
  <2>2. dma.tran.length = 1 => dma.tran.eof
    BY <1>3, <1>8, <1>9 DEF f
  <2> QED BY <2>1, <2>2, <1>1, <1>2 DEF SendHdr
<1>11. /\ dma'.newAddr = dma.newAddr + dma.tran.length /\ dma'.put = dma.newAddr + 1
       /\ dma'.doneLength = dma.doneLength + 1 /\ dma'.tran = dma.tran /\ dma'.cnt = 0
       /\ dma'.state = (IF dma.tran.length = 1 THEN "TR_DONE" ELSE "COLLECT")
  BY <1>1, <1>2, <1>10 DEF DmaType
<1>12. dma' \in DmaType
  <2>1. (IF dma.tran.length = 1 THEN "TR_DONE" ELSE "COLLECT") \in DmaStates
    BY DEF DmaStates
  <2>2. dma.newAddr + dma.tran.length \in Nat /\ dma.newAddr + 1 \in Nat /\ dma.doneLength + 1 \in Nat
    BY <1>1
  <2> QED BY <2>1, <2>2, <1>1, <1>10 DEF DmaType
<1>13. buffer' = Image(f, s) /\ dma'.doneLength = s - Begin(f) + 1 /\ dma'.put = dma'.doneLength
  <2>1. dma.newAddr = s - Begin(f) /\ dma.doneLength = s - Begin(f)
    BY <1>1, <1>2, <1>4 DEF f, s
  <2>2. s - 1 \in Nat /\ (s - 1) + 1 = s /\ s >= Begin(f) /\ s - Begin(f) = (s - 1) - Begin(f) + 1
    BY <1>3, <1>4 DEF f, s
  <2>3. NewWords(f, s - 1, 1) = {<<s - Begin(f), <<f, s>>>>}
    <3>1. s - 1 - Begin(f) + 1 = s - Begin(f) /\ s - 1 + 1 = s /\ 1 .. 1 = {1}
      BY <1>4
    <3> QED BY <3>1 DEF NewWords
  <2>4. Image(f, s - 1) \cup NewWords(f, s - 1, 1) = Image(f, s - 1 + 1)
    BY <2>2, <1>4, ImageGrows
  <2>5. buffer = Image(f, s - 1)
    BY <1>2 DEF f, s
  <2> QED BY <2>1, <2>2, <2>3, <2>4, <2>5, <1>1, <1>4, <1>10, <1>11
<1>14. ASSUME NEW g, NEW y, g = f, y = s PROVE Holds(g, y)'
  BY <1>10, <1>13, <1>14, Static DEF Holds
<1>15. CASE dma.tran.length = 1
  <2>1. InStep(n, z)' /\ n.last = FLen(n.frame) /\ n.frame \in 1 .. FrameCnt /\ z.last = frames[f].len
    BY <1>3, <1>4, <1>5, <1>8, <1>9, <1>15 DEF InStep, f, s
  <2>2. FrameDone(n)'
    BY <2>1, <1>10, Static DEF FrameDone
  <2>3. Taken(n.frame)
    BY <1>3, <1>4, <1>5, <1>8, <1>9, <1>15 DEF Taken, f, s
  <2>4. Taken(n.frame)' /\ Holds(n.frame, n.last)'
    BY <2>3, <1>5, <1>10, <1>14, Static DEF f, s
  <2>5. (dma.tran.eofe <=> FrameEofe(n.frame))'
    BY <2>1, <1>3, <1>5, <1>10, <1>11, Static DEF f
  <2>6. dma'.state = "TR_DONE"
    BY <1>11, <1>15
  <2>7. dma'.newAddr = dma'.doneLength
    BY <1>2, <1>11, <1>15
  <2>8. DmaTrDone(n, z)'
    BY <2>1, <2>2, <2>4, <2>5, <2>7 DEF DmaTrDone
  <2> QED BY <2>6, <2>8, <1>12 DEF DmaOK
<1>16. CASE dma.tran.length # 1
  <2>1. TranShape(dma.tran, z)' /\ dma'.tran.length > 1
    BY <1>1, <1>2, <1>3, <1>10, <1>11, <1>16, Static
  <2>2. /\ n.frame = z.frame /\ n.start = Start(dma'.tran, z) /\ n.last = n.start + 4 * dma'.cnt
        /\ n.last < z.last
    <3>1. n.frame = z.frame /\ n.start = Start(dma'.tran, z)
      BY <1>5, <1>11 DEF f, s
    <3>2. s = s + 4 * 0
      BY <1>4
    <3>3. s < z.last
      <4>1. s # z.last /\ s \in Nat /\ z.last \in Nat /\ z.last >= s
        BY <1>1, <1>4, <1>7, <1>8, <1>16
      <4> QED BY <4>1
    <3> QED BY <3>1, <3>2, <3>3, <1>5, <1>11
  <2>3. Holds(n.frame, n.last)' /\ dma'.put = dma'.doneLength
    BY <1>5, <1>13, <1>14 DEF f, s
  <2>4. (dma.newAddr = z.last - Begin(z.frame) + 1)'
    <3>1. dma.newAddr = s - 1 - Begin(f) + 1 /\ dma.newAddr \in Nat /\ dma.tran.length \in Nat
          /\ z.last \in Nat /\ s = z.last - dma.tran.length + 1 /\ s \in Nat /\ Begin(f) \in Nat
      BY <1>1, <1>2, <1>4 DEF f, s
    <3>2. dma.newAddr + dma.tran.length = z.last - Begin(f) + 1
      <4> DEFINE a == dma.newAddr  l == dma.tran.length  x == z.last  i == Begin(f)
      <4>1. a = s - 1 - i + 1 /\ s = x - l + 1 /\ a \in Nat /\ l \in Nat /\ x \in Nat /\ i \in Nat /\ s \in Nat
        BY <3>1
      <4> HIDE DEF a, l, x, i
      <4>2. a + l = x - i + 1
        BY <4>1
      <4> QED BY <4>2 DEF a, l, x, i
    <3>3. dma.newAddr + dma.tran.length = z.last - Begin(z.frame) + 1
      BY <3>2 DEF f
    <3> QED BY <3>3, <1>10, <1>11, Static
  <2>5. dma'.state = "COLLECT"
    BY <1>11, <1>16
  <2>6. DmaCollect(n, z)'
    BY <2>1, <2>2, <2>3, <2>4 DEF DmaCollect, Start
  <2> QED BY <2>5, <2>6, <1>12 DEF DmaOK
<1> QED BY <1>12, <1>15, <1>16

(* SEND_IO_REQ_HDR_S takes the first beat of the transaction. *)
LEMMA SendHdrKeeps ==
    ASSUME frames \in [1 .. FrameCnt -> Frame], Types, NEW ends, NEW cuts, Marks(ends, cuts), SendHdr
    PROVE  Types' /\ \E e \in Seq(Mark) : Marks(e, cuts)'
<1>1. /\ dma.state = "HDR" /\ data # <<>> /\ data' = Tail(data)
      /\ frames' = frames /\ at' = at /\ sp' = sp /\ tran' = tran
  BY DEF SendHdr
<1>2. /\ DataOK(ends) /\ TransOK(cuts) /\ DmaHdr(ends[1], cuts[1])
      /\ SpOK(ends[Len(data) + 1], cuts[Len(tran) + 1])
  BY <1>1 DEF Marks, DmaOK
<1>3. PICK e \in Seq(Mark) : e = Tail(ends)
  BY <1>1, <1>2, DataPop DEF Types
<1>4. /\ data' \in Seq(Data) /\ DataOK(e)' /\ e[Len(data') + 1] = ends[Len(data) + 1] /\ e[1] = ends[2]
      /\ ends[1] \in Mark /\ ends[2] \in Mark /\ BeatOK(ends[1], Head(data), ends[2])
  BY <1>1, <1>2, <1>3, DataPop DEF Types
<1>5. cuts[1] \in Place
  <2>1. cuts \in Seq(Place) /\ Len(cuts) = Len(tran) + 1 /\ Len(tran) \in Nat
    BY <1>2 DEF TransOK, Types
  <2> QED BY <2>1
<1>6. DmaOK(ends[2], cuts[1])' /\ dma' \in DmaType
  BY <1>2, <1>4, <1>5, HdrMarks
<1>7. SpOK(e[Len(data) + 1], cuts[Len(tran) + 1])'
  <2>1. ASSUME NEW x, NEW y, SpOK(x, y) PROVE SpOK(x, y)'
    BY <2>1, <1>1, SpKept
  <2> QED BY <2>1, <1>1, <1>2, <1>4
<1>8. TransOK(cuts)'
  BY <1>1, <1>2, FifosKept
<1>9. Marks(e, cuts)'
  BY <1>4, <1>6, <1>7, <1>8 DEF Marks
<1> QED BY <1>1, <1>4, <1>6, <1>9 DEF Types

(* The counter of the transaction and the words of its beats agree: the    *)
(* last beat that is counted is the last one of the transaction.           *)
LEMMA LastBeat ==
    ASSUME NEW s \in Nat, NEW y \in Nat, NEW x \in Nat, NEW q \in Nat, NEW d \in Nat, NEW k \in 1 .. 4,
           4 * q < x - s, x - s <= 4 * q + 4, y = s + 4 * d, y < x, y + k <= x,
           k = 4 \/ y + k = x
    PROVE  /\ d = q <=> y + k = x
           /\ y + k # x => y + k < x /\ y + k = s + 4 * (d + 1)
<1>1. CASE y + k = x
  BY <1>1
<1>2. CASE y + k # x
  BY <1>2
<1> QED BY <1>1, <1>2

(* COLLECT_S writes the words of the beat behind those of the beats *)
(* before.                                                          *)
LEMMA CollectMarks ==
    ASSUME frames \in [1 .. FrameCnt -> Frame], Types, Collect, ~lost',
           NEW m \in Mark, NEW n \in Mark, NEW z \in Place, DmaCollect(m, z), BeatOK(m, Head(data), n)
    PROVE  DmaOK(n, z)' /\ dma' \in DmaType
<1> DEFINE s == Start(dma.tran, z)
           f == z.frame
           y == m.last
           ws == Head(data).words
           k == Len(ws)
           err == dma.lengthErr \/ Reaches(dma.doneLength, k)
           end == dma.cnt = dma.tran.cnt
           state == IF ~end THEN dma.state
                    ELSE IF Head(data).last \/ dma.tran.eof \/ err THEN "TR_DONE" ELSE "READ_TRANS"
<1>1. /\ dma \in DmaType /\ dma.doneLength \in Nat /\ dma.newAddr \in Nat /\ dma.cnt \in Nat
      /\ dma.put \in Nat /\ dma.tran.cnt \in Nat /\ dma.tran.length \in Nat /\ dma.tran.eof \in BOOLEAN
      /\ dma.lengthErr \in BOOLEAN /\ n.last \in Nat /\ z.last \in Nat /\ m.last \in Nat /\ m.start \in Nat
  BY DEF Types, DmaType, Entry, Mark, Place
<1>2. /\ TranShape(dma.tran, z) /\ dma.tran.length > 1
      /\ m.frame = f /\ m.start = s /\ y = s + 4 * dma.cnt /\ y < z.last
      /\ dma.doneLength = y - Begin(f) + 1 /\ buffer = Image(f, y) /\ dma.put = dma.doneLength
      /\ dma.newAddr = z.last - Begin(f) + 1
  BY DEF DmaCollect, Holds
<1>3. /\ f \in 1 .. FrameCnt /\ Begin(f) >= 1 /\ s >= Begin(f) /\ EndsAt(f, s, z.last)
      /\ 4 * dma.tran.cnt < dma.tran.length - 1 /\ dma.tran.length - 1 <= 4 * dma.tran.cnt + 4
      /\ (dma.tran.eof <=> z.last = frames[f].len)
      /\ (dma.tran.eof => (dma.tran.eofe <=> FrameEofe(f)))
  BY <1>2 DEF TranShape
<1>4. /\ Begin(f) \in Nat /\ frames[f].len \in Nat /\ FLen(f) = frames[f].len /\ TransLen \in Nat /\ TransLen > 1
      /\ s = z.last - dma.tran.length + 1 /\ s \in Nat /\ FrameCnt \in Nat
  BY <1>1, <1>2, <1>3, FrameFacts DEF Start
<1>5. /\ dma.state = "COLLECT" /\ frames' = frames
      /\ buffer' = buffer \cup {<<dma.put + j - 1, ws[j]>> : j \in 1 .. k}
      /\ dma' = [dma EXCEPT !.put = dma.put + k, !.doneLength = dma.doneLength + k, !.lengthErr = err,
                            !.cnt = dma.cnt + 1, !.state = state]
      /\ ~(end /\ err /\ ~dma.tran.eof)
  BY DEF Collect
<1>6. z.last >= s /\ z.last <= s + TransLen - 1 /\ z.last <= frames[f].len
      /\ (z.last = s + TransLen - 1 \/ z.last = frames[f].len)
  BY <1>1, <1>3, <1>4 DEF EndsAt
(* The beat continues the transaction. *)
<1>7. ~Ended(m)
  <2>1. m.frame = f /\ m.last = y /\ m.start = s /\ FLen(m.frame) = frames[f].len
    BY <1>2, <1>4
  <2> HIDE DEF s, f, y
  <2>2. y < z.last /\ y \in Nat /\ z.last \in Nat /\ frames[f].len \in Nat /\ s \in Nat /\ TransLen \in Nat
    BY <1>1, <1>2, <1>4 DEF y
  <2>3. y < frames[f].len /\ y < s + TransLen - 1
    BY <2>2, <1>6
  <2> QED BY <2>1, <2>2, <2>3 DEF Ended
<1>8. /\ n.frame = f /\ n.start = s /\ k \in 1 .. 4 /\ n.last = y + k
      /\ \A j \in 1 .. k : ws[j] = <<f, y + j>>
      /\ n.last <= frames[f].len /\ n.last <= s + TransLen - 1
      /\ (k = 4 \/ Ended(n))
  BY <1>2, <1>7 DEF BeatOK, FirstBeat, NextBeat
<1>9. Head(data).last <=> n.last = frames[f].len
  BY <1>8 DEF BeatOK
<1> HIDE DEF s, f, y, k, ws, err, end, state
<1>10. y \in Nat /\ k \in Nat
  BY <1>1, <1>8 DEF y
<1>11. n.last <= z.last /\ (k = 4 \/ n.last = z.last)
  <2>1. n.last <= z.last
    BY <1>1, <1>4, <1>6, <1>8
  <2>2. ASSUME Ended(n) PROVE n.last = z.last
    <3>1. n.last = frames[f].len \/ n.last = s + TransLen - 1
      BY <2>2, <1>4, <1>8 DEF Ended
    <3> QED BY <3>1, <2>1, <1>1, <1>4, <1>6
  <2> QED BY <2>1, <2>2, <1>8
<1>12. /\ end <=> n.last = z.last
       /\ ~end => n.last < z.last /\ n.last = s + 4 * (dma.cnt + 1)
  <2> DEFINE q == dma.tran.cnt  d == dma.cnt  x == z.last
  <2>1. 4 * q < x - s /\ x - s <= 4 * q + 4
    <3>1. x - s = dma.tran.length - 1
      <4> DEFINE l == dma.tran.length
      <4>1. s = x - l + 1 /\ x \in Nat /\ l \in Nat /\ s \in Nat
        BY <1>1, <1>4
      <4> HIDE DEF l, x
      <4>2. x - s = l - 1
        BY <4>1
      <4> QED BY <4>2 DEF l, x
    <3> QED BY <3>1, <1>3
  <2>2. s \in Nat /\ y \in Nat /\ x \in Nat /\ q \in Nat /\ d \in Nat /\ k \in 1 .. 4
    BY <1>1, <1>4, <1>8, <1>10
  <2>3. y = s + 4 * d /\ y < x /\ y + k <= x /\ (k = 4 \/ y + k = x)
    BY <1>2, <1>8, <1>11 DEF y
  <2> HIDE DEF q, d, x
  <2>4. /\ d = q <=> y + k = x
        /\ y + k # x => y + k < x /\ y + k = s + 4 * (d + 1)
    BY <2>1, <2>2, <2>3, LastBeat
  <2> QED BY <2>4, <1>8 DEF q, d, x, end
<1>13. /\ dma'.put = dma.put + k /\ dma'.doneLength = dma.doneLength + k /\ dma'.lengthErr = err
       /\ dma'.cnt = dma.cnt + 1 /\ dma'.state = state /\ dma'.tran = dma.tran /\ dma'.newAddr = dma.newAddr
  BY <1>1, <1>5 DEF DmaType
<1>14. dma' \in DmaType
  <2>1. state \in DmaStates /\ err \in BOOLEAN
    BY <1>5 DEF state, DmaStates, err
  <2>2. dma.put + k \in Nat /\ dma.doneLength + k \in Nat /\ dma.cnt + 1 \in Nat
    <3>1. dma.put \in Nat /\ dma.doneLength \in Nat /\ dma.cnt \in Nat /\ k \in Nat
      BY <1>1, <1>10
    <3> QED BY <3>1
  <2> QED BY <2>1, <2>2, <1>1, <1>5 DEF DmaType
<1>15. /\ dma'.doneLength = n.last - Begin(f) + 1 /\ dma'.put = dma'.doneLength
       /\ buffer' = Image(f, n.last)
  <2>1. dma.put = y - Begin(f) + 1 /\ dma.doneLength = dma.put
    BY <1>2 DEF f, y
  <2>2. Begin(f) <= y + 1
    BY <1>1, <1>2, <1>4, <1>3 DEF y
  <2>3. {<<dma.put + j - 1, ws[j]>> : j \in 1 .. k} = NewWords(f, y, k)
    <3>1. ASSUME NEW j \in 1 .. k PROVE dma.put + j - 1 = y - Begin(f) + j
      BY <2>1, <1>4, <1>10
    <3> QED BY <3>1, <1>8 DEF NewWords
  <2>4. Image(f, y) \cup NewWords(f, y, k) = Image(f, y + k)
    <3>1. Begin(f) \in Nat /\ y \in Nat /\ k \in Nat /\ Begin(f) <= y + 1
      BY <2>2, <1>4, <1>10
    <3> QED BY <3>1, ImageGrows
  <2>5. buffer = Image(f, y)
    BY <1>2 DEF f, y
  <2>6. dma.put + k = y + k - Begin(f) + 1
    BY <2>1, <1>4, <1>10
  <2>7. buffer' = Image(f, n.last)
    BY <2>3, <2>4, <2>5, <1>5, <1>8
  <2>8. dma'.put = n.last - Begin(f) + 1 /\ dma'.doneLength = dma'.put
    <3>1. dma'.put = dma.put + k /\ dma'.doneLength = dma.put + k
      BY <2>1, <1>13
    <3>2. y + k = n.last
      BY <1>8
    <3>3. dma.put + k = n.last - Begin(f) + 1
      BY <3>2, <2>6, <1>1, <1>4, <1>10
    <3> QED BY <3>1, <3>3
  <2> QED BY <2>7, <2>8
<1>16. Holds(n.frame, n.last)'
  BY <1>5, <1>8, <1>15, Static DEF Holds
<1>17. CASE ~end
  <2>1. dma'.state = "COLLECT"
    BY <1>5, <1>13, <1>17 DEF state
  <2>2. TranShape(dma.tran, z)' /\ dma'.tran.length > 1
    BY <1>2, <1>5, <1>13, Static
  <2>3. /\ n.frame = z.frame /\ n.start = Start(dma'.tran, z) /\ n.last = n.start + 4 * dma'.cnt
        /\ n.last < z.last
    BY <1>8, <1>12, <1>13, <1>17 DEF f, s
  <2>4. (dma.newAddr = z.last - Begin(z.frame) + 1)'
    BY <1>2, <1>5, <1>13, Static DEF f
  <2>5. DmaCollect(n, z)'
    BY <2>2, <2>3, <2>4, <1>15, <1>16 DEF DmaCollect, Start
  <2> QED BY <2>1, <2>5, <1>14 DEF DmaOK
<1>18. CASE end
  <2>1. n.last = z.last /\ InStep(n, z)' /\ (Head(data).last <=> dma.tran.eof)
    BY <1>3, <1>8, <1>9, <1>12, <1>18 DEF InStep, f
  <2>2. Taken(n.frame) /\ Taken(n.frame)' /\ n.last >= Begin(f)
    <3>1. Begin(f) <= n.last /\ n.last <= frames[f].len
      <4>1. s >= Begin(f) /\ z.last >= s /\ s \in Nat /\ Begin(f) \in Nat /\ z.last \in Nat
        BY <1>1, <1>3, <1>4, <1>6
      <4>2. Begin(f) <= z.last
        BY <4>1
      <4> QED BY <4>2, <2>1, <1>6
    <3>2. Taken(n.frame)
      BY <3>1, <1>1, <1>3, <1>4, <1>8 DEF Taken
    <3> QED BY <3>1, <3>2, <1>4, <1>5, <1>1, Static
  <2>3. CASE dma.tran.eof
    <3>1. dma'.state = "TR_DONE"
      BY <2>3, <1>13, <1>18 DEF state
    <3>2. n.last = FLen(n.frame) /\ n.frame \in 0 .. FrameCnt
      BY <2>1, <2>3, <1>3, <1>4, <1>8
    <3>3. FrameDone(n)'
      BY <3>2, <1>5, Static DEF FrameDone
    <3>4. (dma.tran.eofe <=> FrameEofe(n.frame))'
      BY <2>3, <1>3, <1>5, <1>8, <1>13, Static
    <3>5. dma'.newAddr = dma'.doneLength
      BY <2>1, <1>2, <1>13, <1>15 DEF f
    <3>6. DmaTrDone(n, z)'
      BY <2>1, <2>2, <3>3, <3>4, <3>5, <1>16 DEF DmaTrDone
    <3> QED BY <3>1, <3>6, <1>14 DEF DmaOK
  <2>4. CASE ~dma.tran.eof
    <3>1. ~err
      BY <2>4, <1>5, <1>18
    <3>2. dma'.state = "READ_TRANS"
      BY <2>1, <2>4, <3>1, <1>13, <1>18 DEF state
    <3>3. NoError'
      <4>1. ~dma.lengthErr /\ ~Reaches(dma.doneLength, k)
        BY <3>1 DEF err
      <4>2. k \in 1 .. k
        BY <1>8, <1>10
      <4>3. dma.doneLength + k # MaxFrame
        BY <4>1, <4>2 DEF Reaches
      <4> QED BY <3>1, <4>3, <1>13 DEF NoError
    <3>4. n.last = n.start + TransLen - 1 /\ n.last # frames[f].len
      BY <2>1, <2>4, <1>3, <1>6, <1>8
    <3>5. Ended(n)'
      BY <3>4, <1>5, Static DEF Ended
    <3>6. dma'.newAddr = dma'.doneLength
      BY <2>1, <1>2, <1>13, <1>15 DEF f
    <3>7. n.last \in Begin(n.frame) .. frames[n.frame].len - 1
      <4>1. n.last <= frames[f].len /\ n.last # frames[f].len /\ n.last >= Begin(f)
        BY <2>1, <2>2, <3>4, <1>6
      <4>2. n.last \in Nat /\ frames[f].len \in Nat /\ Begin(f) \in Nat
        BY <1>1, <1>4
      <4>3. n.last \in Begin(f) .. frames[f].len - 1
        BY <4>1, <4>2
      <4> QED BY <4>3, <1>8
    <3>8. (n.last \in Begin(n.frame) .. frames[n.frame].len - 1)'
      BY <3>7, <1>5, Static
    <3>9. DmaReadTrans(n, z)'
      BY <2>1, <2>2, <3>3, <3>5, <3>6, <3>8, <1>16 DEF DmaReadTrans
    <3> QED BY <3>2, <3>9, <1>14 DEF DmaOK
  <2> QED BY <2>3, <2>4
<1> QED BY <1>14, <1>17, <1>18

(* COLLECT_S takes a further beat of the transaction. *)
LEMMA CollectKeeps ==
    ASSUME frames \in [1 .. FrameCnt -> Frame], Types, NEW ends, NEW cuts, Marks(ends, cuts), Collect, ~lost'
    PROVE  Types' /\ \E e \in Seq(Mark) : Marks(e, cuts)'
<1>1. /\ dma.state = "COLLECT" /\ data # <<>> /\ data' = Tail(data)
      /\ frames' = frames /\ at' = at /\ sp' = sp /\ tran' = tran
  BY DEF Collect
<1>2. /\ DataOK(ends) /\ TransOK(cuts) /\ DmaCollect(ends[1], cuts[1])
      /\ SpOK(ends[Len(data) + 1], cuts[Len(tran) + 1])
  BY <1>1 DEF Marks, DmaOK
<1>3. PICK e \in Seq(Mark) : e = Tail(ends)
  BY <1>1, <1>2, DataPop DEF Types
<1>4. /\ data' \in Seq(Data) /\ DataOK(e)' /\ e[Len(data') + 1] = ends[Len(data) + 1] /\ e[1] = ends[2]
      /\ ends[1] \in Mark /\ ends[2] \in Mark /\ BeatOK(ends[1], Head(data), ends[2])
  BY <1>1, <1>2, <1>3, DataPop DEF Types
<1>5. cuts[1] \in Place
  <2>1. cuts \in Seq(Place) /\ Len(cuts) = Len(tran) + 1 /\ Len(tran) \in Nat
    BY <1>2 DEF TransOK, Types
  <2> QED BY <2>1
<1>6. DmaOK(ends[2], cuts[1])' /\ dma' \in DmaType
  BY <1>2, <1>4, <1>5, CollectMarks
<1>7. SpOK(e[Len(data) + 1], cuts[Len(tran) + 1])'
  <2>1. ASSUME NEW x, NEW y, SpOK(x, y) PROVE SpOK(x, y)'
    BY <2>1, <1>1, SpKept
  <2> QED BY <2>1, <1>1, <1>2, <1>4
<1>8. TransOK(cuts)'
  BY <1>1, <1>2, FifosKept
<1>9. Marks(e, cuts)'
  BY <1>4, <1>6, <1>7, <1>8 DEF Marks
<1> QED BY <1>1, <1>4, <1>6, <1>9 DEF Types

-----------------------------------------------------------------------------
(* The invariant holds at the start: no word has been seen. *)
LEMMA RxDmaStart == Init => RxDmaInv
<1> SUFFICES ASSUME Init PROVE RxDmaInv
  OBVIOUS
<1>1. /\ frames \in [1 .. FrameCnt -> Frame] /\ at = [frame |-> 1, idx |-> 1]
      /\ sp = [state |-> "idle", cnt |-> 1, tranCnt |-> 0, tranEof |-> TRUE, tranEofe |-> FALSE,
               words |-> <<>>]
      /\ data = <<>> /\ tran = <<>>
      /\ dma = [state |-> "IDLE", tran |-> Tran(1, 0, FALSE, FALSE), cnt |-> 0, newAddr |-> 0, put |-> 0,
                doneLength |-> 0, lengthErr |-> FALSE]
  BY DEF Init
<1>2. Types
  <2>1. sp \in SpType
    <3>1. <<>> \in Seq(Nat \X Nat)
      OBVIOUS
    <3> QED BY <3>1, <1>1 DEF SpType
  <2>2. dma \in DmaType
    BY <1>1 DEF DmaType, DmaStates, Tran, Entry
  <2> QED BY <2>1, <2>2, <1>1 DEF Types
<1>3. PICK m \in Mark : m = [frame |-> 0, start |-> 0, last |-> 0]
  BY DEF Mark
<1>4. PICK z \in Place : z = [frame |-> 0, last |-> 0]
  BY DEF Place
<1>5. <<m>> \in Seq(Mark) /\ <<z>> \in Seq(Place) /\ Len(<<m>>) = 1 /\ Len(<<z>>) = 1
      /\ <<m>>[1] = m /\ <<z>>[1] = z /\ Len(data) = 0 /\ Len(tran) = 0
  BY <1>1
<1>6. DataOK(<<m>>) /\ TransOK(<<z>>)
  BY <1>5 DEF DataOK, TransOK
<1>7. /\ m.frame = 0 /\ m.last = 0 /\ z.frame = 0 /\ z.last = 0 /\ FLen(m.frame) = 0
      /\ m.frame \in 0 .. FrameCnt /\ at.frame = 1 /\ at.idx = 1
  BY <1>1, <1>3, <1>4, FrameFacts
<1>8. BetweenFrames(m.frame)
  <2>1. 1 .. at.idx - 1 = {} /\ m.frame + 1 .. at.frame - 1 = {}
    BY <1>7
  <2> QED BY <2>1, <1>7 DEF BetweenFrames
<1>9. SpOK(m, z)
  <2>1. SpIdle(m, z)
    BY <1>1, <1>7, <1>8 DEF SpIdle
  <2>2. at.frame \in 1 .. FrameCnt => at.idx <= frames[at.frame].len
    BY <1>1, <1>7, FrameFacts
  <2> QED BY <2>1, <2>2, <1>1 DEF SpOK
<1>10. DmaOK(m, z)
  BY <1>1, <1>7 DEF DmaOK, InStep, FrameDone
<1>11. Marks(<<m>>, <<z>>)
  BY <1>5, <1>6, <1>9, <1>10 DEF Marks
<1> QED BY <1>1, <1>2, <1>5, <1>11 DEF RxDmaInv

(* Every step keeps it. *)
LEMMA RxDmaStep == RxDmaInv /\ [Next]_vars => RxDmaInv'
<1> SUFFICES ASSUME RxDmaInv, [Next]_vars PROVE RxDmaInv'
  OBVIOUS
<1>1. frames' = frames
  BY DEF Next, vars, DropWord, FirstWord, SendWord, Idle, AckWait, ReadTrans, SendHdr, Collect, TrDone
<1>2. (frames \in [1 .. FrameCnt -> Frame])'
  BY <1>1 DEF RxDmaInv, Frame
<1>3. ASSUME ~lost' PROVE Types' /\ \E e \in Seq(Mark), c \in Seq(Place) : Marks(e, c)'
  <2>1. ~lost
    BY <1>3 DEF Next, vars, DropWord, FirstWord, SendWord, Idle, AckWait, ReadTrans, SendHdr, Collect, TrDone
  <2>2. frames \in [1 .. FrameCnt -> Frame] /\ Types
    BY <2>1 DEF RxDmaInv
  <2>3. PICK ends \in Seq(Mark), cuts \in Seq(Place) : Marks(ends, cuts)
    BY <2>1 DEF RxDmaInv
  <2>4. CASE DropWord
    BY <2>2, <2>3, <2>4, DropWordKeeps
  <2>5. CASE FirstWord
    BY <2>2, <2>3, <2>5, FirstWordKeeps
  <2>6. CASE SendWord
    BY <2>2, <2>3, <2>6, SendWordKeeps
  <2>7. CASE Idle
    BY <2>2, <2>3, <2>7, IdleKeeps
  <2>8. CASE AckWait
    BY <2>2, <2>3, <2>8, AckWaitKeeps
  <2>9. CASE ReadTrans
    BY <2>2, <2>3, <2>9, ReadTransKeeps
  <2>10. CASE SendHdr
    BY <2>2, <2>3, <2>10, SendHdrKeeps
  <2>11. CASE Collect
    BY <2>2, <2>3, <2>11, <1>3, CollectKeeps
  <2>12. CASE TrDone
    BY <2>2, <2>3, <2>12, TrDoneKeeps
  <2>13. CASE UNCHANGED vars
    <3>1. /\ frames' = frames /\ at' = at /\ sp' = sp /\ data' = data /\ tran' = tran /\ dma' = dma
          /\ buffer' = buffer
      BY <2>13 DEF vars
    <3>2. DataOK(ends)' /\ TransOK(cuts)'
      BY <3>1, <2>3, FifosKept DEF Marks
    <3>3. SpOK(ends[Len(data) + 1], cuts[Len(tran) + 1])'
      BY <3>1, <2>3, SpKept DEF Marks
    <3>4. DmaOK(ends[1], cuts[1])'
      BY <3>1, <2>3, DmaKept DEF Marks
    <3>5. Marks(ends, cuts)'
      BY <3>2, <3>3, <3>4 DEF Marks
    <3> QED BY <3>1, <3>5, <2>2, <2>3 DEF Types
  <2> QED BY <2>4, <2>5, <2>6, <2>7, <2>8, <2>9, <2>10, <2>11, <2>12, <2>13 DEF Next
<1>4. (~lost => Types /\ \E e \in Seq(Mark), c \in Seq(Place) : Marks(e, c))'
  BY <1>3
<1> QED BY <1>2, <1>4 DEF RxDmaInv

(* The data FIFO and the transaction FIFO stay in step with the frames and *)
(* with each other, whatever the frames are.                               *)
THEOREM RxDmaSafe == Spec => []RxDmaInv
<1> QED BY RxDmaStart, RxDmaStep, PTL DEF Spec

(* A frame that PciRxDma reports without a length error is in its buffer,  *)
(* word by word, with its length and its error mark.                       *)
THEOREM RxFrameIntact == Spec => []FrameIntact
<1>1. RxDmaInv => FrameIntact
  <2> SUFFICES ASSUME RxDmaInv, dma.state = "TR_DONE", ~lost
               PROVE  \E f \in 1 .. Len(frames) :
                        /\ buffer = {<<k - Begin(f), <<f, k>>>> : k \in Begin(f) .. frames[f].len}
                        /\ dma.doneLength = frames[f].len - Begin(f) + 1
                        /\ dma.tran.eofe <=> frames[f].eofe
                              \/ (frames[f].mid > Begin(f) /\ frames[f].mid < frames[f].len)
    BY DEF FrameIntact
  <2>1. PICK ends \in Seq(Mark), cuts \in Seq(Place) : Marks(ends, cuts)
    BY DEF RxDmaInv
  <2>2. PICK m : m = ends[1]
    OBVIOUS
  <2>3. /\ m.last = FLen(m.frame) /\ Taken(m.frame) /\ Holds(m.frame, m.last)
        /\ (dma.tran.eofe <=> FrameEofe(m.frame))
    BY <2>1, <2>2 DEF Marks, DmaOK, DmaTrDone, FrameDone
  <2>4. m.frame \in 1 .. Len(frames) /\ m.last = frames[m.frame].len
    BY <2>3, FrameFacts DEF Taken, RxDmaInv
  <2> QED BY <2>3, <2>4 DEF Holds, Image, FrameEofe
<1> QED BY <1>1, RxDmaSafe, PTL

-----------------------------------------------------------------------------
(* A limit that PciRxDma notices while there is room: it is compared after *)
(* each word of a beat but only before the word that goes out with a       *)
(* header, and a transaction is finished in any case.  So the limit must   *)
(* not be one word more than whole transactions, and the buffer must hold  *)
(* the limit rounded up to whole transactions.                             *)
RoomFor(M) ==
    /\ TransLen * (M - 1) + 1 < MaxFrame /\ MaxFrame <= TransLen * M
    /\ TransLen * M <= BufWords

(* How far PciRxDma has come in the buffer. *)
Addresses ==
    /\ dma.state \in {"READ_TRANS", "HDR", "TR_DONE"} => dma.newAddr = dma.doneLength
    /\ dma.state \in {"READ_TRANS", "HDR"} => NoError
    /\ dma.state = "HDR" => /\ dma.tran.length \in 1 .. TransLen
                            /\ dma.tran.eof \/ dma.tran.length = TransLen
    /\ dma.state = "COLLECT" => dma.put = dma.doneLength /\ dma.doneLength <= dma.newAddr

Room(M) ==
    /\ dma.state \in {"READ_TRANS", "HDR"} => \E j \in 0 .. M - 1 : dma.doneLength = TransLen * j
    /\ dma.state = "COLLECT" =>
          /\ \E j \in 1 .. M : /\ dma.newAddr <= TransLen * j
                               /\ dma.tran.eof \/ dma.newAddr = TransLen * j
          /\ dma.lengthErr \/ dma.doneLength < MaxFrame
RoomInv(M) == ~lost => Room(M) /\ \A w \in buffer : w[1] < BufWords

(* What the room invariant needs of the main one. *)
LEMMA AddressFacts == RxDmaInv => (~lost => Types /\ Addresses)
<1> SUFFICES ASSUME RxDmaInv, ~lost PROVE Types /\ Addresses
  OBVIOUS
<1>1. PICK ends \in Seq(Mark), cuts \in Seq(Place) : Marks(ends, cuts)
  BY DEF RxDmaInv
<1>2. /\ frames \in [1 .. FrameCnt -> Frame] /\ Types
  BY DEF RxDmaInv
<1>3. PICK m : m = ends[1]
  OBVIOUS
<1>4. cuts[1] \in Place
  <2>1. cuts \in Seq(Place) /\ Len(cuts) = Len(tran) + 1 /\ Len(tran) \in Nat
    BY <1>1, <1>2 DEF Marks, TransOK, Types
  <2> QED BY <2>1
<1>5. PICK z \in Place : z = cuts[1]
  BY <1>4
<1>6. DmaOK(m, z)
  BY <1>1, <1>3, <1>5 DEF Marks
<1>7. dma.state \in {"READ_TRANS", "HDR", "TR_DONE"} => dma.newAddr = dma.doneLength
  BY <1>6 DEF DmaOK, DmaReadTrans, DmaHdr, DmaTrDone
<1>8. dma.state \in {"READ_TRANS", "HDR"} => NoError
  BY <1>6 DEF DmaOK, DmaReadTrans, DmaHdr
<1>9. /\ z.last \in Nat /\ dma.tran.length \in Nat /\ TransLen \in Nat
      /\ dma.doneLength \in Nat /\ dma.newAddr \in Nat
  <2>1. dma \in DmaType /\ dma.tran \in Entry
    BY <1>2 DEF Types, DmaType
  <2> QED BY <2>1, <1>2, FrameFacts DEF Place, DmaType, Entry
<1>10. ASSUME dma.state = "HDR"
       PROVE  dma.tran.length \in 1 .. TransLen /\ (dma.tran.eof \/ dma.tran.length = TransLen)
  <2> DEFINE s == Start(dma.tran, z)
  <2>1. TranShape(dma.tran, z)
    BY <1>6, <1>10 DEF DmaOK, DmaHdr, TranOK
  <2>2. /\ dma.tran.length >= 1 /\ EndsAt(z.frame, s, z.last)
        /\ (dma.tran.eof <=> z.last = frames[z.frame].len)
    BY <2>1 DEF TranShape
  <2>3. s = z.last - dma.tran.length + 1
    BY DEF Start
  <2> HIDE DEF s
  <2>4. z.last \in s .. s + TransLen - 1 /\ (z.last = s + TransLen - 1 \/ dma.tran.eof)
    BY <2>2 DEF EndsAt
  <2> DEFINE l == dma.tran.length  x == z.last
  <2>5. x \in s .. s + TransLen - 1 /\ s = x - l + 1 /\ l \in Nat /\ x \in Nat /\ TransLen \in Nat /\ l >= 1
    BY <2>2, <2>3, <2>4, <1>9
  <2> HIDE DEF l, x
  <2>6. l \in 1 .. TransLen /\ (x = s + TransLen - 1 => l = TransLen)
    BY <2>5
  <2> QED BY <2>4, <2>6 DEF l, x
<1>11. ASSUME dma.state = "COLLECT" PROVE dma.put = dma.doneLength /\ dma.doneLength <= dma.newAddr
  <2>1. /\ dma.put = dma.doneLength /\ m.frame = z.frame /\ m.last < z.last
        /\ m.last = m.start + 4 * dma.cnt /\ m.start = Start(dma.tran, z)
        /\ dma.doneLength = m.last - Begin(m.frame) + 1
        /\ dma.newAddr = z.last - Begin(z.frame) + 1 /\ z.frame \in 1 .. FrameCnt
    BY <1>6, <1>11 DEF DmaOK, DmaCollect, Holds, TranShape
  <2>2. Begin(z.frame) \in Nat /\ m.start \in Int /\ dma.cnt \in Nat
    <3>1. Begin(z.frame) \in Nat
      BY <2>1, <1>2, FrameFacts
    <3>2. dma.cnt \in Nat
      BY <1>2 DEF Types, DmaType
    <3>3. m.start = z.last - dma.tran.length + 1
      BY <2>1 DEF Start
    <3> QED BY <3>1, <3>2, <3>3, <1>9
  <2>3. m.last \in Int
    BY <2>1, <2>2
  <2> QED BY <2>1, <2>2, <2>3, <1>9
<1> QED BY <1>2, <1>7, <1>8, <1>10, <1>11 DEF Addresses

(* Multiples of the transaction size, as facts for the provers. *)
LEMMA Multiples ==
    ASSUME NEW T \in Nat, NEW M \in Nat, NEW j \in Nat
    PROVE  /\ j < M => T * (j + 1) <= T * M /\ T * j <= T * (M - 1)
           /\ T * j < T * M => j < M
           /\ T * (j + 1) = T * j + T /\ T * j \in Nat /\ T * 0 = 0
<1>1. T * (j + 1) = T * j + T /\ T * j \in Nat /\ T * 0 = 0
  OBVIOUS
<1>2. ASSUME j < M PROVE T * (j + 1) <= T * M /\ T * j <= T * (M - 1)
  <2>1. PICK d \in Nat : M = j + 1 + d
    <3>1. M - j - 1 \in Nat /\ M = j + 1 + (M - j - 1)
      BY <1>2
    <3> QED BY <3>1
  <2>2. T * M = T * (j + 1) + T * d /\ T * (M - 1) = T * j + T * d /\ T * d \in Nat
    BY <2>1
  <2> QED BY <2>2, <1>1
<1>3. ASSUME T * j < T * M, ~(j < M) PROVE FALSE
  <2>1. PICK d \in Nat : j = M + d
    <3>1. j - M \in Nat /\ j = M + (j - M)
      BY <1>3
    <3> QED BY <3>1
  <2>2. T * j = T * M + T * d /\ T * d \in Nat /\ T * M \in Nat
    BY <2>1
  <2> QED BY <2>2, <1>3
<1> QED BY <1>1, <1>2, <1>3

(* The word of the header: a transaction starts within the buffer. *)
LEMMA RoomSendHdr ==
    ASSUME NEW M \in Nat, RoomFor(M), Types, Addresses, SendHdr,
           Room(M), \A w \in buffer : w[1] < BufWords
    PROVE  Room(M)' /\ \A w \in buffer' : w[1] < BufWords
<1>1. /\ TransLen \in Nat /\ TransLen > 1 /\ MaxFrame \in Nat /\ BufWords \in Nat
      /\ TransLen * (M - 1) + 1 < MaxFrame /\ TransLen * M <= BufWords
  <2>1. TransLen \in Nat /\ MaxFrame \in Nat /\ BufWords \in Nat /\ TransLen > 1
    BY RxDmaAssumption
  <2> QED BY <2>1 DEF RoomFor
<1>2. /\ dma \in DmaType /\ dma.doneLength \in Nat /\ dma.newAddr \in Nat /\ dma.tran.length \in Nat
  BY DEF Types, DmaType, Entry
<1>3. /\ dma.state = "HDR" /\ dma.newAddr = dma.doneLength /\ ~dma.lengthErr /\ dma.doneLength # MaxFrame
      /\ dma.tran.length \in 1 .. TransLen /\ (dma.tran.eof \/ dma.tran.length = TransLen)
  BY DEF SendHdr, Addresses, NoError
<1>4. PICK j \in 0 .. M - 1 : dma.doneLength = TransLen * j
  BY <1>3 DEF Room
<1>5. j \in Nat /\ j < M /\ j + 1 \in 1 .. M
  BY <1>4
<1>6. /\ TransLen * (j + 1) <= TransLen * M /\ TransLen * j <= TransLen * (M - 1)
      /\ TransLen * (j + 1) = TransLen * j + TransLen /\ TransLen * j \in Nat
  BY <1>1, <1>5, Multiples
<1>7. TransLen * M \in Nat /\ TransLen * (M - 1) \in Int
  <2>1. TransLen \in Int /\ M - 1 \in Int /\ M \in Int
    BY <1>1
  <2>2. \A a, b \in Int : a * b \in Int
    OBVIOUS
  <2> QED BY <2>1, <2>2, <1>1, <1>6
<1> DEFINE w == <<dma.newAddr, Head(data).words[1]>>
<1>8. buffer' = buffer \cup {w}
  BY DEF SendHdr
<1>9. dma' = [dma EXCEPT !.newAddr = dma.newAddr + dma.tran.length, !.put = dma.newAddr + 1,
                         !.doneLength = dma.doneLength + 1, !.lengthErr = FALSE,
                         !.state = dma'.state]
      /\ dma'.state \in {"TR_DONE", "READ_TRANS", "COLLECT"}
      /\ (dma'.state = "READ_TRANS" => dma.tran.length = 1 /\ ~dma.tran.eof)
  <2>1. ~(dma.lengthErr \/ dma.doneLength = MaxFrame)
    BY <1>3
  <2>2. PICK st : /\ st = IF dma.tran.length = 1 /\ (Head(data).last \/ dma.tran.eof) THEN "TR_DONE"
                          ELSE IF dma.tran.length = 1 THEN "READ_TRANS" ELSE "COLLECT"
    OBVIOUS
  <2>3. dma' = [dma EXCEPT !.newAddr = dma.newAddr + dma.tran.length, !.put = dma.newAddr + 1,
                           !.doneLength = dma.doneLength + 1, !.lengthErr = FALSE, !.state = st]
    BY <2>1, <2>2, <1>2 DEF SendHdr
  <2>4. dma'.state = st
    BY <2>3, <1>2 DEF DmaType
  <2> QED BY <2>2, <2>3, <2>4
<1>10. /\ dma'.newAddr = dma.newAddr + dma.tran.length /\ dma'.doneLength = dma.doneLength + 1
       /\ dma'.tran = dma.tran
  BY <1>2, <1>9 DEF DmaType
<1>11. w[1] < BufWords
  <2>1. w[1] = TransLen * j
    BY <1>3, <1>4
  <2>2. TransLen * j < TransLen * M
    BY <1>1, <1>6, <1>7
  <2> QED BY <2>1, <2>2, <1>1, <1>6, <1>7
<1>12. dma'.state # "READ_TRANS"
  BY <1>1, <1>3, <1>9
<1>13. dma'.newAddr <= TransLen * (j + 1) /\ (dma.tran.eof \/ dma'.newAddr = TransLen * (j + 1))
  <2> DEFINE a == dma.newAddr  l == dma.tran.length  t == TransLen * j  u == TransLen * (j + 1)
  <2>1. a = t /\ u = t + TransLen /\ l \in 1 .. TransLen /\ t \in Nat /\ TransLen \in Nat
        /\ dma'.newAddr = a + l /\ (dma.tran.eof \/ l = TransLen)
    BY <1>1, <1>3, <1>4, <1>6, <1>10
  <2> HIDE DEF a, l, t, u
  <2>2. dma'.newAddr <= u /\ (dma.tran.eof \/ dma'.newAddr = u)
    BY <2>1
  <2> QED BY <2>2 DEF u
<1>14. dma'.doneLength < MaxFrame
  <2> DEFINE t == TransLen * j  u == TransLen * (M - 1)
  <2>1. dma'.doneLength = t + 1 /\ t <= u /\ u + 1 < MaxFrame /\ t \in Nat /\ u \in Int /\ MaxFrame \in Nat
    BY <1>1, <1>4, <1>6, <1>7, <1>10
  <2> HIDE DEF t, u
  <2> QED BY <2>1
<1>15. Room(M)'
  <2>1. dma'.state \notin {"READ_TRANS", "HDR"}
    BY <1>9, <1>12
  <2>2. PICK i \in 1 .. M : i = j + 1
    BY <1>5
  <2>3. (\E h \in 1 .. M : dma.newAddr <= TransLen * h /\ (dma.tran.eof \/ dma.newAddr = TransLen * h))'
    BY <2>2, <1>10, <1>13
  <2> QED BY <2>1, <2>3, <1>14 DEF Room
<1> QED BY <1>8, <1>11, <1>15

(* The other words: what is written lies before the end of the transaction. *)
LEMMA RoomCollect ==
    ASSUME NEW M \in Nat, RoomFor(M), Types, Addresses, Addresses', Types', Collect, ~lost',
           Room(M), \A w \in buffer : w[1] < BufWords
    PROVE  Room(M)' /\ \A w \in buffer' : w[1] < BufWords
<1> DEFINE ws == Head(data).words
           k == Len(ws)
           err == dma.lengthErr \/ Reaches(dma.doneLength, k)
           end == dma.cnt = dma.tran.cnt
           state == IF ~end THEN dma.state
                    ELSE IF Head(data).last \/ dma.tran.eof \/ err THEN "TR_DONE" ELSE "READ_TRANS"
<1>1. /\ TransLen \in Nat /\ MaxFrame \in Nat /\ BufWords \in Nat
      /\ MaxFrame <= TransLen * M /\ TransLen * M <= BufWords
  <2>1. TransLen \in Nat /\ MaxFrame \in Nat /\ BufWords \in Nat
    BY RxDmaAssumption
  <2> QED BY <2>1 DEF RoomFor
<1>2. /\ dma \in DmaType /\ dma.doneLength \in Nat /\ dma.newAddr \in Nat /\ dma.put \in Nat
  BY DEF Types, DmaType
<1>3. /\ dma.state = "COLLECT" /\ data # <<>>
      /\ buffer' = buffer \cup {<<dma.put + i - 1, ws[i]>> : i \in 1 .. k}
      /\ dma' = [dma EXCEPT !.put = dma.put + k, !.doneLength = dma.doneLength + k, !.lengthErr = err,
                            !.cnt = dma.cnt + 1, !.state = state]
  BY DEF Collect
<1>4. dma.put = dma.doneLength
  BY <1>3 DEF Addresses
<1>5. k \in Nat
  <2>1. Head(data) \in Data
    BY <1>3 DEF Types
  <2>2. ws \in Seq(Nat \X Nat)
    BY <2>1 DEF Data
  <2> QED BY <2>2
<1>6. PICK j \in 1 .. M : dma.newAddr <= TransLen * j /\ (dma.tran.eof \/ dma.newAddr = TransLen * j)
  BY <1>3 DEF Room
<1>7. dma.lengthErr \/ dma.doneLength < MaxFrame
  BY <1>3 DEF Room
<1> HIDE DEF ws, k, err, end, state
<1>8. /\ dma'.doneLength = dma.doneLength + k /\ dma'.lengthErr = err
      /\ dma'.state = state /\ dma'.tran = dma.tran /\ dma'.newAddr = dma.newAddr
  BY <1>2, <1>3 DEF DmaType
<1>9. /\ dma'.state \in {"COLLECT", "TR_DONE", "READ_TRANS"}
      /\ dma'.state = "READ_TRANS" => ~err /\ ~dma.tran.eof
  BY <1>3, <1>8 DEF state
<1>10. dma'.doneLength <= dma.newAddr
  <2>1. dma'.state = "COLLECT" => dma'.doneLength <= dma'.newAddr
    BY DEF Addresses
  <2>2. dma'.state \in {"TR_DONE", "READ_TRANS"} => dma'.newAddr = dma'.doneLength
    BY DEF Addresses
  <2> QED BY <2>1, <2>2, <1>2, <1>8, <1>9
<1>11. j \in Nat /\ j <= M /\ TransLen * j \in Nat /\ TransLen * j <= TransLen * M /\ TransLen * M \in Nat
  <2>1. j \in Nat /\ j <= M
    BY <1>6
  <2>2. j < M => TransLen * (j + 1) <= TransLen * M
    BY <2>1, <1>1, Multiples
  <2>3. TransLen * (j + 1) = TransLen * j + TransLen /\ TransLen * j \in Nat /\ TransLen * M \in Nat
    BY <2>1, <1>1, Multiples
  <2>4. CASE j = M
    BY <2>1, <2>3, <2>4
  <2>5. CASE j < M
    BY <2>1, <2>2, <2>3, <2>5, <1>1
  <2> QED BY <2>1, <2>3, <2>4, <2>5
<1>12. dma.newAddr <= BufWords
  <2> DEFINE t == TransLen * j  u == TransLen * M
  <2>1. dma.newAddr <= t /\ t <= u /\ u <= BufWords /\ t \in Nat /\ u \in Nat
    BY <1>1, <1>6, <1>11
  <2> HIDE DEF t, u
  <2> QED BY <2>1, <1>1, <1>2
<1>13. ASSUME NEW w \in buffer' PROVE w[1] < BufWords
  <2>1. CASE w \in buffer
    BY <2>1
  <2>2. CASE w \in {<<dma.put + i - 1, ws[i]>> : i \in 1 .. k}
    <3>1. PICK i \in 1 .. k : w = <<dma.put + i - 1, ws[i]>>
      BY <2>2
    <3>2. w[1] = dma.put + i - 1
      BY <3>1
    <3> DEFINE d == dma.doneLength  a == dma.newAddr
    <3>3. w[1] = d + i - 1 /\ d + k <= a /\ a <= BufWords /\ d \in Nat /\ a \in Nat /\ BufWords \in Nat
          /\ i \in 1 .. k /\ k \in Nat
      BY <3>1, <3>2, <1>1, <1>2, <1>4, <1>5, <1>8, <1>10, <1>12
    <3> HIDE DEF d, a
    <3> QED BY <3>3
  <2> QED BY <2>1, <2>2, <1>3
(* The limit was not passed unnoticed. *)
<1>14. err \/ dma'.doneLength < MaxFrame
  <2> SUFFICES ASSUME ~err PROVE dma'.doneLength < MaxFrame
    OBVIOUS
  <2> DEFINE d == dma.doneLength
  <2>1. d < MaxFrame /\ ~Reaches(d, k)
    BY <1>7 DEF err
  <2>2. \A i \in 1 .. k : d + i # MaxFrame
    BY <2>1 DEF Reaches
  <2>3. d \in Nat /\ dma'.doneLength = d + k
    BY <1>2, <1>8
  <2> HIDE DEF d
  <2>4. ASSUME d + k >= MaxFrame PROVE FALSE
    <3>1. MaxFrame - d \in 1 .. k /\ d + (MaxFrame - d) = MaxFrame
      BY <2>1, <2>3, <2>4, <1>1, <1>5
    <3> QED BY <3>1, <2>2
  <2> QED BY <2>3, <2>4, <1>1, <1>5
<1>15. ASSUME dma'.state = "READ_TRANS" PROVE \E i \in 0 .. M - 1 : dma'.doneLength = TransLen * i
  <2>1. dma'.doneLength = TransLen * j
    <3>1. dma'.newAddr = dma'.doneLength
      BY <1>15 DEF Addresses
    <3> QED BY <3>1, <1>6, <1>8, <1>9, <1>15
  <2>2. dma'.doneLength < MaxFrame
    BY <1>9, <1>14, <1>15
  <2>3. j < M
    <3> DEFINE t == TransLen * j  u == TransLen * M
    <3>1. t < MaxFrame /\ MaxFrame <= u /\ t \in Nat /\ u \in Nat
      BY <2>1, <2>2, <1>1, <1>11
    <3> HIDE DEF t, u
    <3>2. t < u
      BY <3>1, <1>1
    <3>3. TransLen * j < TransLen * M
      BY <3>2 DEF t, u
    <3> QED BY <3>3, <1>1, <1>11, Multiples
  <2>4. j \in 0 .. M - 1
    BY <2>3, <1>11
  <2> QED BY <2>1, <2>4
<1>16. Room(M)'
  <2>1. (dma.state \in {"READ_TRANS", "HDR"} => \E i \in 0 .. M - 1 : dma.doneLength = TransLen * i)'
    BY <1>9, <1>15
  <2>2. (\E i \in 1 .. M : dma.newAddr <= TransLen * i /\ (dma.tran.eof \/ dma.newAddr = TransLen * i))'
    BY <1>6, <1>8
  <2>3. (dma.lengthErr \/ dma.doneLength < MaxFrame)'
    BY <1>8, <1>14
  <2> QED BY <2>1, <2>2, <2>3 DEF Room
<1> QED BY <1>13, <1>16

(* Every step keeps the words of a frame within the transactions its *)
(* buffer has room for.                                              *)
LEMMA RoomStep ==
    ASSUME NEW M \in Nat, RoomFor(M)
    PROVE  /\ RoomInv(M) /\ (~lost => Types /\ Addresses) /\ (~lost => Types /\ Addresses)' /\ [Next]_vars
           => RoomInv(M)'
<1> SUFFICES ASSUME RoomInv(M), ~lost => Types /\ Addresses, (~lost => Types /\ Addresses)',
                    [Next]_vars, ~lost'
             PROVE  Room(M)' /\ \A w \in buffer' : w[1] < BufWords
  BY DEF RoomInv
<1>1. ~lost
  BY DEF Next, vars, DropWord, FirstWord, SendWord, Idle, AckWait, ReadTrans, SendHdr, Collect, TrDone
<1>2. Types /\ Addresses /\ Types' /\ Addresses' /\ Room(M) /\ \A w \in buffer : w[1] < BufWords
  BY <1>1 DEF RoomInv
<1>3. CASE DropWord \/ FirstWord \/ SendWord \/ UNCHANGED vars
  <2>1. dma' = dma /\ buffer' = buffer
    BY <1>3 DEF DropWord, FirstWord, SendWord, vars
  <2> QED BY <2>1, <1>2 DEF Room
<1>4. CASE Idle \/ TrDone
  <2>1. dma'.state \notin {"READ_TRANS", "HDR", "COLLECT"} /\ buffer' = buffer
    BY <1>2, <1>4 DEF Idle, TrDone, Types, DmaType
  <2> QED BY <2>1, <1>2 DEF Room
<1>5. CASE AckWait
  <2>1. dma'.state = "READ_TRANS" /\ dma'.doneLength = 0 /\ buffer' = {}
    BY <1>2, <1>5 DEF AckWait, Types, DmaType
  <2>2. TransLen * 0 = 0 /\ 0 \in 0 .. M - 1
    <3>1. TransLen \in Nat /\ MaxFrame \in Nat /\ MaxFrame # 0 /\ TransLen * 0 = 0
      BY RxDmaAssumption
    <3>2. M # 0
      BY <3>1 DEF RoomFor
    <3> QED BY <3>1, <3>2
  <2> QED BY <2>1, <2>2 DEF Room
<1>6. CASE ReadTrans
  <2>1. dma'.state = "HDR" /\ dma'.doneLength = dma.doneLength /\ dma.state = "READ_TRANS" /\ buffer' = buffer
    BY <1>2, <1>6 DEF ReadTrans, Types, DmaType
  <2> QED BY <2>1, <1>2 DEF Room
<1>7. CASE SendHdr
  BY <1>2, <1>7, RoomSendHdr
<1>8. CASE Collect
  BY <1>2, <1>8, RoomCollect
<1> QED BY <1>3, <1>4, <1>5, <1>6, <1>7, <1>8 DEF Next

(* Nothing is written behind the end of a buffer, when the limit is one    *)
(* that is noticed in time.                                                *)
THEOREM RxWithinBuffer ==
    ASSUME NEW M \in Nat, RoomFor(M)
    PROVE  Spec => []WithinBuffer
<1>1. Init => RoomInv(M)
  BY DEF Init, RoomInv, Room
<1>2. /\ RoomInv(M) /\ (~lost => Types /\ Addresses) /\ (~lost => Types /\ Addresses)' /\ [Next]_vars
      => RoomInv(M)'
  BY RoomStep
<1>3. RoomInv(M) => WithinBuffer
  BY DEF RoomInv, WithinBuffer
<1>4. RxDmaInv => (~lost => Types /\ Addresses)
  BY AddressFacts
<1> QED BY <1>1, <1>2, <1>3, <1>4, RxDmaSafe, PTL DEF Spec
=============================================================================
