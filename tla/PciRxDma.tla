------------------------------ MODULE PciRxDma ------------------------------
(***************************************************************************)
(* The receive DMA of one lane.  PciRxTransFifo cuts a frame of 32-bit     *)
(* words into transactions of at most TransLen words; it writes the words  *)
(* to a data FIFO (the first one alone, the others four at a time) and one *)
(* entry per transaction to a second FIFO.  PciRxDma takes a buffer per    *)
(* frame and turns each transaction into a memory write.  The two FIFOs    *)
(* have to stay in step.                                                   *)
(*                                                                         *)
(* A word is <<number of the frame, index in it>>.  The continuous mode    *)
(* (contEn) is left out: the driver never sets its bit.                    *)
(***************************************************************************)
EXTENDS Integers, Sequences

CONSTANTS TransLen,    \* PCIE_MAX_RX_TRANS_LENGTH_C (32)
          BufWords,    \* 32-bit words of a receive buffer
          MaxFrame,    \* the maxFrame register
          Lengths,     \* lengths of frames
          Mids,        \* where a frame may have a second SOF mark (0: it has none)
          FrameCnt,    \* bound: frames in a behaviour
          Depth        \* bound: entries of the data FIFO

ASSUME RxDmaAssumption ==
    /\ {TransLen, BufWords, MaxFrame, FrameCnt, Depth} \cup Lengths \subseteq Nat \ {0}
    /\ TransLen > 1 /\ Depth > TransLen \div 4 + 1
    /\ Mids \subseteq Nat \ {1}

(* What Probe writes to the register: the size of a buffer in bytes. *)
DriverMaxFrame == 4 * BufWords

VARIABLES frames,    \* the frames on the lane: [len, sof, mid, eofe]
          at,        \* the word that comes next
          sp,        \* registers of PciRxTransFifo
          data, tran,\* the two FIFOs
          dma,       \* registers of PciRxDma
          buffer,    \* what was written: <<offset in the buffer, word>>
          lost       \* history: a frame was given up with transactions of it left to read

vars == <<frames, at, sp, data, tran, dma, buffer, lost>>

(* A frame starts with a SOF mark unless the link lost it, may contain     *)
(* another one (mid), and may end with an error mark.                      *)
Frame == [len : Lengths, sof : BOOLEAN, mid : Mids, eofe : BOOLEAN]

-----------------------------------------------------------------------------
(* PciRxTransFifo, one word.                                               *)
Word == LET f == frames[at.frame]
        IN  [word |-> <<at.frame, at.idx>>,
             sof  |-> IF at.idx = 1 THEN f.sof ELSE at.idx = f.mid,
             last |-> at.idx = f.len, eofe |-> f.eofe]

NextWord == IF at.idx = frames[at.frame].len THEN [frame |-> at.frame + 1, idx |-> 1]
            ELSE [at EXCEPT !.idx = @ + 1]

Ready == at.frame <= Len(frames) /\ Len(data) < Depth

Beat(ws, sof, last) == [words |-> ws, sof |-> sof, last |-> last]

(* The flag that marks the start of a frame is never cleared, so every     *)
(* transaction carries it.                                                 *)
Tran(len, cnt, eof, eofe) == [sof |-> TRUE, eof |-> eof, eofe |-> eofe, length |-> len, cnt |-> cnt]

(* Between frames a word without SOF is dropped. *)
DropWord ==
    /\ sp.state = "idle" /\ Ready /\ sp.tranEof /\ ~Word.sof
    /\ at' = NextWord
    /\ UNCHANGED <<frames, sp, data, tran, dma, buffer, lost>>

(* Mutant: a new frame does not clear the error mark. *)
FirstEofe_Keep(w) == sp.tranEofe \/ (~sp.tranEof /\ w.sof /\ ~w.last) \/ (w.last /\ w.eofe)

(* The error mark: kept within a frame, set by a second SOF and by EOFE. *)
FirstEofe(w) == \/ ~sp.tranEof /\ (sp.tranEofe \/ (w.sof /\ ~w.last))
                \/ w.last /\ w.eofe

(* The first word of a transaction. *)
FirstWord ==
    /\ sp.state = "idle" /\ Ready /\ (sp.tranEof => Word.sof)
    /\ LET w    == Word
           eofe == FirstEofe(w)
       IN  /\ data' = Append(data, Beat(<<w.word>>, w.sof, w.last))
           /\ tran' = IF w.last THEN Append(tran, Tran(1, sp.tranCnt, TRUE, eofe)) ELSE tran
           /\ sp' = [sp EXCEPT !.tranEof = w.last, !.tranEofe = eofe,
                               !.state = IF w.last THEN "idle" ELSE "send",
                               !.cnt = IF w.last THEN 1 ELSE 2,
                               !.tranCnt = IF w.last THEN @ ELSE 0,
                               !.words = <<>>]
    /\ at' = NextWord
    /\ UNCHANGED <<frames, dma, buffer, lost>>

(* Mutant: the last beat of a transaction is counted too. *)
CntAtEnd_Full(ws) == IF Len(ws) = 4 THEN sp.tranCnt + 1 ELSE sp.tranCnt

(* The last beat of a transaction is not counted, full or not. *)
CntAtEnd(ws) == sp.tranCnt

(* The other words: a beat is written when it holds four words, or at the  *)
(* end of the transaction.                                                 *)
SendWord ==
    /\ sp.state = "send" /\ Ready
    /\ LET w    == Word
           ws   == Append(sp.words, w.word)
           eofe == sp.tranEofe \/ (w.sof /\ ~w.last) \/ (w.last /\ w.eofe)
           end  == sp.cnt = TransLen \/ w.last
       IN  /\ data' = IF end \/ Len(ws) = 4 THEN Append(data, Beat(ws, FALSE, end /\ w.last)) ELSE data
           /\ tran' = IF end THEN Append(tran, Tran(sp.cnt, CntAtEnd(ws), w.last, eofe)) ELSE tran
           /\ sp' = [sp EXCEPT !.tranEof = w.last, !.tranEofe = eofe,
                               !.state = IF end THEN "idle" ELSE "send",
                               !.cnt = IF end THEN 1 ELSE @ + 1,
                               !.tranCnt = IF ~end /\ Len(ws) = 4 THEN @ + 1 ELSE CntAtEnd(ws),
                               !.words = IF Len(ws) = 4 THEN <<>> ELSE ws]
    /\ at' = NextWord
    /\ UNCHANGED <<frames, dma, buffer, lost>>

-----------------------------------------------------------------------------
(* PciRxDma *)

(* A frame starts when both FIFOs show a start; data without one, and      *)
(* transactions without one, are blown off.                                *)
Idle ==
    /\ dma.state = "IDLE"
    /\ \/ /\ tran # <<>> /\ data # <<>> /\ Head(tran).sof /\ Head(data).sof
          /\ dma' = [dma EXCEPT !.state = "ACK_WAIT"] /\ UNCHANGED <<data, tran>>
       \/ /\ data # <<>> /\ ~Head(data).sof
          /\ data' = Tail(data)
          /\ tran' = IF tran # <<>> /\ ~Head(tran).sof THEN Tail(tran) ELSE tran
          /\ UNCHANGED dma
    /\ UNCHANGED <<frames, at, sp, buffer, lost>>

(* A descriptor arrives. *)
AckWait ==
    /\ dma.state = "ACK_WAIT"
    /\ dma' = [dma EXCEPT !.state = "READ_TRANS", !.lengthErr = FALSE, !.newAddr = 0, !.doneLength = 0]
    /\ buffer' = {}
    /\ UNCHANGED <<frames, at, sp, data, tran, lost>>

ReadTrans ==
    /\ dma.state = "READ_TRANS" /\ tran # <<>>
    /\ dma' = [dma EXCEPT !.state = "HDR", !.tran = Head(tran), !.cnt = 0]
    /\ tran' = Tail(tran)
    /\ UNCHANGED <<frames, at, sp, data, buffer, lost>>

(* The header goes out with the first word. *)
SendHdr ==
    /\ dma.state = "HDR" /\ data # <<>>
    /\ LET b   == Head(data)
           err == dma.lengthErr \/ dma.doneLength = MaxFrame
           eof == b.last \/ dma.tran.eof
       IN  /\ data' = Tail(data)
           /\ buffer' = buffer \cup {<<dma.newAddr, b.words[1]>>}
           /\ dma' = [dma EXCEPT !.newAddr = @ + dma.tran.length, !.put = dma.newAddr + 1,
                                 !.doneLength = @ + 1, !.lengthErr = err,
                                 !.state = IF err \/ (dma.tran.length = 1 /\ eof) THEN "TR_DONE"
                                           ELSE IF dma.tran.length = 1 THEN "READ_TRANS"
                                           ELSE "COLLECT"]
           /\ lost' = (lost \/ (err /\ ~dma.tran.eof))
    /\ UNCHANGED <<frames, at, sp, tran>>

(* Mutant: the length before the beat is compared with the limit. *)
Reaches_Before(len, n) == len = MaxFrame

Reaches(len, n) == \E k \in 1 .. n : len + k = MaxFrame

(* The payload.  The length is compared after each word, the transaction   *)
(* is finished in any case.                                                *)
Collect ==
    /\ dma.state = "COLLECT" /\ data # <<>>
    /\ LET b   == Head(data)
           n   == Len(b.words)
           err == dma.lengthErr \/ Reaches(dma.doneLength, n)
           end == dma.cnt = dma.tran.cnt
       IN  /\ data' = Tail(data)
           /\ buffer' = buffer \cup {<<dma.put + k - 1, b.words[k]>> : k \in 1 .. n}
           /\ dma' = [dma EXCEPT !.put = @ + n, !.doneLength = @ + n, !.lengthErr = err, !.cnt = @ + 1,
                                 !.state = IF ~end THEN @
                                           ELSE IF b.last \/ dma.tran.eof \/ err THEN "TR_DONE"
                                           ELSE "READ_TRANS"]
           /\ lost' = (lost \/ (end /\ err /\ ~dma.tran.eof))
    /\ UNCHANGED <<frames, at, sp, tran>>

TrDone ==
    /\ dma.state = "TR_DONE"
    /\ dma' = [dma EXCEPT !.state = "IDLE"]
    /\ UNCHANGED <<frames, at, sp, data, tran, buffer, lost>>

-----------------------------------------------------------------------------
Init ==
    /\ frames \in [1 .. FrameCnt -> Frame]
    /\ at = [frame |-> 1, idx |-> 1]
    /\ sp = [state |-> "idle", cnt |-> 1, tranCnt |-> 0, tranEof |-> TRUE, tranEofe |-> FALSE,
             words |-> <<>>]
    /\ data = <<>> /\ tran = <<>>
    /\ dma = [state |-> "IDLE", tran |-> Tran(1, 0, FALSE, FALSE), cnt |-> 0, newAddr |-> 0, put |-> 0,
              doneLength |-> 0, lengthErr |-> FALSE]
    /\ buffer = {} /\ lost = FALSE

Next == \/ DropWord \/ FirstWord \/ SendWord
        \/ Idle \/ AckWait \/ ReadTrans \/ SendHdr \/ Collect \/ TrDone

Spec == Init /\ [][Next]_vars /\ WF_vars(Next)

-----------------------------------------------------------------------------
(* A frame begins with its first SOF mark. *)
Begin(f) == IF frames[f].sof THEN 1 ELSE frames[f].mid

(* A frame that is reported without a length error is in its buffer, every *)
(* word of it and nothing else, with its length and its error mark: the    *)
(* two FIFOs stay in step, whatever frames came before, also over-long     *)
(* ones, unless one of these was given up with transactions left to read.  *)
FrameIntact ==
    dma.state = "TR_DONE" /\ ~dma.lengthErr /\ ~lost =>
        \E f \in 1 .. Len(frames) :
            /\ buffer = {<<k - Begin(f), <<f, k>>>> : k \in Begin(f) .. frames[f].len}
            /\ dma.doneLength = frames[f].len - Begin(f) + 1
            /\ dma.tran.eofe <=> frames[f].eofe \/ (frames[f].mid > Begin(f) /\ frames[f].mid < frames[f].len)

(* "Max Frame Length, dwords, 1 based": nothing is written behind the end  *)
(* of a buffer, unless a frame was given up with transactions left to read.*)
(* Which limits this holds for is a matter of MaxFrame: a limit of one word*)
(* more than a whole number of transactions is never noticed.              *)
WithinBuffer == ~lost => \A w \in buffer : w[1] < BufWords

(* Every frame with a start mark that is shorter than the limit is         *)
(* reported in the end, with its own words, unless a frame before it was   *)
(* given up.                                                               *)
Reported(f) ==
    dma.state = "TR_DONE" /\ ~dma.lengthErr /\ \E w \in buffer : w[2] = <<f, 1>>
EveryFrame ==
    \A f \in 1 .. FrameCnt :
        (at = [frame |-> f, idx |-> 1] /\ frames[f].sof /\ frames[f].len < MaxFrame)
            ~> (Reported(f) \/ lost)
=============================================================================
