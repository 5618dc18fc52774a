----------------------------- MODULE PciDonePoll -----------------------------
(***************************************************************************)
(* How PciTxDesc and PciRxDesc collect finished transfers, clock by clock. *)
(* A DMA channel raises doneReq and keeps it up until it sees doneAck.  A  *)
(* poller looks at one channel per clock, round robin; on a request it     *)
(* raises doneAck and the write enable of the done FIFO, both registers    *)
(* that the rest of the card sees one clock later.  So for one more clock  *)
(* the request it has just served is still up: PciTxDesc does not poll     *)
(* while it writes its FIFO, PciRxDesc has moved on to the next channel.   *)
(***************************************************************************)
EXTENDS Integers

CONSTANTS DMA_SIZE,     \* number of DMA channels
          AFullThres,   \* level at which the done FIFO reports that it is (almost) full
          MaxDone       \* bound: transfers each channel finishes

(* PciRxDesc relies on having more than one channel. *)
ASSUME PollAssumption ==
    /\ DMA_SIZE \in Nat /\ DMA_SIZE >= 2
    /\ AFullThres \in Nat \ {0}
    /\ MaxDone \in Nat

VARIABLES
    kind,         \* which of the two pollers this is: "tx" or "rx"
    doneReq,      \* request line of each channel
    doneAck,      \* channels whose acknowledge line is up
    doneCnt,      \* the channel to look at next
    fifoWr,       \* write enable of the done FIFO
    level,        \* entries in the done FIFO
    countReset,   \* bit of the card's reset register, set and cleared by an ioctl
    finished,     \* history: transfers each channel has finished
    accepted,     \* history: requests the poller took from each channel
    passed        \* history: requests of others it took while the channel waited

vars == <<kind, doneReq, doneAck, doneCnt, fifoWr, level, countReset, finished, accepted, passed>>

Channels == 0 .. (DMA_SIZE - 1)

TypeOK ==
    /\ kind \in {"tx", "rx"}
    /\ doneReq \in [Channels -> BOOLEAN]
    /\ doneAck \in SUBSET Channels
    /\ doneCnt \in Channels
    /\ fifoWr \in BOOLEAN
    /\ level \in Nat
    /\ countReset \in BOOLEAN
    /\ finished \in [Channels -> 0 .. MaxDone]
    /\ accepted \in [Channels -> Nat]
    /\ passed \in [Channels -> Nat]

Init ==
    /\ kind \in {"tx", "rx"}
    /\ doneReq = [l \in Channels |-> FALSE]
    /\ doneAck = {}
    /\ doneCnt = 0
    /\ fifoWr = FALSE
    /\ level = 0
    /\ countReset = FALSE
    /\ finished = [l \in Channels |-> 0]
    /\ accepted = [l \in Channels |-> 0]
    /\ passed = [l \in Channels |-> 0]

Bit(b) == IF b THEN 1 ELSE 0

(* A request that the poller has not taken yet. *)
Waiting(l) == doneReq[l] /\ l \notin doneAck

(* Mutant: the almost-full flag is ignored. *)
Polling_NoAFull == ~countReset /\ (kind = "tx" => ~fifoWr)

(* The poller is not held off by a full FIFO, by a counter reset or (tx)   *)
(* by its own write.                                                       *)
Polling == /\ ~countReset
           /\ level < AFullThres
           /\ kind = "tx" => ~fifoWr

Hit == Polling /\ doneReq[doneCnt]

(* Mutants: the pointer is not advanced, not wrapped, wrapped one channel  *)
(* too early, or restarts at channel 0 after each request.                 *)
NextChannel_Stay(c) == c
NextChannel_NoWrap(c) == c + 1
NextChannel_Short(c) == IF c = DMA_SIZE - 2 THEN 0 ELSE c + 1
NextChannel_Restart(c) == IF doneReq[c] \/ c = DMA_SIZE - 1 THEN 0 ELSE c + 1

NextChannel(c) == IF c = DMA_SIZE - 1 THEN 0 ELSE c + 1

(* One rising edge of pciClk.  The channels in fin finish a transfer, the  *)
(* driver reads the done FIFO (rd) and leaves the reset bit at rst.        *)
Clock(fin, rd, rst) ==
    /\ rd => level > 0
    /\ doneReq' = [l \in Channels |-> l \in fin \/ Waiting(l)]
    /\ doneAck' = IF Hit THEN {doneCnt} ELSE {}
    /\ fifoWr' = Hit
    /\ doneCnt' = IF Polling THEN NextChannel(doneCnt) ELSE doneCnt
    /\ level' = level + Bit(fifoWr) - Bit(rd)
    /\ countReset' = rst
    /\ finished' = [l \in Channels |-> finished[l] + Bit(l \in fin)]
    /\ accepted' = [l \in Channels |-> accepted[l] + Bit(Hit /\ l = doneCnt)]
    /\ passed' = [l \in Channels |->
                     IF ~Waiting(l) THEN 0
                     ELSE passed[l] + Bit(Hit /\ l # doneCnt)]
    /\ UNCHANGED kind

CanFinish == {l \in Channels : ~doneReq[l] /\ finished[l] < MaxDone}

Next == \E fin \in SUBSET CanFinish, rd \in BOOLEAN, rst \in BOOLEAN : Clock(fin, rd, rst)

Spec == Init /\ [][Next]_vars

(* The clock runs, the handler keeps reading the done FIFO while there is  *)
(* something in it, and the ioctl that sets the reset bit clears it again. *)
Fairness ==
    /\ WF_vars(Next)
    /\ SF_vars(\E fin \in SUBSET CanFinish, rst \in BOOLEAN : Clock(fin, TRUE, rst))
    /\ SF_vars(\E fin \in SUBSET CanFinish, rd \in BOOLEAN : Clock(fin, rd, FALSE))

FairSpec == Spec /\ Fairness

-----------------------------------------------------------------------------
(* Every finished transfer is reported exactly once: the poller has taken  *)
(* one request per transfer, except the one that still waits.              *)
DoneOnce ==
    \A l \in Channels : accepted[l] = finished[l] - Bit(Waiting(l))

(* No channel is overtaken: while it waits, each other channel is served   *)
(* at most once.                                                           *)
NoOvertake == \A l \in Channels : passed[l] <= DMA_SIZE - 1

(* What is in the FIFO or on its way never exceeds the threshold by more   *)
(* than the one write that the poller of PciRxDesc has in flight.          *)
FifoBound ==
    level + Bit(fifoWr) <= AFullThres + Bit(kind = "rx")

(* Every request is taken in the end. *)
DoneServed == \A l \in Channels : doneReq[l] ~> ~doneReq[l]
=============================================================================
