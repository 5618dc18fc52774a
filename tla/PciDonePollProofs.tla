-------------------------- MODULE PciDonePollProofs --------------------------
(***************************************************************************)
(* The done poller for any number of channels (at least two), any FIFO     *)
(* threshold and any number of transfers.                                  *)
(***************************************************************************)
EXTENDS PciDonePoll, TLAPS

(* How many polls away channel l is from channel c. *)
Ahead(l, c) == IF l >= c THEN l - c ELSE l - c + DMA_SIZE

(* An acknowledged request is the one just behind the pointer, and its     *)
(* FIFO write is under way.                                                *)
AckBehind == \A a \in doneAck : doneReq[a] /\ fifoWr /\ doneCnt = NextChannel(a)

(* A waiting channel is overtaken at most once per poll that is left       *)
(* before its turn comes.                                                  *)
TurnComes == \A l \in Channels : Waiting(l) => passed[l] + Ahead(l, doneCnt) <= DMA_SIZE - 1

PollInv == TypeOK /\ AckBehind /\ DoneOnce /\ NoOvertake /\ TurnComes /\ FifoBound

(* The pointer stays in range and never stays where it is.                 *)
LEMMA NextChannelType ==
    ASSUME NEW c \in Channels
    PROVE  NextChannel(c) \in Channels /\ NextChannel(c) # c
BY PollAssumption DEF NextChannel, Channels

(* Another channel is between 0 and DMA_SIZE - 1 polls away. *)
LEMMA AheadType ==
    ASSUME NEW l \in Channels, NEW c \in Channels
    PROVE  Ahead(l, c) \in 0 .. (DMA_SIZE - 1)
<1>1. CASE l >= c
  BY <1>1, PollAssumption DEF Ahead, Channels
<1>2. CASE l < c
  BY <1>2, PollAssumption DEF Ahead, Channels
<1> QED BY <1>1, <1>2, PollAssumption DEF Channels

(* The initial state satisfies the invariant. *)
LEMMA PollInit == Init => PollInv
<1> USE PollAssumption
<1> SUFFICES ASSUME Init PROVE PollInv
  OBVIOUS
<1>1. TypeOK
  <2>1. doneReq \in [Channels -> BOOLEAN]
    BY Zenon DEF Init
  <2>2. finished \in [Channels -> 0 .. MaxDone]
    BY DEF Init
  <2>3. accepted \in [Channels -> Nat] /\ passed \in [Channels -> Nat]
    BY DEF Init
  <2>4. doneCnt \in Channels /\ doneAck \in SUBSET Channels /\ level \in Nat
    BY DEF Init, Channels
  <2>5. fifoWr \in BOOLEAN /\ countReset \in BOOLEAN /\ kind \in {"tx", "rx"}
    BY Zenon DEF Init
  <2> QED BY <2>1, <2>2, <2>3, <2>4, <2>5 DEF TypeOK
<1>2. \A l \in Channels : ~Waiting(l)
  BY DEF Init, Waiting
<1>3. AckBehind /\ TurnComes
  BY <1>2 DEF Init, AckBehind, TurnComes
<1>4. DoneOnce /\ NoOvertake
  BY <1>2 DEF Init, DoneOnce, NoOvertake, Bit
<1>5. FifoBound
  BY DEF Init, FifoBound, Bit
<1> QED BY <1>1, <1>3, <1>4, <1>5 DEF PollInv

(* A clock edge preserves it. *)
LEMMA PollStep ==
    ASSUME PollInv,
           NEW fin \in SUBSET CanFinish, NEW rd \in BOOLEAN, NEW rst \in BOOLEAN,
           Clock(fin, rd, rst)
    PROVE  PollInv'
<1> USE PollAssumption
<1>1. TypeOK /\ AckBehind /\ DoneOnce /\ NoOvertake /\ TurnComes /\ FifoBound
  BY DEF PollInv
<1>2. Hit => doneCnt \notin doneAck
  BY <1>1, NextChannelType DEF AckBehind, TypeOK
<1>3. Hit => Waiting(doneCnt)
  BY <1>2 DEF Hit, Waiting
<1>4. fin \subseteq Channels /\ \A l \in fin : ~doneReq[l] /\ finished[l] < MaxDone
  BY DEF CanFinish
<1>5. doneCnt \in Channels /\ doneCnt' \in Channels
  BY <1>1, NextChannelType DEF TypeOK, Clock
<1>6. \A l \in Channels : Waiting(l)' <=> (l \in fin \/ Waiting(l)) /\ ~(Hit /\ l = doneCnt)
  BY <1>5 DEF Waiting, Clock
<1>7. TypeOK'
  <2>1. level' \in Nat
    BY <1>1 DEF TypeOK, Clock, Bit
  <2>2. finished' \in [Channels -> 0 .. MaxDone]
    BY <1>1, <1>4 DEF TypeOK, Clock, Bit
  <2>3. accepted' \in [Channels -> Nat] /\ passed' \in [Channels -> Nat]
    BY <1>1 DEF TypeOK, Clock, Bit
  <2>4. doneReq' \in [Channels -> BOOLEAN]
    BY Zenon DEF Clock, Waiting
  <2>5. doneAck' \in SUBSET Channels
    BY <1>5 DEF Clock
  <2>6. fifoWr' \in BOOLEAN
    BY Zenon DEF Clock, Hit
  <2>7. countReset' \in BOOLEAN /\ kind' \in {"tx", "rx"}
    BY <1>1 DEF TypeOK, Clock
  <2> QED BY <1>5, <2>1, <2>2, <2>3, <2>4, <2>5, <2>6, <2>7 DEF TypeOK
<1>8. AckBehind'
  <2> SUFFICES ASSUME NEW a \in doneAck'
               PROVE  doneReq'[a] /\ fifoWr' /\ doneCnt' = NextChannel(a)
    BY DEF AckBehind, NextChannel
  <2>1. Hit /\ a = doneCnt
    BY DEF Clock
  <2>2. doneReq'[a]
    BY <1>3, <1>5, <2>1 DEF Clock
  <2> QED BY <2>1, <2>2 DEF Clock, Hit
<1>9. DoneOnce'
  <2> SUFFICES ASSUME NEW l \in Channels
               PROVE  accepted'[l] = finished'[l] - Bit(Waiting(l)')
    BY DEF DoneOnce, Waiting
  <2>1. accepted[l] = finished[l] - Bit(Waiting(l))
        /\ accepted[l] \in Nat /\ finished[l] \in Nat
    BY <1>1 DEF DoneOnce, TypeOK
  <2>2. /\ accepted'[l] = accepted[l] + Bit(Hit /\ l = doneCnt)
        /\ finished'[l] = finished[l] + Bit(l \in fin)
    BY DEF Clock
  <2>3. l \in fin => ~Waiting(l)
    BY <1>4 DEF Waiting
  <2>4. CASE Hit /\ l = doneCnt
    <3>1. Waiting(l) /\ ~Waiting(l)' /\ l \notin fin
      BY <1>3, <1>6, <2>3, <2>4
    <3> QED BY <2>1, <2>2, <2>4, <3>1 DEF Bit
  <2>5. CASE ~(Hit /\ l = doneCnt)
    BY <1>6, <2>1, <2>2, <2>3, <2>5 DEF Bit
  <2> QED BY <2>4, <2>5
<1>10. TurnComes' /\ NoOvertake'
  <2> SUFFICES ASSUME NEW l \in Channels
               PROVE  /\ Waiting(l)' => passed'[l] + Ahead(l, doneCnt') <= DMA_SIZE - 1
                      /\ passed'[l] <= DMA_SIZE - 1
    BY DEF TurnComes, NoOvertake, Waiting, Ahead
  <2>1. passed'[l] = IF ~Waiting(l) THEN 0
                     ELSE passed[l] + Bit(Hit /\ l # doneCnt)
    BY DEF Clock
  <2>2. passed[l] \in Nat
    BY <1>1 DEF TypeOK
  <2>3. Ahead(l, doneCnt') \in 0 .. (DMA_SIZE - 1)
    BY <1>5, AheadType
  <2>4. CASE ~Waiting(l)
    BY <2>1, <2>3, <2>4
  <2>5. CASE Waiting(l) /\ ~Polling
    <3>1. doneCnt' = doneCnt /\ ~Hit
      BY <2>5 DEF Clock, Hit
    <3>2. Ahead(l, doneCnt') = Ahead(l, doneCnt)
      BY <3>1 DEF Ahead
    <3>3. passed'[l] = passed[l] /\ passed[l] + Ahead(l, doneCnt) <= DMA_SIZE - 1
      BY <1>1, <2>1, <2>2, <2>5, <3>1 DEF TurnComes, Bit
    <3> QED BY <2>2, <2>3, <3>2, <3>3
  <2>6. CASE Waiting(l) /\ Polling /\ l = doneCnt
    <3>1. Hit /\ ~Waiting(l)'
      BY <1>6, <2>6 DEF Hit, Waiting
    <3>2. passed'[l] = passed[l]
      BY <2>1, <2>2, <2>6 DEF Bit
    <3> QED BY <1>1, <3>1, <3>2 DEF NoOvertake
  <2>7. CASE Waiting(l) /\ Polling /\ l # doneCnt
    <3>1. doneCnt' = NextChannel(doneCnt)
      BY <2>7 DEF Clock
    <3>2. Ahead(l, doneCnt) = Ahead(l, doneCnt') + 1
      BY <1>5, <2>7, <3>1 DEF Ahead, NextChannel, Channels
    <3>3. passed'[l] <= passed[l] + 1 /\ passed'[l] \in Nat
      BY <2>1, <2>2, <2>7 DEF Bit
    <3>4. passed[l] + Ahead(l, doneCnt) <= DMA_SIZE - 1
      BY <1>1, <2>7 DEF TurnComes
    <3> QED BY <2>2, <2>3, <3>2, <3>3, <3>4
  <2> QED BY <2>4, <2>5, <2>6, <2>7
<1>11. FifoBound'
  <2>1. level \in Nat /\ level' \in Nat /\ kind' = kind
    BY <1>1, <1>7 DEF TypeOK, Clock
  <2>2. level' <= level + Bit(fifoWr) /\ Bit(fifoWr) \in 0 .. 1
    BY <2>1 DEF Clock, Bit
  <2> SUFFICES level' + Bit(fifoWr') <= AFullThres + Bit(kind = "rx")
    BY <2>1 DEF FifoBound
  <2>3. CASE Hit
    <3>1. level < AFullThres /\ (kind = "tx" => ~fifoWr)
      BY <2>3 DEF Hit, Polling
    <3>2. Bit(fifoWr) <= Bit(kind = "rx")
      BY <1>1, <3>1 DEF TypeOK, Bit
    <3>3. Bit(fifoWr') \in 0 .. 1 /\ Bit(kind = "rx") \in 0 .. 1
      BY DEF Bit
    <3> QED BY <2>1, <2>2, <3>1, <3>2, <3>3
  <2>4. CASE ~Hit
    <3>1. Bit(fifoWr') = 0
      BY <2>4 DEF Clock, Bit
    <3>2. level + Bit(fifoWr) <= AFullThres + Bit(kind = "rx")
      BY <1>1 DEF FifoBound
    <3>3. Bit(kind = "rx") \in 0 .. 1
      BY DEF Bit
    <3> QED BY <2>1, <2>2, <3>1, <3>2, <3>3
  <2> QED BY <2>3, <2>4
<1> QED BY <1>7, <1>8, <1>9, <1>10, <1>11 DEF PollInv

(* The invariant holds in every reachable state. *)
THEOREM PollSafe == Spec => []PollInv
<1>1. PollInv /\ UNCHANGED vars => PollInv'
  BY DEF PollInv, vars, TypeOK, AckBehind, DoneOnce, NoOvertake, TurnComes, FifoBound,
         Waiting, Ahead, NextChannel
<1>2. PollInv /\ [Next]_vars => PollInv'
  BY <1>1, PollStep DEF Next
<1> QED BY PollInit, <1>2, PTL DEF Spec

(* The poller's counter, its request lines and its FIFO keep their types.  *)
THEOREM PollTypes == Spec => []TypeOK
<1>1. PollInv => TypeOK
  BY DEF PollInv
<1> QED BY <1>1, PollSafe, PTL

(* Every finished transfer is reported exactly once by either poller.      *)
THEOREM PollDoneOnce == Spec => []DoneOnce
<1>1. PollInv => DoneOnce
  BY DEF PollInv
<1> QED BY <1>1, PollSafe, PTL

(* While a channel waits each other channel is served at most once.        *)
THEOREM PollNoOvertake == Spec => []NoOvertake
<1>1. PollInv => NoOvertake
  BY DEF PollInv
<1> QED BY <1>1, PollSafe, PTL

(* The done FIFO never grows past its threshold by more than the write in  *)
(* flight, so a FIFO with one entry above the threshold never overflows.   *)
THEOREM PollFifoBound == Spec => []FifoBound
<1>1. PollInv => FifoBound
  BY DEF PollInv
<1> QED BY <1>1, PollSafe, PTL
=============================================================================
