----------------------------- MODULE BufferRing -----------------------------
(***************************************************************************)
(* What the driver's txQueue and rxQueue promise: a ring of pointers to    *)
(* DMA buffers with one producer (the interrupt handler) and one consumer  *)
(* (PgpCard_Write for txQueue, PgpCard_Read for rxQueue), neither of which *)
(* takes a lock.                                                           *)
(*                                                                         *)
(* The ring of Cardinality(Bufs) buffers has two entries more than it has  *)
(* buffers (DEF_TX_BUF_CNT + 2, DEF_RX_BUF_CNT + 2).  The consumer hands   *)
(* the buffer of its entry to the card first and advances its pointer      *)
(* afterwards, so a buffer can complete and be queued again while its old  *)
(* entry still counts as used: that is what the second spare entry is for. *)
(***************************************************************************)
EXTENDS Integers, FiniteSets

CONSTANTS Bufs,   \* the DMA buffers of one direction
          NoBuf   \* content of an entry that was never written

ASSUME RingAssumption == IsFiniteSet(Bufs) /\ NoBuf \notin Bufs

VARIABLES slots,     \* txQueue / rxQueue
          read,      \* txRead  / rxRead
          write,     \* txWrite / rxWrite
          out,       \* the buffers that are not queued: in the card or in the handler's hands
          released   \* the consumer gave slots[read] away and has not advanced yet

ringVars == <<slots, read, write, out, released>>

Count == Cardinality(Bufs)
(* Mutant: only one spare entry. *)
Size_OneSpare == Count + 1

Size  == Count + 2
Index == 0 .. (Size - 1)

(* Mutant: the pointer is not wrapped. *)
Succ_NoWrap(i) == i + 1

(* The pointer increment of producer and consumer. *)
Succ(i) == (i + 1) % Size

(* How many entries i is ahead of j. *)
Dist(i, j) == (i - j) % Size

(* The entries between the read and the write pointer, and those among them *)
(* whose buffer the consumer has not given away.                            *)
Used      == Dist(write, read)
InUse(i)  == Dist(i, read) < Used
IsLive(i) == InUse(i) /\ ~(released /\ i = read)

-----------------------------------------------------------------------------
(* PgpCard_Probe leaves the TX ring full and the RX ring empty. *)
InitFull ==
    /\ out = {}
    /\ write = Count
    /\ slots \in [Index -> Bufs \cup {NoBuf}]
    /\ \A i \in 0 .. (Count - 1) : slots[i] # NoBuf
    /\ \A i, j \in 0 .. (Count - 1) : slots[i] = slots[j] => i = j

InitEmpty ==
    /\ out = Bufs
    /\ write = 0
    /\ slots = [i \in Index |-> NoBuf]

Init == /\ read = 0
        /\ released = FALSE
        /\ InitFull \/ InitEmpty

(* Producer: store a completed buffer in the entry the write pointer names. *)
Fill(b) ==
    /\ b \in out
    /\ slots' = [slots EXCEPT ![write] = b]
    /\ UNCHANGED <<read, write, out, released>>

(* Mutant: the write pointer is not advanced. *)
Publish_NoStep ==
    /\ slots[write] \in out
    /\ out' = out \ {slots[write]}
    /\ UNCHANGED <<slots, read, write, released>>

(* Producer: make that entry visible. *)
Publish ==
    /\ slots[write] \in out
    /\ write' = Succ(write)
    /\ out' = out \ {slots[write]}
    /\ UNCHANGED <<slots, read, released>>

(* Mutant: the buffer of one entry can be given to the card twice. *)
Release_Again ==
    /\ read # write
    /\ released' = TRUE
    /\ out' = out \cup {slots[read]}
    /\ UNCHANGED <<slots, read, write>>

(* Consumer: give the buffer of the oldest entry to the card. *)
Release ==
    /\ read # write
    /\ ~released
    /\ released' = TRUE
    /\ out' = out \cup {slots[read]}
    /\ UNCHANGED <<slots, read, write>>

(* Mutant: the read pointer is not advanced. *)
Advance_NoStep ==
    /\ released
    /\ released' = FALSE
    /\ UNCHANGED <<slots, read, write, out>>

(* Consumer: retire the entry. *)
Advance ==
    /\ released
    /\ released' = FALSE
    /\ read' = Succ(read)
    /\ UNCHANGED <<slots, write, out>>

Next == (\E b \in Bufs : Fill(b)) \/ Publish \/ Release \/ Advance

Spec == Init /\ [][Next]_ringVars

-----------------------------------------------------------------------------
TypeOK ==
    /\ slots \in [Index -> Bufs \cup {NoBuf}]
    /\ read \in Index
    /\ write \in Index
    /\ out \in SUBSET Bufs
    /\ released \in BOOLEAN

(* The driver's collision warnings ("Tx queue pointer collision") can never *)
(* be printed: whenever the handler holds a buffer that it may queue, the   *)
(* advanced write pointer differs from the read pointer.                    *)
NoCollision == out # {} => Succ(write) # read

(* No buffer is queued twice, and none is queued while the card owns it:    *)
(* the consumer never writes into, or hands out, memory the card is using.  *)
NoAliasing ==
    /\ \A i \in Index : IsLive(i) => slots[i] \in Bufs \ out
    /\ \A i, j \in Index : IsLive(i) /\ IsLive(j) /\ slots[i] = slots[j] => i = j

(* No buffer is lost: each one is queued or out.                            *)
NoLeak == \A b \in Bufs : b \in out \/ \E i \in Index : IsLive(i) /\ slots[i] = b

(* The entries in use and the unqueued buffers add up to all buffers; a     *)
(* released entry is counted once more until it is retired.                 *)
Conservation ==
    /\ Used + Cardinality(out) = Count + (IF released THEN 1 ELSE 0)
    /\ released => Used > 0

(* What is visible to Poll stays visible: a ring that is not empty becomes  *)
(* empty only because the consumer retires an entry, never because the      *)
(* producer's pointer runs into the consumer's.                             *)
StaysReadable == [][read # write /\ read' = read => read' # write']_ringVars

RingInv == TypeOK /\ NoAliasing /\ NoLeak /\ Conservation
=============================================================================
