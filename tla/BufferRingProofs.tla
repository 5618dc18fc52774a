-------------------------- MODULE BufferRingProofs --------------------------
(***************************************************************************)
(* Proofs about the buffer ring for any number of buffers: RingInv is an   *)
(* inductive invariant, and it implies that the pointers never collide.    *)
(***************************************************************************)
EXTENDS BufferRing, FiniteSetTheorems, TLAPS

(* Remainders of the arguments that the ring's index arithmetic produces.  *)
LEMMA ModSmall ==
    ASSUME NEW S \in Nat, S > 0, NEW x \in 0 .. (S - 1)
    PROVE  x % S = x
OBVIOUS

(* Remainder of a negative argument of at most one turn. *)
LEMMA ModNeg ==
    ASSUME NEW S \in Nat, S > 0, NEW x \in Int, -S <= x, x < 0
    PROVE  x % S = x + S
OBVIOUS

(* The increment of the last index wraps to 0. *)
LEMMA ModWrap ==
    ASSUME NEW S \in Nat, S > 0
    PROVE  S % S = 0
OBVIOUS

(* The ring has at least two entries. *)
LEMMA SizeType == Count \in Nat /\ Size \in Nat /\ Size >= 2 /\ Size = Count + 2
BY RingAssumption, FS_CardinalityType DEF Count, Size

(* The pointer increment without the remainder. *)
LEMMA SuccValue ==
    ASSUME NEW i \in Index
    PROVE  /\ Succ(i) \in Index
           /\ Succ(i) = IF i = Size - 1 THEN 0 ELSE i + 1
<1> USE SizeType
<1>1. CASE i = Size - 1
  BY <1>1, ModWrap DEF Succ, Index
<1>2. CASE i # Size - 1
  <2>1. i + 1 \in 0 .. (Size - 1)
    BY <1>2 DEF Index
  <2>2. (i + 1) % Size = i + 1
    BY <2>1, ModSmall
  <2> QED BY <1>2, <2>1, <2>2 DEF Succ, Index
<1> QED BY <1>1, <1>2

(* The distance between two entries without the remainder. *)
LEMMA DistValue ==
    ASSUME NEW i \in Index, NEW j \in Index
    PROVE  /\ Dist(i, j) \in Index
           /\ Dist(i, j) = IF i >= j THEN i - j ELSE i - j + Size
<1> USE SizeType
<1>1. CASE i >= j
  <2>1. i - j \in 0 .. (Size - 1)
    BY <1>1 DEF Index
  <2> QED BY <1>1, <2>1, ModSmall DEF Dist, Index
<1>2. CASE i < j
  <2>1. i - j \in Int /\ -Size <= i - j /\ i - j < 0
    BY <1>2 DEF Index
  <2>2. (i - j) % Size = i - j + Size
    BY <2>1, ModNeg
  <2> QED BY <1>2, <2>1, <2>2 DEF Dist, Index
<1> QED BY <1>1, <1>2 DEF Index

(* Number of buffers outside the ring. *)
LEMMA OutCount ==
    ASSUME TypeOK
    PROVE  /\ IsFiniteSet(out)
           /\ Cardinality(out) \in 0 .. Count
           /\ out # {} => Cardinality(out) > 0
<1>1. IsFiniteSet(Bufs) /\ out \subseteq Bufs
  BY RingAssumption DEF TypeOK
<1>2. IsFiniteSet(out) /\ Cardinality(out) <= Cardinality(Bufs)
  BY <1>1, FS_Subset
<1>3. Cardinality(out) \in Nat
  BY <1>2, FS_CardinalityType
<1>4. out # {} => Cardinality(out) # 0
  BY <1>2, FS_EmptySet
<1> QED BY <1>2, <1>3, <1>4, SizeType DEF Count

(* The invariant leaves a free entry for every buffer that is out. *)
LEMMA InvNoCollision ==
    ASSUME RingInv
    PROVE  NoCollision
<1> SUFFICES ASSUME out # {}
             PROVE  Succ(write) # read
  BY DEF NoCollision
<1>1. write \in Index /\ read \in Index /\ TypeOK
  BY DEF RingInv, TypeOK
<1>2. Size \in Nat /\ Size = Count + 2 /\ Count \in Nat
  BY SizeType
<1>3. Used \in Index /\ Used = IF write >= read THEN write - read ELSE write - read + Size
  BY <1>1, DistValue DEF Used
<1>4. Used <= Count
  <2>1. Cardinality(out) \in Nat /\ Cardinality(out) > 0
    BY <1>1, <1>2, OutCount
  <2>2. Used + Cardinality(out) = Count + (IF released THEN 1 ELSE 0)
    BY DEF RingInv, Conservation
  <2> QED BY <1>2, <1>3, <2>1, <2>2 DEF Index
<1>5. Succ(write) = IF write = Size - 1 THEN 0 ELSE write + 1
  BY <1>1, SuccValue
<1> QED BY <1>1, <1>2, <1>3, <1>4, <1>5 DEF Index

(* The entry the consumer works on holds a buffer that nobody else has. *)
LEMMA HeadLive ==
    ASSUME RingInv, read # write, ~released
    PROVE  /\ Used > 0 /\ InUse(read) /\ IsLive(read)
           /\ slots[read] \in Bufs \ out
<1>1. read \in Index /\ write \in Index
  BY DEF RingInv, TypeOK
<1>2. Dist(read, read) = 0
  BY <1>1, SizeType, DistValue DEF Index
<1>3. Used = IF write >= read THEN write - read ELSE write - read + Size
  BY <1>1, DistValue DEF Used
<1>4. Used > 0
  BY <1>1, <1>3, SizeType DEF Index
<1>5. InUse(read) /\ IsLive(read)
  BY <1>2, <1>4 DEF InUse, IsLive
<1> QED BY <1>1, <1>4, <1>5 DEF RingInv, NoAliasing

(* A ring filled with Count different buffers holds all of them. *)
LEMMA InitFullOnto ==
    ASSUME InitFull
    PROVE  \A b \in Bufs : \E i \in 0 .. (Count - 1) : slots[i] = b
<1> DEFINE I == 0 .. (Count - 1)
           f == [i \in I |-> slots[i]]
<1>1. f \in Injection(I, Bufs)
  BY SizeType DEF InitFull, Index, Injection, IsInjective
<1>2. IsFiniteSet(I) /\ Cardinality(I) = Count
  BY SizeType, FS_Interval
<1>3. f \in Surjection(I, Bufs)
  BY <1>1, <1>2, RingAssumption, FS_Injection DEF Count
<1> QED BY <1>3 DEF Surjection

(* Both states PgpCard_Probe can leave a queue in satisfy the invariant. *)
LEMMA InitInv == Init => RingInv
<1> SUFFICES ASSUME Init PROVE RingInv
  OBVIOUS
<1> USE SizeType DEF Init
<1>1. CASE InitEmpty
  <2>1. TypeOK
    <3>1. read \in Index /\ write \in Index
      BY <1>1 DEF InitEmpty, Index
    <3> QED BY <1>1, <3>1 DEF InitEmpty, TypeOK
  <2>2. Used = 0
    BY <1>1, <2>1, DistValue DEF InitEmpty, Used, TypeOK
  <2>3. Conservation
    BY <1>1, <2>2 DEF InitEmpty, Conservation, Count
  <2>4. \A i \in Index : ~InUse(i)
    BY <2>1, <2>2, DistValue DEF InUse, TypeOK, Index
  <2>5. NoLeak
    BY <1>1 DEF InitEmpty, NoLeak
  <2> QED BY <2>1, <2>3, <2>4, <2>5 DEF RingInv, NoAliasing, IsLive
<1>2. CASE InitFull
  <2>1. TypeOK
    <3>1. read \in Index /\ write \in Index
      BY <1>2 DEF InitFull, Index
    <3> QED BY <1>2, <3>1 DEF InitFull, TypeOK
  <2>2. Used = Count
    BY <1>2, <2>1, DistValue DEF InitFull, Used, TypeOK, Index
  <2>3. Conservation
    BY <1>2, <2>2, FS_EmptySet DEF InitFull, Conservation
  <2>4. ASSUME NEW i \in Index, IsLive(i)
        PROVE  i \in 0 .. (Count - 1)
    BY <2>1, <2>2, <2>4, DistValue DEF IsLive, InUse, TypeOK, Index
  <2>5. NoAliasing
    BY <1>2, <2>4 DEF NoAliasing, InitFull, Index
  <2>6. NoLeak
    <3>1. ASSUME NEW i \in 0 .. (Count - 1)
          PROVE  i \in Index /\ IsLive(i)
      <4>1. i \in Index /\ read \in Index /\ i >= read /\ i - read = i
        BY <2>1 DEF TypeOK, Index
      <4>2. Dist(i, read) = i
        BY <4>1, DistValue
      <4> QED BY <2>2, <4>1, <4>2 DEF IsLive, InUse
    <3> QED BY <1>2, <3>1, InitFullOnto DEF NoLeak
  <2> QED BY <2>1, <2>3, <2>5, <2>6 DEF RingInv
<1> QED BY <1>1, <1>2

(* How each operation changes the set of live entries and their order,     *)
(* from what it does to the pointers alone: a user of the ring may account *)
(* for the buffers outside it in his own way.                              *)
(* Fill does not touch a live entry.                                       *)
LEMMA FillLive ==
    ASSUME RingInv, NEW b, slots' = [slots EXCEPT ![write] = b], UNCHANGED <<read, write, released>>
    PROVE  \A i \in Index : /\ IsLive(i)' <=> IsLive(i)
                            /\ IsLive(i) => slots'[i] = slots[i]
<1>0. TypeOK /\ read \in Index /\ write \in Index
  BY DEF RingInv, TypeOK
<1>1. \A i \in Index : IsLive(i)' <=> IsLive(i)
  BY DEF IsLive, InUse, Used
<1>2. ~InUse(write)
  BY <1>0, SizeType, DistValue DEF InUse, Used, Index
<1>3. \A i \in Index : IsLive(i) => slots'[i] = slots[i]
  BY <1>0, <1>2 DEF IsLive, TypeOK
<1> QED BY <1>1, <1>3

(* Publish adds the entry at the write pointer behind all others. *)
LEMMA PublishLive ==
    ASSUME RingInv, slots[write] \in out, write' = Succ(write), UNCHANGED <<read, released>>
    PROVE  /\ Used' = Used + 1
           /\ \A i \in Index : /\ IsLive(i)' <=> IsLive(i) \/ i = write
                               /\ IsLive(i) => Dist(i, read) < Dist(write, read)
<1>0. /\ TypeOK /\ Conservation /\ read \in Index /\ write \in Index
      /\ released \in BOOLEAN /\ Used \in Index
  BY DistValue DEF RingInv, TypeOK, Used
<1>s. Size \in Nat /\ Size >= 2 /\ Count \in Nat /\ Size = Count + 2
  BY SizeType
<1>1. slots[write] \in out /\ Succ(write) \in Index /\ Succ(write) # read
  BY <1>0, InvNoCollision, SuccValue DEF NoCollision
<1>2. Succ(write) = IF write = Size - 1 THEN 0 ELSE write + 1
  BY <1>0, SuccValue
<1>3. ASSUME NEW i \in Index
      PROVE  Dist(i, read) = IF i >= read THEN i - read ELSE i - read + Size
  BY <1>0, DistValue
<1>4. Used' = Used + 1
  <2>1. Used' = Dist(Succ(write), read)
    BY DEF Used
  <2> QED BY <1>0, <1>s, <1>1, <1>2, <1>3, <2>1 DEF Used, Index
<1>5. ASSUME NEW i \in Index
      PROVE  InUse(i)' <=> InUse(i) \/ i = write
  <2>1. InUse(i)' <=> Dist(i, read) < Used + 1
    BY <1>4 DEF InUse
  <2> QED BY <1>0, <1>s, <1>3, <2>1 DEF InUse, Used, Index
<1>6. released => read # write
  BY <1>0, <1>s, DistValue DEF Conservation, Used, Index
<1>7. ASSUME NEW i \in Index
      PROVE  IsLive(i)' <=> IsLive(i) \/ i = write
  BY <1>5, <1>6 DEF IsLive
<1> QED BY <1>4, <1>7 DEF IsLive, InUse, Used

(* Release takes the entry at the read pointer, which is ahead of all others. *)
LEMMA ReleaseLive ==
    ASSUME RingInv, read # write, ~released, released', UNCHANGED <<read, write>>
    PROVE  /\ IsLive(read)
           /\ \A i \in Index : /\ IsLive(i)' <=> IsLive(i) /\ i # read
                               /\ i # read => Dist(read, read) < Dist(i, read)
<1>0. read \in Index /\ write \in Index
  BY DEF RingInv, TypeOK
<1>1. IsLive(read)
  BY HeadLive
<1>2. \A i \in Index : IsLive(i)' <=> IsLive(i) /\ i # read
  BY DEF IsLive, InUse, Used
<1>3. ASSUME NEW i \in Index, i # read
      PROVE  Dist(read, read) < Dist(i, read)
  <2>1. /\ Dist(read, read) = IF read >= read THEN read - read ELSE read - read + Size
        /\ Dist(i, read) = IF i >= read THEN i - read ELSE i - read + Size
    BY <1>0, DistValue
  <2> QED BY <1>0, <1>3, <2>1, SizeType DEF Index
<1> QED BY <1>1, <1>2, <1>3

(* Advance keeps the live entries and their order. *)
LEMMA AdvanceLive ==
    ASSUME RingInv, released, ~released', read' = Succ(read), write' = write
    PROVE  /\ Used' = Used - 1
           /\ \A i \in Index : /\ IsLive(i)' <=> IsLive(i)
                               /\ IsLive(i) => Dist(i, read') = Dist(i, read) - 1
<1>0. /\ TypeOK /\ Conservation /\ read \in Index /\ write \in Index
      /\ released \in BOOLEAN /\ Used \in Index
  BY DistValue DEF RingInv, TypeOK, Used
<1>s. Size \in Nat /\ Size >= 2 /\ Count \in Nat /\ Size = Count + 2
  BY SizeType
<1>1. Used > 0 /\ read # write
  BY <1>0, <1>s, DistValue DEF Conservation, Used, Index
<1>2. read' \in Index /\ read' = IF read = Size - 1 THEN 0 ELSE read + 1
  BY <1>0, SuccValue
<1>3. ASSUME NEW i \in Index
      PROVE  /\ Dist(i, read) = IF i >= read THEN i - read ELSE i - read + Size
             /\ Dist(i, read') = IF i >= read' THEN i - read' ELSE i - read' + Size
  BY <1>0, <1>2, DistValue
<1>4. Used' = Used - 1
  <2>1. Used' = Dist(write, read')
    BY DEF Used
  <2> QED BY <1>0, <1>s, <1>1, <1>2, <1>3, <2>1 DEF Used, Index
<1>5. ASSUME NEW i \in Index
      PROVE  IsLive(i)' <=> IsLive(i)
  <2>1. InUse(i)' <=> Dist(i, read') < Used - 1
    BY <1>4 DEF InUse
  <2>2. InUse(i)' <=> InUse(i) /\ i # read
    BY <1>0, <1>s, <1>1, <1>2, <1>3, <2>1 DEF InUse, Index
  <2> QED BY <2>2 DEF IsLive
<1>6. ASSUME NEW i \in Index, IsLive(i)
      PROVE  Dist(i, read') = Dist(i, read) - 1
  <2>1. i # read
    BY <1>6 DEF IsLive
  <2> QED BY <1>0, <1>s, <1>2, <1>3, <2>1 DEF Index
<1> QED BY <1>4, <1>5, <1>6

(* Every step of the producer and of the consumer preserves the invariant. *)
LEMMA NextInv == RingInv /\ [Next]_ringVars => RingInv'
<1> SUFFICES ASSUME RingInv, [Next]_ringVars PROVE RingInv'
  OBVIOUS
<1>0. /\ TypeOK /\ NoAliasing /\ NoLeak /\ Conservation
      /\ read \in Index /\ write \in Index /\ released \in BOOLEAN
      /\ Used \in Index
  BY DistValue DEF RingInv, TypeOK, Used
<1>s. /\ Size \in Nat /\ Size >= 2 /\ Count \in Nat /\ Size = Count + 2
      /\ Cardinality(out) \in 0 .. Count /\ IsFiniteSet(out)
  BY <1>0, OutCount, SizeType
<1>1. ASSUME NEW b \in Bufs, Fill(b)
      PROVE  RingInv'
  <2>1. TypeOK'
    BY <1>0, <1>1 DEF TypeOK, Fill
  <2>2. Conservation'
    BY <1>0, <1>1 DEF Conservation, Used, Fill
  <2>3. NoAliasing'
    BY <1>0, <1>1, FillLive DEF NoAliasing, Fill
  <2>4. NoLeak'
    BY <1>0, <1>1, FillLive DEF NoLeak, Fill
  <2> QED BY <2>1, <2>2, <2>3, <2>4 DEF RingInv
<1>2. ASSUME Publish PROVE RingInv'
  <2>1. slots[write] \in out /\ Succ(write) \in Index
    BY <1>0, <1>2, SuccValue DEF Publish
  <2>2. TypeOK'
    BY <1>0, <1>2, <2>1 DEF TypeOK, Publish
  <2>3. Used' = Used + 1
    BY <1>2, PublishLive DEF Publish
  <2>4. Cardinality(out') = Cardinality(out) - 1
    BY <1>2, <1>s, <2>1, FS_RemoveElement DEF Publish
  <2>5. Conservation'
    BY <1>0, <1>2, <1>s, <2>3, <2>4 DEF Conservation, Publish, Index
  <2>6. NoAliasing'
    BY <1>0, <1>2, <2>1, PublishLive DEF NoAliasing, Publish, TypeOK
  <2>7. NoLeak'
    BY <1>0, <1>2, PublishLive DEF NoLeak, Publish
  <2> QED BY <2>2, <2>5, <2>6, <2>7 DEF RingInv
<1>3. ASSUME Release PROVE RingInv'
  <2>1. Used > 0
    BY <1>3, HeadLive DEF Release
  <2>2. slots[read] \in Bufs \ out
    BY <1>3, HeadLive DEF Release
  <2>3. TypeOK'
    BY <1>0, <1>3, <2>2 DEF TypeOK, Release
  <2>4. Cardinality(out') = Cardinality(out) + 1
    BY <1>3, <1>s, <2>2, FS_AddElement DEF Release
  <2>5. Conservation'
    BY <1>0, <1>3, <1>s, <2>1, <2>4 DEF Conservation, Used, Release, Index
  <2>6. NoAliasing'
    BY <1>0, <1>3, ReleaseLive DEF NoAliasing, Release
  <2>7. NoLeak'
    BY <1>0, <1>3, ReleaseLive DEF NoLeak, Release
  <2> QED BY <2>3, <2>5, <2>6, <2>7 DEF RingInv
<1>4. ASSUME Advance PROVE RingInv'
  <2>1. Succ(read) \in Index
    BY <1>0, SuccValue
  <2>2. TypeOK'
    BY <1>0, <1>4, <2>1 DEF TypeOK, Advance
  <2>3. Used' = Used - 1
    BY <1>4, AdvanceLive DEF Advance
  <2>4. Conservation'
    BY <1>0, <1>4, <1>s, <2>3 DEF Conservation, Advance, Index
  <2>5. NoAliasing'
    BY <1>0, <1>4, AdvanceLive DEF NoAliasing, Advance
  <2>6. NoLeak'
    BY <1>0, <1>4, AdvanceLive DEF NoLeak, Advance
  <2> QED BY <2>2, <2>4, <2>5, <2>6 DEF RingInv
<1>5. CASE UNCHANGED ringVars
  BY <1>0, <1>5 DEF RingInv, TypeOK, NoAliasing, NoLeak, Conservation, IsLive, InUse, Used, ringVars
<1> QED BY <1>1, <1>2, <1>3, <1>4, <1>5 DEF Next

(* The ring's invariant holds for any number of DMA buffers: no buffer is  *)
(* queued twice, queued while the card owns it, or lost.                   *)
THEOREM RingSafe == Spec => []RingInv
BY InitInv, NextInv, PTL DEF Spec

(* Both pointers stay inside the ring and every entry is a buffer of the   *)
(* driver, for any number of buffers.                                      *)
THEOREM RingTypes == Spec => []TypeOK
<1>1. RingInv => TypeOK
  BY DEF RingInv
<1> QED BY <1>1, RingSafe, PTL

(* No buffer is queued twice or queued while the card owns it, for any     *)
(* number of buffers.                                                      *)
THEOREM RingNoAliasing == Spec => []NoAliasing
<1>1. RingInv => NoAliasing
  BY DEF RingInv
<1> QED BY <1>1, RingSafe, PTL

(* No buffer is lost by the ring, for any number of buffers. *)
THEOREM RingNoLeak == Spec => []NoLeak
<1>1. RingInv => NoLeak
  BY DEF RingInv
<1> QED BY <1>1, RingSafe, PTL

(* The driver's "queue pointer collision" warnings are unreachable for any *)
(* number of buffers.                                                      *)
THEOREM RingNoCollision == Spec => []NoCollision
<1>1. RingInv => NoCollision
  BY InvNoCollision
<1> QED BY <1>1, RingSafe, PTL

(* Poll never withdraws an answer: a ring that is not empty is emptied by  *)
(* its consumer only.                                                      *)
THEOREM RingStaysReadable == Spec => StaysReadable
<1>1. RingInv /\ [Next]_ringVars => [read # write /\ read' = read => read' # write']_ringVars
  <2> SUFFICES ASSUME RingInv, [Next]_ringVars, read # write, read' = read
               PROVE  read' # write'
    OBVIOUS
  <2>1. CASE write' = write
    BY <2>1
  <2>2. CASE Publish
    BY <2>2, InvNoCollision DEF Publish, NoCollision
  <2> QED BY <2>1, <2>2 DEF Next, Fill, Release, Advance, ringVars
<1> QED BY <1>1, RingSafe, PTL DEF Spec, StaysReadable
=============================================================================
