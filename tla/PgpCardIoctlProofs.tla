------------------------- MODULE PgpCardIoctlProofs -------------------------
(***************************************************************************)
(* Proofs about the control commands, for any number of threads and lanes. *)
(*                                                                         *)
(* Nothing orders the two halves of a |= or &= of one thread against the   *)
(* commands of another, so the inductive invariant follows each thread:    *)
(* which accesses of its command are left, and what the word it has read   *)
(* may hold.  Above that, it relates the registers to the commands that    *)
(* have reached the bus but not yet returned (Did, Wrote), to those that   *)
(* returned (want, put), to a status read under way (Shows), and to the    *)
(* part of xReset that has been carried out (ResetOK).                     *)
(***************************************************************************)
EXTENDS PgpCardIoctl, TLAPS

(* The registers, a bus access, and the fields of a bit register. *)
Reg     == BitReg \cup ValReg
Acc     == [op : {"Set", "Clr", "Put", "Get"}, reg : Reg, x : Nat]
PgpWhat == {"Loop", "Rx_Reset", "Tx_Reset"}
EvrWhat == {"Evr_Enable", "Evr_Reset", "Evr_PLL_RST"}
Fields  == PgpFields \cup EvrFields

(* The commands that programs send. *)
Modifies == [cmd : {"Set", "Clr"}, what : PgpWhat, idx : {0}, arg : Nat]
            \cup [cmd : {"Set", "Clr"}, what : EvrWhat, idx : {0}, arg : {0}]
Puts     == {c \in [cmd : {"Put"}, what : {"pgpOpCode", "evrCardStat"} \cup CodeReg \cup DelayReg,
                    idx : Nat, arg : Nat] : <<c.what, c.idx>> \in ValReg}
Plain    == [cmd : {"Read_Status", "Count_Reset", "NOP", "Set_Debug", "Dump_Debug", "Evr_RunCode"},
             what : {""}, idx : {0}, arg : Nat]
Command  == Modifies \cup Puts \cup Plain

(* The register and the bit of a field. *)
RegOf(f) == IF f[1] \in PgpWhat THEN PgpStat ELSE EvrStat
BitOf(f) == IF f[1] \in PgpWhat THEN PgpBit(f[1], f[2]) ELSE EvrBit(f[1])
FieldOf(c) == <<c.what, c.arg % N>>

USE IoctlAssumption

(* A lane argument taken modulo the number of lanes is a lane (my_Ioctl    *)
(* masks it).                                                              *)
LEMMA ModN == \A a \in Nat : a % N \in Lane /\ (a \in Lane => a % N = a)
BY DEF Lane

(* Lanes are numbers, and lane 0 exists. *)
LEMMA LaneNat == Lane \subseteq Nat /\ 0 \in Lane
BY DEF Lane

(* Where PciApp keeps each field: its register and its bit. *)
LEMMA FieldFacts ==
    ASSUME NEW f \in Fields
    PROVE  /\ f = <<f[1], f[2]>> /\ f[2] \in Lane
           /\ \/ /\ f \in PgpFields /\ f \notin EvrFields /\ RegOf(f) = PgpStat
                 /\ \/ f[1] = "Loop" /\ BitOf(f) = f[2]
                    \/ f[1] = "Rx_Reset" /\ BitOf(f) = N + f[2]
                    \/ f[1] = "Tx_Reset" /\ BitOf(f) = 2 * N + f[2]
              \/ /\ f \in EvrFields /\ f \notin PgpFields /\ f[2] = 0 /\ RegOf(f) = EvrStat
                 /\ \/ f[1] = "Evr_Enable" /\ BitOf(f) = 0
                    \/ f[1] = "Evr_Reset" /\ BitOf(f) = 1
                    \/ f[1] = "Evr_PLL_RST" /\ BitOf(f) = 2
<1>1. CASE f \in PgpFields
  <2>1. f = <<f[1], f[2]>> /\ f[2] \in Lane /\ f[1] \in PgpWhat
    BY <1>1 DEF PgpFields, PgpWhat
  <2>2. f[2] % N = f[2] /\ f[2] \in Nat
    BY <2>1, ModN, LaneNat
  <2>3. f \notin EvrFields /\ RegOf(f) = PgpStat
    BY <2>1 DEF EvrFields, RegOf, PgpWhat
  <2>4. BitOf(f) = [Loop |-> 0, Rx_Reset |-> N, Tx_Reset |-> 2 * N][f[1]] + f[2]
    BY <2>1, <2>2 DEF BitOf, PgpBit
  <2>5. CASE f[1] = "Loop"
    BY <1>1, <2>1, <2>2, <2>3, <2>4, <2>5
  <2>6. CASE f[1] = "Rx_Reset"
    BY <1>1, <2>1, <2>2, <2>3, <2>4, <2>6
  <2>7. CASE f[1] = "Tx_Reset"
    BY <1>1, <2>1, <2>2, <2>3, <2>4, <2>7
  <2> QED BY <2>1, <2>5, <2>6, <2>7 DEF PgpWhat
<1>2. CASE f \in EvrFields
  <2>1. f = <<f[1], f[2]>> /\ f[2] = 0 /\ f[1] \in EvrWhat
    BY <1>2 DEF EvrFields, EvrWhat
  <2>2. f \notin PgpFields /\ RegOf(f) = EvrStat /\ BitOf(f) = EvrBit(f[1])
    BY <2>1 DEF PgpFields, RegOf, BitOf, PgpWhat, EvrWhat
  <2> QED BY <1>2, <2>1, <2>2, LaneNat DEF EvrBit, EvrWhat
<1> QED BY <1>1, <1>2 DEF Fields

(* No two fields share a bit. *)
LEMMA BitInjective ==
    ASSUME NEW f \in Fields, NEW g \in Fields, RegOf(f) = RegOf(g), BitOf(f) = BitOf(g)
    PROVE  f = g
<1>1. PgpStat # EvrStat
  BY DEF PgpStat, EvrStat
<1>2. f[1] = g[1] /\ f[2] = g[2]
  BY <1>1, FieldFacts DEF Lane
<1> QED BY <1>2, FieldFacts

(* Every field is a bit of one of the bit registers. *)
LEMMA BitType == ASSUME NEW f \in Fields PROVE BitOf(f) \in 0 .. (3 * N - 1) /\ RegOf(f) \in BitReg
BY FieldFacts DEF BitReg, Lane

(* What PciApp sees as on is what the bits of my_Ioctl say is on: the      *)
(* driver and the firmware agree on the bit of every field.                *)
LEMMA OnFields ==
    /\ PgpOn = {f \in PgpFields : BitOf(f) \in bits[PgpStat]}
    /\ EvrOn = {f \in EvrFields : BitOf(f) \in bits[EvrStat]}
<1>1. ASSUME NEW f PROVE f \in PgpOn <=> f \in PgpFields /\ BitOf(f) \in bits[PgpStat]
  <2>1. f \in PgpOn => \E l \in Lane : \/ f = <<"Loop", l>> /\ l \in bits[PgpStat]
                                       \/ f = <<"Rx_Reset", l>> /\ N + l \in bits[PgpStat]
                                       \/ f = <<"Tx_Reset", l>> /\ 2 * N + l \in bits[PgpStat]
    BY DEF PgpOn, loopBack, pgpRxRst, pgpTxRst
  <2>2. f \in PgpOn => f \in PgpFields
    BY <2>1 DEF PgpFields
  <2>3. ASSUME f \in PgpFields PROVE f \in PgpOn <=> BitOf(f) \in bits[PgpStat]
    <3>1. f \in Fields
      BY <2>3 DEF Fields
    <3>2. CASE f[1] = "Loop"
      BY <2>3, <3>1, <3>2, FieldFacts DEF PgpOn, loopBack
    <3>3. CASE f[1] = "Rx_Reset"
      BY <2>3, <3>1, <3>3, FieldFacts DEF PgpOn, pgpRxRst
    <3>4. CASE f[1] = "Tx_Reset"
      BY <2>3, <3>1, <3>4, FieldFacts DEF PgpOn, pgpTxRst
    <3> QED BY <2>3, <3>1, <3>2, <3>3, <3>4, FieldFacts
  <2> QED BY <2>2, <2>3
<1>2. ASSUME NEW f \in EvrFields
      PROVE  [Evr_Enable |-> 0, Evr_Reset |-> 1, Evr_PLL_RST |-> 2][f[1]] = BitOf(f)
  <2>1. f[1] \notin PgpWhat
    BY DEF EvrFields, PgpWhat
  <2> QED BY <2>1 DEF BitOf, EvrBit
<1> QED BY <1>1, <1>2 DEF EvrOn

(* The commands of programs and what they do on the bus. *)
LEMMA ModifyField ==
    ASSUME NEW c \in Modifies
    PROVE  /\ FieldOf(c) \in Fields /\ c.cmd \in {"Set", "Clr"}
           /\ Modify(c) = Access(c.cmd, RegOf(FieldOf(c)), BitOf(FieldOf(c)))
<1>1. CASE c \in [cmd : {"Set", "Clr"}, what : PgpWhat, idx : {0}, arg : Nat]
  <2>1. c.cmd \in {"Set", "Clr"} /\ c.what \in PgpWhat /\ c.arg \in Nat /\ c.arg % N \in Lane
    BY <1>1, ModN
  <2>2. (c.arg % N) % N = c.arg % N
    BY <2>1, ModN, LaneNat
  <2> QED BY <2>1, <2>2 DEF FieldOf, Fields, PgpFields, PgpWhat, Modify, RegOf, BitOf, PgpBit
<1>2. CASE c \in [cmd : {"Set", "Clr"}, what : EvrWhat, idx : {0}, arg : {0}]
  <2>1. c.cmd \in {"Set", "Clr"} /\ c.what \in EvrWhat /\ c.arg = 0 /\ 0 % N = 0
    BY <1>2, ModN, LaneNat
  <2> QED BY <2>1 DEF FieldOf, Fields, EvrFields, EvrWhat, Modify, RegOf, BitOf, PgpWhat
<1> QED BY <1>1, <1>2 DEF Modifies

(* The wrappers with one argument or none send commands. *)
LEMMA WrapperCommands ==
    /\ \A a \in Nat : /\ pgpcard_setRxReset(a) \in Command /\ pgpcard_clrRxReset(a) \in Command
                      /\ pgpcard_setTxReset(a) \in Command /\ pgpcard_clrTxReset(a) \in Command
                      /\ pgpcard_setLoop(a) \in Command /\ pgpcard_clrLoop(a) \in Command
                      /\ pgpcard_setDebug(a) \in Command
    /\ pgpcard_enableEvr \in Command /\ pgpcard_disableEvr \in Command
    /\ pgpcard_setEvrRst \in Command /\ pgpcard_clrEvrRst \in Command
    /\ pgpcard_setEvrPllRst \in Command /\ pgpcard_clrEvrPllRst \in Command
    /\ pgpcard_status \in Command /\ pgpcard_rstCount \in Command /\ pgpcard_dumpDebug \in Command
    /\ Tx("Evr_RunCode", "", 0, 0) \in Command /\ Tx("NOP", "", 0, 0) \in Command
<1> USE DEF Tx
<1>1. ASSUME NEW a \in Nat
      PROVE  /\ pgpcard_setRxReset(a) \in Modifies /\ pgpcard_clrRxReset(a) \in Modifies
             /\ pgpcard_setTxReset(a) \in Modifies /\ pgpcard_clrTxReset(a) \in Modifies
             /\ pgpcard_setLoop(a) \in Modifies /\ pgpcard_clrLoop(a) \in Modifies
  BY DEF pgpcard_setRxReset, pgpcard_clrRxReset, pgpcard_setTxReset, pgpcard_clrTxReset, pgpcard_setLoop,
         pgpcard_clrLoop, Modifies, PgpWhat
<1>2. /\ pgpcard_enableEvr \in Modifies /\ pgpcard_disableEvr \in Modifies
      /\ pgpcard_setEvrRst \in Modifies /\ pgpcard_clrEvrRst \in Modifies
      /\ pgpcard_setEvrPllRst \in Modifies /\ pgpcard_clrEvrPllRst \in Modifies
  BY DEF pgpcard_enableEvr, pgpcard_disableEvr, pgpcard_setEvrRst, pgpcard_clrEvrRst, pgpcard_setEvrPllRst,
         pgpcard_clrEvrPllRst, Modifies, EvrWhat
<1>3. /\ pgpcard_status \in Plain /\ pgpcard_rstCount \in Plain /\ pgpcard_dumpDebug \in Plain
      /\ Tx("Evr_RunCode", "", 0, 0) \in Plain /\ Tx("NOP", "", 0, 0) \in Plain
      /\ \A a \in Nat : pgpcard_setDebug(a) \in Plain
  BY DEF pgpcard_status, pgpcard_rstCount, pgpcard_dumpDebug, pgpcard_setDebug, Plain
<1> QED BY <1>1, <1>2, <1>3 DEF Command

(* Every wrapper call of an application is a command. *)
LEMMA CallCommands == Calls \subseteq Command
<1>1. ASSUME NEW x \in Nat PROVE pgpcard_sendOpCode(x) \in Command /\ pgpcard_evrMask(x) \in Command
  <2>1. x % CodeMod \in Nat
    OBVIOUS
  <2>2. OpCode \in ValReg /\ EvrMask \in ValReg
    BY DEF ValReg
  <2>3. pgpcard_sendOpCode(x) \in Puts
    BY <2>1, <2>2 DEF pgpcard_sendOpCode, Tx, Puts, OpCode
  <2>4. pgpcard_evrMask(x) \in Puts
    BY <2>2 DEF pgpcard_evrMask, Tx, Puts, EvrMask
  <2> QED BY <2>3, <2>4 DEF Command
<1>2. ASSUME NEW r \in CodeReg \cup DelayReg, NEW a \in Nat, NEW x \in Nat PROVE PerLane(r, a, x) \in Command
  <2>1. a \in Lane => Tx("Put", r, a, x) \in Puts
    BY DEF Tx, Puts, ValReg
  <2>2. Tx("NOP", "", 0, x) \in Plain
    BY DEF Tx, Plain
  <2> QED BY <2>1, <2>2 DEF PerLane, Command
<1>3. \A a \in Nat, x \in Nat :
         /\ pgpcard_setEvrRunCode(a, x) \in Command /\ pgpcard_setEvrAcceptCode(a, x) \in Command
         /\ pgpcard_setEvrRunDelay(a, x) \in Command /\ pgpcard_setEvrAcceptDelay(a, x) \in Command
  BY <1>2 DEF pgpcard_setEvrRunCode, pgpcard_setEvrAcceptCode, pgpcard_setEvrRunDelay, pgpcard_setEvrAcceptDelay,
              CodeReg, DelayReg
<1> DEFINE OfNone == {pgpcard_status, pgpcard_rstCount, pgpcard_enableEvr, pgpcard_disableEvr, pgpcard_setEvrRst,
                      pgpcard_clrEvrRst, pgpcard_setEvrPllRst, pgpcard_clrEvrPllRst, pgpcard_dumpDebug,
                      Tx("Evr_RunCode", "", 0, 0)}
           OfArg(a) == {pgpcard_setRxReset(a), pgpcard_clrRxReset(a), pgpcard_setTxReset(a),
                        pgpcard_clrTxReset(a), pgpcard_setLoop(a), pgpcard_clrLoop(a)}
           OfValue(x) == {pgpcard_sendOpCode(x), pgpcard_evrMask(x), pgpcard_setDebug(x)}
           OfBoth(a, x) == {pgpcard_setEvrRunCode(a, x), pgpcard_setEvrAcceptCode(a, x),
                            pgpcard_setEvrRunDelay(a, x), pgpcard_setEvrAcceptDelay(a, x)}
<1>4. \A a \in Args : OfArg(a) \subseteq Command
  BY WrapperCommands
<1>5. \A x \in Values : OfValue(x) \subseteq Command
  BY <1>1, WrapperCommands
<1>6. \A a \in Args, x \in Values : OfBoth(a, x) \subseteq Command
  BY <1>3
<1>7. OfNone \subseteq Command
  BY WrapperCommands
<1>8. Calls = OfNone \cup (UNION {OfArg(a) : a \in Args}) \cup (UNION {OfValue(x) : x \in Values})
              \cup (UNION {OfBoth(a, x) : a \in Args, x \in Values})
  BY DEF Calls
<1> HIDE DEF OfNone, OfArg, OfValue, OfBoth
<1> QED BY <1>4, <1>5, <1>6, <1>7, <1>8

(* Short sequences of elements of a set. *)
LEMMA ShortSeqs ==
    ASSUME NEW S, NEW a \in S, NEW b \in S, NEW c \in S, NEW d \in S, NEW e \in S
    PROVE  /\ <<a>> \in Seq(S) /\ <<a, b, c, d, e>> \in Seq(S)
           /\ \A i \in 1 .. 1 : <<a>>[i] \in S
           /\ \A i \in 1 .. 2 : <<a, b>>[i] \in S
OBVIOUS

(* k calls per lane make a sequence of k * N calls. *)
LEMMA PerLaneIndex ==
    ASSUME NEW k \in {1, 2, 4}, NEW i \in 1 .. k * N
    PROVE  (i - 1) \div k \in Lane /\ ((i - 1) % k) + 1 \in 1 .. k /\ (i - 1) \div k \in Nat
<1>1. CASE k = 1
  BY <1>1 DEF Lane
<1>2. CASE k = 2
  BY <1>2 DEF Lane
<1>3. CASE k = 4
  BY <1>3 DEF Lane
<1> QED BY <1>1, <1>2, <1>3

(* xReset, xStatus and xLoop are sequences of commands. *)
LEMMA ProgramCommands == xReset \in Seq(Command) /\ xStatus \in Seq(Command) /\ xLoop \subseteq Seq(Command)
<1> DEFINE Tx2(l) == <<pgpcard_setTxReset(l), pgpcard_clrTxReset(l)>>
           Rx2(l) == <<pgpcard_setRxReset(l), pgpcard_clrRxReset(l)>>
           SetOne(l) == <<pgpcard_setLoop(l)>>
           ClrOne(l) == <<pgpcard_clrLoop(l)>>
           evr == <<pgpcard_setEvrPllRst, pgpcard_clrEvrPllRst, pgpcard_setEvrRst, pgpcard_clrEvrRst, pgpcard_rstCount>>
<1>1. ASSUME NEW l \in Nat
      PROVE  /\ \A j \in 1 .. 2 : Tx2(l)[j] \in Command /\ Rx2(l)[j] \in Command
             /\ \A j \in 1 .. 1 : SetOne(l)[j] \in Command /\ ClrOne(l)[j] \in Command
             /\ SetOne(l) \in Seq(Command) /\ ClrOne(l) \in Seq(Command)
  <2>1. /\ pgpcard_setRxReset(l) \in Command /\ pgpcard_clrRxReset(l) \in Command
        /\ pgpcard_setTxReset(l) \in Command /\ pgpcard_clrTxReset(l) \in Command
        /\ pgpcard_setLoop(l) \in Command /\ pgpcard_clrLoop(l) \in Command
    BY WrapperCommands
  <2>2. \A j \in 1 .. 2 : Tx2(l)[j] \in Command
    BY <2>1, ShortSeqs, Zenon
  <2>3. \A j \in 1 .. 2 : Rx2(l)[j] \in Command
    BY <2>1, ShortSeqs, Zenon
  <2>4. \A j \in 1 .. 1 : SetOne(l)[j] \in Command
    BY <2>1, ShortSeqs, Zenon
  <2>5. \A j \in 1 .. 1 : ClrOne(l)[j] \in Command
    BY <2>1, ShortSeqs, Zenon
  <2>6. SetOne(l) \in Seq(Command) /\ ClrOne(l) \in Seq(Command)
    BY <2>1, ShortSeqs, Zenon
  <2> HIDE DEF Tx2, Rx2, SetOne, ClrOne
  <2> QED BY <2>2, <2>3, <2>4, <2>5, <2>6, Zenon
<1>2. evr \in Seq(Command)
  BY WrapperCommands, ShortSeqs, Zenon
<1>3. xStatus \in Seq(Command)
  <2>1. 5 \in Nat /\ 0 \in Nat
    OBVIOUS
  <2> QED BY <2>1, WrapperCommands, ShortSeqs, Zenon DEF xStatus
<1> HIDE DEF Tx2, Rx2, SetOne, ClrOne, evr
<1>4. ASSUME NEW k \in {1, 2}, NEW i \in 1 .. k * N
      PROVE  (i - 1) \div k \in Nat /\ ((i - 1) % k) + 1 \in 1 .. k
  BY PerLaneIndex
<1>5. /\ \A i \in 1 .. 2 * N : Tx2((i - 1) \div 2)[((i - 1) % 2) + 1] \in Command
      /\ \A i \in 1 .. 2 * N : Rx2((i - 1) \div 2)[((i - 1) % 2) + 1] \in Command
      /\ \A i \in 1 .. 1 * N : SetOne((i - 1) \div 1)[((i - 1) % 1) + 1] \in Command
      /\ \A i \in 1 .. 1 * N : ClrOne((i - 1) \div 1)[((i - 1) % 1) + 1] \in Command
  BY <1>1, <1>4, Zenon
<1>6. 2 * N \in Nat /\ 1 * N \in Nat
  OBVIOUS
<1>7. /\ ForEachLane(2, Tx2) \in Seq(Command) /\ ForEachLane(2, Rx2) \in Seq(Command)
      /\ ForEachLane(1, SetOne) \in Seq(Command) /\ ForEachLane(1, ClrOne) \in Seq(Command)
  <2>1. ForEachLane(2, Tx2) \in Seq(Command)
    BY <1>5, <1>6 DEF ForEachLane
  <2>2. ForEachLane(2, Rx2) \in Seq(Command)
    BY <1>5, <1>6 DEF ForEachLane
  <2>3. ForEachLane(1, SetOne) \in Seq(Command)
    BY <1>5, <1>6 DEF ForEachLane
  <2>4. ForEachLane(1, ClrOne) \in Seq(Command)
    BY <1>5, <1>6 DEF ForEachLane
  <2> QED BY <2>1, <2>2, <2>3, <2>4
<1>8. xReset = ForEachLane(2, Tx2) \o ForEachLane(2, Rx2) \o evr
  BY DEF xReset, Tx2, Rx2, evr
<1>9. xReset \in Seq(Command)
  BY <1>2, <1>7, <1>8
<1>10. xLoop \subseteq Seq(Command)
  <2>1. xLoop = {ForEachLane(1, SetOne), ForEachLane(1, ClrOne)}
                \cup {SetOne(a) : a \in Args} \cup {ClrOne(a) : a \in Args}
    BY DEF xLoop, SetOne, ClrOne
  <2> QED BY <1>1, <1>7, <2>1
<1> QED BY <1>3, <1>9, <1>10

-----------------------------------------------------------------------------
(* The types the proofs need, those of the threads included. *)
Bits       == 0 .. (3 * N - 1)
ThreadType == [busy : BOOLEAN, call : Command, left : Seq(Acc), loaded : BOOLEAN, word : SUBSET Bits,
               snap : Seq((SUBSET Bits) \cup Nat), alone : BOOLEAN]

Types == TypeOK /\ thread \in [Threads -> ThreadType] /\ todo \in Seq(Command)

(* What a thread has left to do of its command. *)
PutOf(c)    == Access("Put", <<c.what, c.idx>>, c.arg)
Release     == Access("Clr", CardRst, 0)
Rest(left)  == /\ Len(left) <= Len(ReadStatus)
               /\ \A i \in 1 .. Len(left) : left[i] = ReadStatus[Len(ReadStatus) - Len(left) + i]
ThreadOK(th) ==
    /\ ~th.busy => th = Idle
    /\ th.call \in Modifies => th.left \in {<<Modify(th.call)>>, <<>>}
    /\ th.call \in Puts => th.left \in {<<PutOf(th.call)>>, <<>>}
    /\ th.call.cmd = "Count_Reset" => th.left \in {CountReset, <<Release>>, <<>>}
    /\ th.call.cmd = "Read_Status" => Rest(th.left)
    /\ th.call \in Plain /\ th.call.cmd \notin {"Count_Reset", "Read_Status"} => th.left = <<>>
    /\ th.loaded => th.left # <<>> /\ Head(th.left).op \in {"Set", "Clr"}
ThreadsOK == \A t \in Threads : ThreadOK(thread[t])

(* Bits that are set, in a register or in a word a thread has read, belong *)
(* to fields some command asked for.                                       *)
AskedBits(S, r) == \A f \in Fields : RegOf(f) = r /\ BitOf(f) \in S => f \in asked
AskedOK ==
    /\ AskedBits(bits[PgpStat], PgpStat) /\ AskedBits(bits[EvrStat], EvrStat)
    /\ \A t \in Threads : thread[t].call \in Modifies =>
          /\ thread[t].call.cmd = "Set" => FieldOf(thread[t].call) \in asked
          /\ AskedBits(thread[t].word, RegOf(FieldOf(thread[t].call)))

(* A thread that has set the counter reset still has to clear it. *)
Releasing == {t \in Threads : thread[t].call.cmd = "Count_Reset" /\ thread[t].left = <<Release>>}
CountOK ==
    /\ bits[CardRst] \subseteq {0}
    /\ \A t \in Threads : thread[t].call.cmd = "Count_Reset" => thread[t].word \subseteq {0}
    /\ bits[CardRst] # {} => Releasing # {}

(* Two commands under way share no register that is not in raced, so that  *)
(* a word read from such a register stays current.                         *)
PairsOK ==
    \A t, u \in Threads : t # u /\ thread[t].busy /\ thread[u].busy =>
        RegsOf(thread[t].call) \cap RegsOf(thread[u].call) \subseteq raced
LoadedOK ==
    \A t \in Threads : /\ thread[t].call \in Modifies /\ thread[t].loaded
                       /\ RegOf(FieldOf(thread[t].call)) \notin raced
                       => thread[t].word = bits[RegOf(FieldOf(thread[t].call))]
(* Fields follow the command that has just changed them, or else the       *)
(* commands that returned.                                                 *)
Did(th, f) == th.call \in Modifies /\ FieldOf(th.call) = f /\ th.left = <<>>
FieldsOK ==
    \A f \in Fields : RegOf(f) \notin raced =>
        /\ \A t \in Threads : Did(thread[t], f) =>
              (BitOf(f) \in bits[RegOf(f)] <=> thread[t].call.cmd = "Set")
        /\ (\A t \in Threads : ~Did(thread[t], f)) => (BitOf(f) \in bits[RegOf(f)] <=> f \in want)
(* The same for the registers that hold a value. *)
Wrote(th, r) ==
    \/ th.call \in Puts /\ <<th.call.what, th.call.idx>> = r /\ th.left = <<>>
    \/ th.call.cmd = "Read_Status" /\ r = Scratch /\ th.left # ReadStatus
Stored(th, r) == IF th.call.cmd = "Read_Status" THEN SPAD ELSE Kept(r, th.call.arg)
ValsOK ==
    \A r \in ValReg : r \notin raced =>
        /\ \A t \in Threads : Wrote(thread[t], r) => val[r] = Stored(thread[t], r)
        /\ (\A t \in Threads : ~Wrote(thread[t], r)) => val[r] = put[r]

(* A thread without company, and the part of the status it has read. *)
AloneOK == \A t, u \in Threads : thread[t].alone /\ u # t => ~thread[u].busy
Shows(th) ==
    /\ th.left = ReadStatus => th.snap = <<>>
    /\ th.left # ReadStatus =>
          /\ val[Scratch] = SPAD
          /\ Len(th.snap) = Len(ReadStatus) - Len(th.left) - 1
          /\ \A i \in 1 .. Len(th.snap) : th.snap[i] = Contents(ReadStatus[i + 1].reg)
StatusOK ==
    /\ \A t \in Threads : thread[t].call.cmd = "Read_Status" /\ thread[t].alone => Shows(thread[t])
    /\ fresh => Quiet /\ StatusCurrent

(* The thread of a program, the calls xReset has made, its last clear of a *)
(* field, and the fields it has released.                                  *)
Main == CHOOSE t \in Threads : TRUE
Made == Len(xReset) - Len(todo)
LastClr(j) ==
    /\ xReset[j] \in Modifies /\ xReset[j].cmd = "Clr"
    /\ \A m \in (j + 1) .. Len(xReset) :
          ~(xReset[m].cmd = "Set" /\ FieldOf(xReset[m]) = FieldOf(xReset[j]))
ResetOK ==
    /\ Len(todo) <= Len(xReset)
    /\ \A i \in 1 .. Len(todo) : todo[i] = xReset[Made + i]
    /\ thread[Main].busy => Made >= 1 /\ thread[Main].call = xReset[Made]
    /\ thread[Main].loaded => thread[Main].word = bits[Head(thread[Main].left).reg]
    /\ \A j \in 1 .. Made : LastClr(j) /\ (j = Made => thread[Main].left = <<>>) =>
          BitOf(FieldOf(xReset[j])) \notin bits[RegOf(FieldOf(xReset[j]))]
ProgOK ==
    /\ prog \in {"none", "app"} => todo = <<>>
    /\ prog = "none" => Quiet
    /\ prog # "app" => \A t \in Threads : thread[t].busy => t = Main
    /\ prog = "xReset" => ResetOK

(* The inductive invariant. *)
IoctlInv == /\ Types /\ ThreadsOK /\ AskedOK /\ CountOK /\ PairsOK /\ LoadedOK /\ FieldsOK /\ ValsOK
            /\ AloneOK /\ StatusOK /\ ProgOK

-----------------------------------------------------------------------------
(* The part of a status read that is about lane l. *)
StatusLane(l) == <<Access("Get", <<"runCode", l>>, 0), Access("Get", <<"acceptCode", l>>, 0),
                   Access("Get", <<"runDelay", l>>, 0), Access("Get", <<"acceptDelay", l>>, 0)>>

(* The registers are distinct and of one kind each. *)
LEMMA RegFacts ==
    /\ {PgpStat, EvrStat, CardRst} = BitReg
    /\ PgpStat # EvrStat /\ PgpStat # CardRst /\ EvrStat # CardRst
    /\ {EvrMask, OpCode, Scratch} \subseteq ValReg
    /\ BitReg \cap ValReg = {}
    /\ \A l \in Lane : /\ <<"runCode", l>> \in ValReg /\ <<"acceptCode", l>> \in ValReg
                       /\ <<"runDelay", l>> \in ValReg /\ <<"acceptDelay", l>> \in ValReg
    /\ BitReg \subseteq Reg /\ ValReg \subseteq Reg
BY DEF BitReg, ValReg, Reg, PgpStat, EvrStat, CardRst, EvrMask, OpCode, Scratch, CodeReg, DelayReg

(* The parts of a bus access. *)
LEMMA AccessType ==
    ASSUME NEW op \in {"Set", "Clr", "Put", "Get"}, NEW r \in Reg, NEW x \in Nat
    PROVE  /\ Access(op, r, x) \in Acc
           /\ Access(op, r, x).op = op /\ Access(op, r, x).reg = r /\ Access(op, r, x).x = x
BY DEF Access, Acc

(* A status read only reads the registers of a lane. *)
LEMMA StatusLaneType ==
    ASSUME NEW l \in Lane, NEW j \in 1 .. 4
    PROVE  StatusLane(l)[j] \in Acc /\ StatusLane(l)[j].op = "Get"
<1>1. \A r \in Reg : Access("Get", r, 0) \in Acc /\ Access("Get", r, 0).op = "Get"
  BY AccessType
<1>2. /\ <<"runCode", l>> \in Reg /\ <<"acceptCode", l>> \in Reg
      /\ <<"runDelay", l>> \in Reg /\ <<"acceptDelay", l>> \in Reg
  BY RegFacts
<1>3. j = 1 \/ j = 2 \/ j = 3 \/ j = 4
  OBVIOUS
<1> QED BY <1>1, <1>2, <1>3 DEF StatusLane

(* The accesses of a status read, by position. *)
LEMMA ReadStatusFacts ==
    /\ ReadStatus \in Seq(Acc) /\ Len(ReadStatus) = 7 + 4 * N
    /\ ReadStatus[1] = Access("Put", Scratch, SPAD)
    /\ ReadStatus[2] = Access("Get", Scratch, 0) /\ ReadStatus[3] = Access("Get", CardRst, 0)
    /\ ReadStatus[4] = Access("Get", CardRst, 0) /\ ReadStatus[5] = Access("Get", EvrStat, 0)
    /\ ReadStatus[6] = Access("Get", EvrMask, 0) /\ ReadStatus[7 + 4 * N] = Access("Get", PgpStat, 0)
    /\ \A i \in 1 .. 4 * N : ReadStatus[6 + i] = StatusLane((i - 1) \div 4)[((i - 1) % 4) + 1]
    /\ \A i \in 2 .. (7 + 4 * N) : ReadStatus[i].op = "Get"
<1> DEFINE first == <<Access("Put", Scratch, SPAD), Access("Get", Scratch, 0), Access("Get", CardRst, 0),
                      Access("Get", CardRst, 0), Access("Get", EvrStat, 0), Access("Get", EvrMask, 0)>>
           lanes == ForEachLane(4, StatusLane)
           last == <<Access("Get", PgpStat, 0)>>
<1>1. ReadStatus = first \o lanes \o last
  BY DEF ReadStatus, StatusLane
<1>2. SPAD \in Nat /\ 4 * N \in Nat
  BY DEF SPAD
<1>3. lanes = [i \in 1 .. 4 * N |-> StatusLane((i - 1) \div 4)[((i - 1) % 4) + 1]]
  BY DEF ForEachLane
<1>4. ASSUME NEW i \in 1 .. 4 * N
      PROVE  /\ lanes[i] = StatusLane((i - 1) \div 4)[((i - 1) % 4) + 1]
             /\ lanes[i] \in Acc /\ lanes[i].op = "Get"
  <2>1. (i - 1) \div 4 \in Lane /\ ((i - 1) % 4) + 1 \in 1 .. 4
    BY PerLaneIndex
  <2> HIDE DEF lanes
  <2> QED BY <1>3, <2>1, StatusLaneType
<1> HIDE DEF lanes
<1>5. lanes \in Seq(Acc) /\ Len(lanes) = 4 * N
  BY <1>2, <1>3, <1>4
<1>6. /\ Access("Put", Scratch, SPAD) \in Acc /\ Access("Get", Scratch, 0) \in Acc
      /\ Access("Get", CardRst, 0) \in Acc /\ Access("Get", EvrStat, 0) \in Acc
      /\ Access("Get", EvrMask, 0) \in Acc /\ Access("Get", PgpStat, 0) \in Acc
  BY <1>2, RegFacts, AccessType
<1>7. /\ first \in Seq(Acc) /\ Len(first) = 6 /\ last \in Seq(Acc) /\ Len(last) = 1
      /\ first[1] = Access("Put", Scratch, SPAD) /\ first[2] = Access("Get", Scratch, 0)
      /\ first[3] = Access("Get", CardRst, 0) /\ first[4] = Access("Get", CardRst, 0)
      /\ first[5] = Access("Get", EvrStat, 0) /\ first[6] = Access("Get", EvrMask, 0)
      /\ last[1] = Access("Get", PgpStat, 0)
  BY <1>6
<1> HIDE DEF first, last
<1>8. /\ ReadStatus \in Seq(Acc) /\ Len(ReadStatus) = 7 + 4 * N
      /\ \A i \in 1 .. 6 : ReadStatus[i] = first[i]
      /\ \A i \in 1 .. 4 * N : ReadStatus[6 + i] = lanes[i]
      /\ ReadStatus[7 + 4 * N] = last[1]
  <2>1. PICK k \in Nat : k = 4 * N
    BY <1>2
  <2> DEFINE most == first \o lanes
  <2>2. /\ most \in Seq(Acc) /\ Len(most) = 6 + k
        /\ \A i \in 1 .. 6 : most[i] = first[i]
        /\ \A i \in 1 .. k : most[6 + i] = lanes[i]
    <3>1. /\ first \o lanes \in Seq(Acc) /\ Len(first \o lanes) = Len(first) + Len(lanes)
          /\ \A i \in 1 .. Len(first) : (first \o lanes)[i] = first[i]
          /\ \A i \in 1 .. Len(lanes) : (first \o lanes)[Len(first) + i] = lanes[i]
      <4>1. first \in Seq(Acc) /\ lanes \in Seq(Acc)
        BY <1>5, <1>7
      <4> QED BY <4>1
    <3> HIDE DEF most
    <3>2. most = first \o lanes
      BY DEF most
    <3> QED BY <1>5, <1>7, <2>1, <3>1, <3>2
  <2> HIDE DEF most
  <2>3. /\ most \o last \in Seq(Acc) /\ Len(most \o last) = 7 + k
        /\ \A i \in 1 .. (6 + k) : (most \o last)[i] = most[i]
        /\ (most \o last)[7 + k] = last[1]
    <3>1. 1 \in 1 .. Len(last)
      BY <1>7
    <3>2. /\ most \o last \in Seq(Acc) /\ Len(most \o last) = Len(most) + Len(last)
          /\ \A i \in 1 .. Len(most) : (most \o last)[i] = most[i]
          /\ \A i \in 1 .. Len(last) : (most \o last)[Len(most) + i] = last[i]
      <4>1. most \in Seq(Acc) /\ last \in Seq(Acc)
        BY <1>7, <2>2
      <4> QED BY <4>1
    <3> QED BY <1>7, <2>2, <3>1, <3>2
  <2>4. ReadStatus = most \o last
    BY <1>1 DEF most
  <2>5. /\ \A i \in 1 .. 6 : ReadStatus[i] = first[i]
        /\ \A i \in 1 .. k : ReadStatus[6 + i] = lanes[i]
    BY <2>2, <2>3, <2>4
  <2> QED BY <2>1, <2>3, <2>4, <2>5
<1>9. /\ ReadStatus[1] = Access("Put", Scratch, SPAD)
      /\ ReadStatus[2] = Access("Get", Scratch, 0) /\ ReadStatus[3] = Access("Get", CardRst, 0)
      /\ ReadStatus[4] = Access("Get", CardRst, 0) /\ ReadStatus[5] = Access("Get", EvrStat, 0)
      /\ ReadStatus[6] = Access("Get", EvrMask, 0) /\ ReadStatus[7 + 4 * N] = Access("Get", PgpStat, 0)
  BY <1>7, <1>8
<1>10. ASSUME NEW i \in 2 .. (7 + 4 * N) PROVE ReadStatus[i].op = "Get"
  <2>1. CASE i \in 2 .. 6
    <3>1. \A r \in Reg : Access("Get", r, 0).op = "Get"
      BY AccessType
    <3> QED BY <1>9, <2>1, <3>1, RegFacts
  <2>2. CASE i \in 7 .. (6 + 4 * N)
    <3>1. PICK k \in 1 .. 4 * N : i = 6 + k
      <4>1. i - 6 \in 1 .. 4 * N /\ i = 6 + (i - 6)
        BY <1>2, <2>2
      <4> QED BY <4>1
    <3>2. ReadStatus[6 + k] = lanes[k]
      BY <1>8
    <3> QED BY <1>4, <3>1, <3>2
  <2>3. CASE i = 7 + 4 * N
    <3>1. Access("Get", PgpStat, 0).op = "Get"
      BY DEF Access
    <3> QED BY <1>9, <2>3, <3>1
  <2> QED BY <2>1, <2>2, <2>3
<1> QED BY <1>4, <1>8, <1>9, <1>10

(* A counter reset is two accesses to cardRstStat. *)
LEMMA CountResetFacts ==
    /\ Access("Set", CardRst, 0) \in Acc /\ Release \in Acc
    /\ CountReset = <<Access("Set", CardRst, 0), Release>>
    /\ CountReset \in Seq(Acc) /\ <<Release>> \in Seq(Acc)
<1>1. Access("Set", CardRst, 0) \in Acc /\ Release \in Acc
  BY AccessType, RegFacts DEF Release
<1>2. CountReset = <<Access("Set", CardRst, 0), Release>>
  BY DEF CountReset, Release
<1> HIDE DEF Release
<1> QED BY <1>1, <1>2

(* The one access of a command that writes a value. *)
LEMMA PutFacts ==
    ASSUME NEW c \in Puts
    PROVE  /\ <<c.what, c.idx>> \in ValReg /\ <<c.what, c.idx>> # Scratch /\ c.cmd = "Put"
           /\ PutOf(c) \in Acc /\ PutOf(c).op = "Put" /\ PutOf(c).reg = <<c.what, c.idx>>
           /\ PutOf(c).x = c.arg /\ c.arg \in Nat
<1>1. <<c.what, c.idx>> \in ValReg /\ c.cmd = "Put" /\ c.arg \in Nat /\ c.what # "scratch"
  BY DEF Puts, CodeReg, DelayReg
<1>2. <<c.what, c.idx>> # Scratch
  BY <1>1 DEF Scratch
<1>3. <<c.what, c.idx>> \in Reg
  BY <1>1, RegFacts
<1> DEFINE r == <<c.what, c.idx>>
<1>4. PutOf(c) = Access("Put", r, c.arg)
  BY DEF PutOf
<1> HIDE DEF r
<1>5. r \in Reg
  BY <1>3 DEF r
<1>6. PutOf(c) \in Acc /\ PutOf(c).op = "Put" /\ PutOf(c).reg = r /\ PutOf(c).x = c.arg
  BY <1>1, <1>4, <1>5, AccessType
<1> QED BY <1>1, <1>2, <1>6 DEF r

(* The one access of a command that changes a field. *)
LEMMA ModifyFacts ==
    ASSUME NEW c \in Modifies
    PROVE  /\ FieldOf(c) \in Fields /\ c.cmd \in {"Set", "Clr"}
           /\ RegOf(FieldOf(c)) \in {PgpStat, EvrStat} /\ BitOf(FieldOf(c)) \in Bits
           /\ Modify(c) \in Acc /\ Modify(c).op = c.cmd /\ Modify(c).reg = RegOf(FieldOf(c))
           /\ Modify(c).x = BitOf(FieldOf(c))
<1>1. FieldOf(c) \in Fields /\ c.cmd \in {"Set", "Clr"}
  BY ModifyField
<1>2. BitOf(FieldOf(c)) \in Bits /\ BitOf(FieldOf(c)) \in Nat
  BY <1>1, BitType DEF Bits
<1>3. RegOf(FieldOf(c)) \in {PgpStat, EvrStat} /\ RegOf(FieldOf(c)) \in Reg
  BY RegFacts DEF RegOf
<1>4. Modify(c) = Access(c.cmd, RegOf(FieldOf(c)), BitOf(FieldOf(c)))
  BY ModifyField
<1> QED BY <1>1, <1>2, <1>3, <1>4, AccessType

(* The command code tells the kinds of commands apart. *)
LEMMA CommandKinds ==
    ASSUME NEW c \in Command
    PROVE  /\ c.cmd \in {"Set", "Clr"} <=> c \in Modifies
           /\ c.cmd = "Put" <=> c \in Puts
           /\ c.cmd \notin {"Set", "Clr", "Put"} <=> c \in Plain
           /\ c.arg \in Nat
<1>1. \A m \in Modifies : m.cmd \in {"Set", "Clr"} /\ m.arg \in Nat
  BY DEF Modifies
<1>2. \A m \in Puts : m.cmd = "Put" /\ m.arg \in Nat
  BY DEF Puts
<1>3. \A m \in Plain : m.cmd \notin {"Set", "Clr", "Put"} /\ m.arg \in Nat
  BY DEF Plain
<1> QED BY <1>1, <1>2, <1>3 DEF Command

(* What a command does on the bus. *)
LEMMA AccessesFacts ==
    ASSUME NEW c \in Command
    PROVE  /\ Accesses(c) \in Seq(Acc)
           /\ c \in Modifies => Accesses(c) = <<Modify(c)>>
           /\ c \in Puts => Accesses(c) = <<PutOf(c)>>
           /\ c.cmd = "Count_Reset" => Accesses(c) = CountReset
           /\ c.cmd = "Read_Status" => Accesses(c) = ReadStatus
           /\ c \in Plain /\ c.cmd \notin {"Count_Reset", "Read_Status"} => Accesses(c) = <<>>
<1>1. CASE c \in Modifies
  <2>1. Modify(c) \in Acc /\ c.cmd \in {"Set", "Clr"}
    BY <1>1, ModifyFacts
  <2>2. Accesses(c) = <<Modify(c)>>
    BY <2>1 DEF Accesses
  <2> HIDE DEF Modify
  <2>3. <<Modify(c)>> \in Seq(Acc)
    BY <2>1
  <2> QED BY <1>1, <2>1, <2>2, <2>3, CommandKinds
<1>2. CASE c \in Puts
  <2>1. PutOf(c) \in Acc /\ c.cmd = "Put"
    BY <1>2, PutFacts
  <2>2. Accesses(c) = <<PutOf(c)>>
    BY <2>1 DEF Accesses, PutOf
  <2>3. <<PutOf(c)>> \in Seq(Acc)
    BY <2>1
  <2> QED BY <1>2, <2>1, <2>2, <2>3, CommandKinds
<1>3. CASE c \in Plain
  <2>1. c.cmd \notin {"Set", "Clr", "Put"} /\ c \notin Modifies /\ c \notin Puts
    BY <1>3, CommandKinds
  <2>2. Accesses(c) = IF c.cmd = "Count_Reset" THEN CountReset
                      ELSE IF c.cmd = "Read_Status" THEN ReadStatus ELSE <<>>
    BY <2>1 DEF Accesses
  <2>3. CountReset \in Seq(Acc) /\ ReadStatus \in Seq(Acc) /\ <<>> \in Seq(Acc)
    BY CountResetFacts, ReadStatusFacts
  <2> QED BY <2>1, <2>2, <2>3
<1> QED BY <1>1, <1>2, <1>3 DEF Command

(* The registers a command uses. *)
LEMMA RegsFacts ==
    ASSUME NEW c \in Command
    PROVE  /\ RegsOf(c) \subseteq Reg
           /\ c \in Modifies => RegsOf(c) = {RegOf(FieldOf(c))}
           /\ c \in Puts => RegsOf(c) = {<<c.what, c.idx>>}
           /\ c.cmd = "Read_Status" => Scratch \in RegsOf(c)
<1>1. Accesses(c) \in Seq(Acc)
  BY AccessesFacts
<1>2. RegsOf(c) \subseteq Reg
  <2>1. \A i \in DOMAIN Accesses(c) : Accesses(c)[i] \in Acc
    BY <1>1
  <2>2. \A a \in Range(Accesses(c)) : a \in Acc
    BY <2>1 DEF Range
  <2> QED BY <2>2 DEF RegsOf, Acc
<1>3. ASSUME NEW a \in Acc, Accesses(c) = <<a>> PROVE RegsOf(c) = {a.reg}
  <2>1. Range(<<a>>) = {a}
    BY DEF Range
  <2> QED BY <1>3, <2>1 DEF RegsOf
<1>4. c \in Modifies => RegsOf(c) = {RegOf(FieldOf(c))}
  BY <1>3, AccessesFacts, ModifyFacts
<1>5. c \in Puts => RegsOf(c) = {<<c.what, c.idx>>}
  BY <1>3, AccessesFacts, PutFacts
<1>6. ASSUME c.cmd = "Read_Status" PROVE Scratch \in RegsOf(c)
  <2>1. Accesses(c) = ReadStatus /\ ReadStatus[1].reg = Scratch /\ 1 \in DOMAIN ReadStatus
    BY <1>6, AccessesFacts, ReadStatusFacts, AccessType, RegFacts DEF SPAD
  <2> QED BY <2>1 DEF RegsOf, Range
<1> QED BY <1>2, <1>4, <1>5, <1>6

-----------------------------------------------------------------------------
(* A rest of a status read begins where the read stopped, and what follows *)
(* its first access is a rest again.                                       *)
LEMMA RestFacts ==
    ASSUME NEW left \in Seq(Acc), Rest(left)
    PROVE  /\ Len(left) = Len(ReadStatus) => left = ReadStatus
           /\ left # ReadStatus => Len(left) < Len(ReadStatus)
           /\ left # <<>> =>
                /\ Head(left) = ReadStatus[Len(ReadStatus) - Len(left) + 1] /\ Head(left) \in Acc
                /\ Tail(left) \in Seq(Acc) /\ Len(Tail(left)) = Len(left) - 1
                /\ Rest(Tail(left)) /\ Tail(left) # ReadStatus
<1>1. ReadStatus \in Seq(Acc) /\ Len(ReadStatus) \in Nat
  BY ReadStatusFacts
<1>2. PICK n \in Nat : n = Len(ReadStatus)
  BY <1>1
<1>3. Len(left) \in Nat /\ Len(left) <= n /\ \A i \in 1 .. Len(left) : left[i] = ReadStatus[n - Len(left) + i]
  BY <1>2 DEF Rest
<1>4. ASSUME Len(left) = n PROVE left = ReadStatus
  <2>1. \A i \in 1 .. n : left[i] = ReadStatus[i]
    BY <1>3, <1>4
  <2> QED BY <1>1, <1>2, <1>4, <2>1
<1>5. ASSUME left # <<>>
      PROVE  /\ Head(left) = ReadStatus[n - Len(left) + 1] /\ Head(left) \in Acc
             /\ Tail(left) \in Seq(Acc) /\ Len(Tail(left)) = Len(left) - 1
             /\ Rest(Tail(left)) /\ Tail(left) # ReadStatus
  <2>1. /\ Len(left) >= 1 /\ Head(left) = left[1] /\ Head(left) \in Acc
        /\ Tail(left) \in Seq(Acc) /\ Len(Tail(left)) = Len(left) - 1
        /\ \A i \in 1 .. Len(Tail(left)) : Tail(left)[i] = left[i + 1]
    BY <1>5
  <2>2. \A i \in 1 .. Len(Tail(left)) : Tail(left)[i] = ReadStatus[n - Len(Tail(left)) + i]
    <3> SUFFICES ASSUME NEW i \in 1 .. Len(Tail(left))
                 PROVE  Tail(left)[i] = ReadStatus[n - Len(Tail(left)) + i]
      OBVIOUS
    <3>1. i + 1 \in 1 .. Len(left) /\ n - Len(left) + (i + 1) = n - Len(Tail(left)) + i
      BY <1>3, <2>1
    <3> QED BY <1>3, <2>1, <3>1
  <2>3. Len(Tail(left)) < n
    BY <1>3, <2>1
  <2>4. 1 \in 1 .. Len(left)
    BY <2>1
  <2> DEFINE rest == Tail(left)
  <2>5. /\ rest \in Seq(Acc) /\ Len(rest) < n /\ Len(rest) \in Nat
        /\ \A i \in 1 .. Len(rest) : rest[i] = ReadStatus[n - Len(rest) + i]
    BY <2>1, <2>2, <2>3
  <2> HIDE DEF rest
  <2>6. Rest(rest) /\ rest # ReadStatus
    BY <1>2, <2>5 DEF Rest
  <2>7. Head(left) = ReadStatus[n - Len(left) + 1]
    BY <1>3, <2>1, <2>4
  <2> QED BY <2>1, <2>6, <2>7 DEF rest
<1> QED BY <1>2, <1>3, <1>4, <1>5

(* The access a thread makes next, and what is left after it. *)
LEMMA NextAccess ==
    ASSUME NEW th \in ThreadType, ThreadOK(th), th.left # <<>>
    PROVE  /\ th.busy /\ Head(th.left) \in Acc /\ Tail(th.left) \in Seq(Acc)
           /\ \/ /\ th.call \in Modifies /\ th.left = <<Modify(th.call)>> /\ Tail(th.left) = <<>>
                 /\ Head(th.left).op = th.call.cmd /\ Head(th.left).op \in {"Set", "Clr"}
                 /\ Head(th.left).reg = RegOf(FieldOf(th.call))
                 /\ Head(th.left).x = BitOf(FieldOf(th.call))
              \/ /\ th.call \in Puts /\ th.left = <<PutOf(th.call)>> /\ Tail(th.left) = <<>>
                 /\ Head(th.left).op = "Put" /\ Head(th.left).reg = <<th.call.what, th.call.idx>>
                 /\ Head(th.left).x = th.call.arg
              \/ /\ th.call.cmd = "Count_Reset" /\ th.left = CountReset /\ Tail(th.left) = <<Release>>
                 /\ Head(th.left).op = "Set" /\ Head(th.left).reg = CardRst /\ Head(th.left).x = 0
              \/ /\ th.call.cmd = "Count_Reset" /\ th.left = <<Release>> /\ Tail(th.left) = <<>>
                 /\ Head(th.left).op = "Clr" /\ Head(th.left).reg = CardRst /\ Head(th.left).x = 0
              \/ /\ th.call.cmd = "Read_Status" /\ th.left = ReadStatus /\ Head(th.left).op = "Put"
                 /\ Head(th.left).reg = Scratch /\ Head(th.left).x = SPAD
                 /\ Rest(Tail(th.left)) /\ Tail(th.left) # ReadStatus
              \/ /\ th.call.cmd = "Read_Status" /\ th.left # ReadStatus /\ Head(th.left).op = "Get"
                 /\ Rest(Tail(th.left)) /\ Tail(th.left) # ReadStatus
<1>1. th.call \in Command /\ th.left \in Seq(Acc)
  BY DEF ThreadType
<1>2. th.busy
  <2>1. Idle.left = <<>>
    BY DEF Idle
  <2> QED BY <2>1 DEF ThreadOK
<1>3. Head(th.left) \in Acc /\ Tail(th.left) \in Seq(Acc)
  BY <1>1
<1>4. \A x \in Acc : Head(<<x>>) = x /\ Tail(<<x>>) = <<>>
  OBVIOUS
<1>5. CASE th.call \in Modifies
  <2>1. th.left = <<Modify(th.call)>>
    BY <1>5 DEF ThreadOK
  <2>2. Modify(th.call) \in Acc
    BY <1>5, ModifyFacts
  <2>3. Head(th.left) = Modify(th.call) /\ Tail(th.left) = <<>>
    BY <1>4, <2>1, <2>2
  <2> QED BY <1>2, <1>3, <1>5, <2>1, <2>3, ModifyFacts
<1>6. CASE th.call \in Puts
  <2>1. th.left = <<PutOf(th.call)>>
    BY <1>6 DEF ThreadOK
  <2>2. PutOf(th.call) \in Acc
    BY <1>6, PutFacts
  <2>3. Head(th.left) = PutOf(th.call) /\ Tail(th.left) = <<>>
    BY <1>4, <2>1, <2>2
  <2>4. /\ PutOf(th.call).op = "Put" /\ PutOf(th.call).reg = <<th.call.what, th.call.idx>>
        /\ PutOf(th.call).x = th.call.arg
    BY <1>6, PutFacts
  <2> QED BY <1>2, <1>3, <1>6, <2>1, <2>3, <2>4
<1>7. CASE th.call.cmd = "Count_Reset"
  <2>1. th.left = CountReset \/ th.left = <<Release>>
    BY <1>7 DEF ThreadOK
  <2> DEFINE on == Access("Set", CardRst, 0)
  <2>2. on \in Acc /\ Release \in Acc /\ CountReset = <<on, Release>>
    BY CountResetFacts
  <2>3. on.op = "Set" /\ on.reg = CardRst /\ on.x = 0 /\ Release.op = "Clr" /\ Release.reg = CardRst /\ Release.x = 0
    <3>1. CardRst \in Reg /\ 0 \in Nat /\ on = Access("Set", CardRst, 0) /\ Release = Access("Clr", CardRst, 0)
      BY RegFacts DEF Release
    <3> HIDE DEF on
    <3> QED BY <3>1, AccessType
  <2> HIDE DEF on, Release
  <2>4. Head(CountReset) = on /\ Tail(CountReset) = <<Release>>
    BY <2>2
  <2>5. CASE th.left = CountReset
    BY <1>2, <1>3, <1>7, <2>3, <2>4, <2>5
  <2>6. CASE th.left = <<Release>>
    <3>1. Head(th.left) = Release /\ Tail(th.left) = <<>>
      BY <1>4, <2>2, <2>6
    <3> QED BY <1>2, <1>3, <1>7, <2>3, <2>6, <3>1
  <2> QED BY <2>1, <2>5, <2>6
<1>8. CASE th.call.cmd = "Read_Status"
  <2>1. Rest(th.left)
    BY <1>8 DEF ThreadOK
  <2>2. /\ Head(th.left) = ReadStatus[Len(ReadStatus) - Len(th.left) + 1]
        /\ Rest(Tail(th.left)) /\ Tail(th.left) # ReadStatus
    BY <1>1, <2>1, RestFacts
  <2>3. CASE th.left = ReadStatus
    <3>1. Head(th.left) = ReadStatus[1]
      BY <2>3, ReadStatusFacts
    <3>2. ReadStatus[1].op = "Put" /\ ReadStatus[1].reg = Scratch /\ ReadStatus[1].x = SPAD
      BY RegFacts, AccessType, ReadStatusFacts DEF SPAD
    <3> QED BY <1>2, <1>3, <1>8, <2>2, <2>3, <3>1, <3>2
  <2>4. CASE th.left # ReadStatus
    <3>1. Len(th.left) < Len(ReadStatus) /\ Len(th.left) >= 1 /\ Len(th.left) \in Nat
      BY <1>1, <2>1, <2>4, RestFacts
    <3>2. PICK i \in Nat : i = Len(ReadStatus) - Len(th.left) + 1 /\ i \in 2 .. Len(ReadStatus)
      <4>1. Len(ReadStatus) \in Nat
        BY ReadStatusFacts
      <4>2. /\ Len(ReadStatus) - Len(th.left) + 1 \in Nat
            /\ Len(ReadStatus) - Len(th.left) + 1 \in 2 .. Len(ReadStatus)
        BY <3>1, <4>1
      <4> QED BY <4>2
    <3>3. ReadStatus[i].op = "Get"
      BY <3>2, ReadStatusFacts
    <3> QED BY <1>2, <1>3, <1>8, <2>2, <2>4, <3>2, <3>3
  <2> QED BY <2>3, <2>4
<1>9. CASE th.call \in Plain /\ th.call.cmd \notin {"Count_Reset", "Read_Status"}
  BY <1>9 DEF ThreadOK
<1> QED BY <1>1, <1>5, <1>6, <1>7, <1>8, <1>9 DEF Command

(* A thread that has made its next access is still inside its command. *)
LEMMA ThreadAdvance ==
    ASSUME NEW th \in ThreadType, ThreadOK(th), th.left # <<>>,
           NEW th2 \in ThreadType, th2.busy = th.busy, th2.call = th.call, th2.left = Tail(th.left), ~th2.loaded
    PROVE  ThreadOK(th2)
<1>1. th.busy /\ th2.busy
  BY NextAccess
<1>2. th.call \in Command
  BY DEF ThreadType
<1>3. CASE th.call \in Modifies
  <2>1. Tail(th.left) = <<>> /\ th.call \notin Puts /\ th.call \notin Plain
        /\ th.call.cmd \notin {"Count_Reset", "Read_Status"}
    BY <1>2, <1>3, NextAccess, CommandKinds
  <2> QED BY <1>1, <1>3, <2>1 DEF ThreadOK
<1>4. CASE th.call \in Puts
  <2>1. Tail(th.left) = <<>> /\ th.call \notin Modifies /\ th.call \notin Plain
        /\ th.call.cmd \notin {"Count_Reset", "Read_Status"}
    BY <1>2, <1>4, NextAccess, CommandKinds
  <2> QED BY <1>1, <1>4, <2>1 DEF ThreadOK
<1>5. CASE th.call.cmd = "Count_Reset"
  <2>1. Tail(th.left) \in {<<Release>>, <<>>} /\ th.call \notin Modifies /\ th.call \notin Puts
    BY <1>2, <1>5, NextAccess, CommandKinds
  <2> QED BY <1>1, <1>5, <2>1 DEF ThreadOK
<1>6. CASE th.call.cmd = "Read_Status"
  <2>1. Rest(Tail(th.left)) /\ th.call \notin Modifies /\ th.call \notin Puts
    BY <1>2, <1>6, NextAccess, CommandKinds
  <2> QED BY <1>1, <1>6, <2>1 DEF ThreadOK
<1>7. CASE th.call \in Plain /\ th.call.cmd \notin {"Count_Reset", "Read_Status"}
  BY <1>7 DEF ThreadOK
<1> QED BY <1>2, <1>3, <1>4, <1>5, <1>6, <1>7 DEF Command

-----------------------------------------------------------------------------
(* A thread outside my_Ioctl. *)
LEMMA IdleFacts ==
    /\ Idle \in ThreadType /\ ThreadOK(Idle)
    /\ Idle.call \in Plain /\ Idle.call \notin Modifies /\ Idle.call \notin Puts /\ Idle.call.cmd = "NOP"
    /\ ~Idle.busy /\ ~Idle.loaded /\ ~Idle.alone /\ Idle.left = <<>> /\ Idle.word = {}
<1> DEFINE nop == Tx("NOP", "", 0, 0)
<1>1. nop \in Plain /\ nop \in Command /\ nop.cmd = "NOP"
  BY DEF Plain, Tx, Command
<1>2. nop \notin Modifies /\ nop \notin Puts
  BY <1>1, CommandKinds
<1> HIDE DEF nop
<1>3. Idle = [busy |-> FALSE, call |-> nop, left |-> <<>>, loaded |-> FALSE, word |-> {}, snap |-> <<>>,
              alone |-> FALSE]
  BY DEF Idle, nop
<1>4. Idle \in ThreadType
  BY <1>1, <1>3 DEF ThreadType
<1>5. /\ Idle.call = nop /\ ~Idle.busy /\ ~Idle.loaded /\ ~Idle.alone /\ Idle.left = <<>> /\ Idle.word = {}
  BY <1>3
<1> QED BY <1>1, <1>2, <1>4, <1>5 DEF ThreadOK

(* The program has a thread. *)
LEMMA MainFact == Main \in Threads
BY DEF Main

(* The invariant holds when the driver is loaded. *)
LEMMA InitInv == Init => IoctlInv
<1> SUFFICES ASSUME Init PROVE IoctlInv
  OBVIOUS
<1>1. /\ bits = [r \in BitReg |-> {}] /\ val = [r \in ValReg |-> 0] /\ put = val /\ debug = 0
      /\ asked = {} /\ want = {} /\ raced = {} /\ fresh = FALSE /\ prog = "none" /\ todo = <<>>
      /\ \A t \in Threads : thread[t] = Idle
      /\ thread = [t \in Threads |-> Idle]
  BY DEF Init
<1>2. bits[PgpStat] = {} /\ bits[EvrStat] = {} /\ bits[CardRst] = {}
  BY <1>1, RegFacts
<1>3. Types
  BY <1>1, IdleFacts DEF Types, TypeOK
<1>4. ThreadsOK
  BY <1>1, IdleFacts DEF ThreadsOK
<1>5. AskedOK
  BY <1>1, <1>2, IdleFacts DEF AskedOK, AskedBits
<1>6. CountOK
  BY <1>1, <1>2, IdleFacts DEF CountOK
<1>7. PairsOK /\ LoadedOK /\ AloneOK
  BY <1>1, IdleFacts DEF PairsOK, LoadedOK, AloneOK
<1>8. FieldsOK
  <2>1. \A f \in Fields : bits[RegOf(f)] = {}
    BY <1>2 DEF RegOf
  <2> QED BY <1>1, <2>1, IdleFacts DEF FieldsOK, Did
<1>9. ValsOK
  BY <1>1, IdleFacts DEF ValsOK, Wrote
<1>10. StatusOK
  BY <1>1, IdleFacts DEF StatusOK
<1>11. ProgOK
  BY <1>1, IdleFacts DEF ProgOK, Quiet
<1> QED BY <1>3, <1>4, <1>5, <1>6, <1>7, <1>8, <1>9, <1>10, <1>11 DEF IoctlInv

(* A step of thread t that stays inside its command. *)
LEMMA Frame ==
    ASSUME Types, PairsOK, AloneOK, StatusOK, NEW t \in Threads, NEW th \in ThreadType, thread[t].busy,
           thread' = [thread EXCEPT ![t] = th], raced' = raced,
           th.busy = thread[t].busy, th.call = thread[t].call, th.alone = thread[t].alone
    PROVE  /\ thread' \in [Threads -> ThreadType]
           /\ thread'[t] = th /\ \A u \in Threads \ {t} : thread'[u] = thread[u]
           /\ \A u \in Threads : /\ thread'[u].busy = thread[u].busy /\ thread'[u].call = thread[u].call
                                 /\ thread'[u].alone = thread[u].alone
           /\ PairsOK' /\ AloneOK' /\ ~fresh
<1>1. thread \in [Threads -> ThreadType]
  BY DEF Types
<1>2. thread'[t] = th /\ \A u \in Threads \ {t} : thread'[u] = thread[u]
  BY <1>1
<1>3. thread' \in [Threads -> ThreadType]
  BY <1>1
<1>4. \A u \in Threads : /\ thread'[u].busy = thread[u].busy /\ thread'[u].call = thread[u].call
                         /\ thread'[u].alone = thread[u].alone
  BY <1>2
<1>5. PairsOK'
  BY <1>4 DEF PairsOK
<1>6. AloneOK'
  BY <1>4 DEF AloneOK
<1>7. ~fresh
  BY DEF StatusOK, Quiet
<1> QED BY <1>2, <1>3, <1>4, <1>5, <1>6, <1>7

(* Reading the register in the first half of a |= or &= preserves the      *)
(* invariant.                                                              *)
LEMMA LoadStep ==
    ASSUME IoctlInv, NEW t \in Threads, Load(t)
    PROVE  IoctlInv'
<1>0. Types /\ ThreadsOK /\ AskedOK /\ CountOK /\ PairsOK /\ LoadedOK /\ FieldsOK /\ ValsOK /\ AloneOK
      /\ StatusOK /\ ProgOK
  BY DEF IoctlInv
<1> DEFINE old == thread[t]
           a   == Head(thread[t].left)
           th  == [thread[t] EXCEPT !.loaded = TRUE, !.word = bits[Head(thread[t].left).reg]]
<1>1. /\ old.left # <<>> /\ a.op \in {"Set", "Clr"} /\ thread' = [thread EXCEPT ![t] = th]
      /\ UNCHANGED <<bits, val, debug, prog, todo, status, budget, asked, want, put, raced, fresh>>
  BY DEF Load, Doing, Step, hw, history
<1>2. old \in ThreadType /\ ThreadOK(old) /\ bits \in [BitReg -> SUBSET Bits]
  BY <1>0 DEF Types, TypeOK, ThreadsOK, Bits
<1>3. /\ old.busy
      /\ \/ old.call \in Modifies /\ a.reg = RegOf(FieldOf(old.call)) /\ a.reg \in {PgpStat, EvrStat}
         \/ old.call.cmd = "Count_Reset" /\ a.reg = CardRst
  <2> HIDE DEF old, a
  <2>1. a = Head(old.left)
    BY DEF old, a
  <2> QED BY <1>1, <1>2, <2>1, NextAccess, ModifyFacts
<1>4. a.reg \in BitReg /\ bits[a.reg] \in SUBSET Bits
  BY <1>2, <1>3, RegFacts
<1>5. th \in ThreadType /\ th = [old EXCEPT !.loaded = TRUE, !.word = bits[a.reg]]
  BY <1>2, <1>4 DEF ThreadType
<1>6. /\ th.busy = old.busy /\ th.call = old.call /\ th.left = old.left /\ th.alone = old.alone
      /\ th.loaded /\ th.word = bits[a.reg] /\ th.snap = old.snap
  BY <1>2 DEF ThreadType
<1> HIDE DEF th, a, old
<1>7. /\ thread' \in [Threads -> ThreadType]
      /\ thread'[t] = th /\ \A u \in Threads \ {t} : thread'[u] = thread[u]
      /\ \A u \in Threads : /\ thread'[u].busy = thread[u].busy /\ thread'[u].call = thread[u].call
                            /\ thread'[u].alone = thread[u].alone
      /\ PairsOK' /\ AloneOK' /\ ~fresh
  BY <1>0, <1>1, <1>3, <1>5, <1>6, Frame DEF old
<1>8. \A u \in Threads : thread'[u].left = thread[u].left /\ thread'[u].snap = thread[u].snap
  BY <1>6, <1>7 DEF old
<1>9. Types'
  BY <1>0, <1>1, <1>7 DEF Types, TypeOK
<1>10. ThreadsOK'
  <2>1. ThreadOK(th)
    BY <1>1, <1>2, <1>3, <1>6 DEF ThreadOK, a, old
  <2> QED BY <1>0, <1>7, <2>1 DEF ThreadsOK
<1>11. AskedOK'
  <2>1. asked' = asked /\ bits' = bits
    BY <1>1
  <2>2. ASSUME th.call \in Modifies PROVE AskedBits(th.word, RegOf(FieldOf(th.call)))
    <3>1. old.call \notin Plain /\ th.call.cmd # "Count_Reset"
      BY <1>2, <1>6, <2>2, CommandKinds DEF ThreadType
    <3> QED BY <1>0, <1>3, <1>6, <3>1 DEF AskedOK
  <2> QED BY <1>0, <1>6, <1>7, <2>1, <2>2 DEF AskedOK, AskedBits, old
<1>12. CountOK'
  <2>1. bits' = bits /\ Releasing' = Releasing
    BY <1>1, <1>7, <1>8 DEF Releasing
  <2>2. th.call.cmd = "Count_Reset" => th.word \subseteq {0}
    <3>1. old.call \in Modifies => old.call.cmd # "Count_Reset"
      BY ModifyFacts
    <3> QED BY <1>0, <1>3, <1>6, <3>1 DEF CountOK
  <2> QED BY <1>0, <1>7, <2>1, <2>2 DEF CountOK
<1>13. LoadedOK'
  <2>1. th.call \in Modifies => th.word = bits[RegOf(FieldOf(th.call))]
    BY <1>3, <1>6, ModifyFacts
  <2> QED BY <1>0, <1>1, <1>7, <2>1 DEF LoadedOK
<1>14. FieldsOK'
  BY <1>0, <1>1, <1>7, <1>8 DEF FieldsOK, Did
<1>15. ValsOK'
  BY <1>0, <1>1, <1>7, <1>8 DEF ValsOK, Wrote, Stored
<1>16. StatusOK'
  <2>1. bits' = bits /\ val' = val /\ ~fresh'
    BY <1>1, <1>7
  <2>2. ASSUME NEW u \in Threads PROVE Shows(thread[u]) => Shows(thread[u])'
    BY <1>8, <2>1 DEF Shows, Contents
  <2> QED BY <1>0, <1>7, <2>1, <2>2 DEF StatusOK
<1>17. ProgOK'
  <2>1. thread'[Main].loaded => \/ Main = t /\ thread'[Main].word = bits'[Head(thread'[Main].left).reg]
                                \/ thread'[Main] = thread[Main]
    BY <1>1, <1>6, <1>7, MainFact DEF a, old
  <2>2. ResetOK => ResetOK'
    BY <1>1, <1>7, <1>8, <2>1, MainFact DEF ResetOK, Made
  <2>3. Quiet' = Quiet
    BY <1>7 DEF Quiet
  <2> QED BY <1>0, <1>1, <1>7, <2>2, <2>3 DEF ProgOK
<1> QED BY <1>7, <1>9, <1>10, <1>11, <1>12, <1>13, <1>14, <1>15, <1>16, <1>17 DEF IoctlInv

-----------------------------------------------------------------------------
(* Only one thread at a time uses a register that no two commands raced for. *)
LEMMA SoleUser ==
    ASSUME Types, PairsOK, NEW t \in Threads, NEW u \in Threads, t # u, thread[t].busy, thread[u].busy,
           NEW r, r \in RegsOf(thread[t].call), r \in RegsOf(thread[u].call)
    PROVE  r \in raced
BY DEF PairsOK

(* Writing it back preserves the invariant: an unraced register still      *)
(* holds the word that was read.                                           *)
LEMMA StoreStep ==
    ASSUME IoctlInv, NEW t \in Threads, Store(t)
    PROVE  IoctlInv'
<1>0. Types /\ ThreadsOK /\ AskedOK /\ CountOK /\ PairsOK /\ LoadedOK /\ FieldsOK /\ ValsOK /\ AloneOK
      /\ StatusOK /\ ProgOK
  BY DEF IoctlInv
<1> DEFINE old == thread[t]
           a   == Head(thread[t].left)
           w   == IF a.op = "Set" THEN old.word \cup {a.x} ELSE old.word \ {a.x}
           th  == [thread[t] EXCEPT !.loaded = FALSE, !.word = {}, !.left = Tail(@)]
<1>1. /\ old.left # <<>> /\ a.op \in {"Set", "Clr"} /\ old.loaded
      /\ thread' = [thread EXCEPT ![t] = th] /\ bits' = [bits EXCEPT ![a.reg] = w]
      /\ UNCHANGED <<val, debug, prog, todo, status, budget, asked, want, put, raced, fresh>>
  BY DEF Store, Doing, Step, history
<1>2. old \in ThreadType /\ ThreadOK(old) /\ bits \in [BitReg -> SUBSET Bits]
  BY <1>0 DEF Types, TypeOK, ThreadsOK, Bits
<1>3. /\ old.busy /\ a \in Acc /\ Tail(old.left) \in Seq(Acc)
      /\ \/ /\ old.call \in Modifies /\ a.op = old.call.cmd /\ a.reg = RegOf(FieldOf(old.call))
            /\ a.x = BitOf(FieldOf(old.call)) /\ Tail(old.left) = <<>> /\ a.x \in Bits
            /\ a.reg \in {PgpStat, EvrStat} /\ FieldOf(old.call) \in Fields
         \/ /\ old.call.cmd = "Count_Reset" /\ a.reg = CardRst /\ a.x = 0
            /\ \/ a.op = "Set" /\ Tail(old.left) = <<Release>>
               \/ a.op = "Clr" /\ Tail(old.left) = <<>>
  <2> HIDE DEF old, a
  <2>1. a = Head(old.left)
    BY DEF old, a
  <2> QED BY <1>1, <1>2, <2>1, NextAccess, ModifyFacts
<1>4. 0 \in Bits /\ a.x \in Bits /\ a.reg \in BitReg
  BY <1>3, RegFacts DEF Bits
<1>5. old.word \in SUBSET Bits /\ w \in SUBSET Bits
  BY <1>2, <1>4 DEF ThreadType
<1>6. th \in ThreadType
  BY <1>2, <1>3 DEF ThreadType
<1>7. /\ th.busy = old.busy /\ th.call = old.call /\ th.left = Tail(old.left) /\ th.alone = old.alone
      /\ ~th.loaded /\ th.word = {} /\ th.snap = old.snap
  BY <1>2 DEF ThreadType
<1>8. bits' \in [BitReg -> SUBSET Bits] /\ bits'[a.reg] = w /\ \A r \in BitReg \ {a.reg} : bits'[r] = bits[r]
  BY <1>1, <1>2, <1>4, <1>5
<1>9. old.call \in Command /\ (old.call \in Modifies => old.call.cmd \in {"Set", "Clr"})
  BY <1>2, ModifyFacts DEF ThreadType
<1> HIDE DEF th, a, w, old
<1>10. /\ thread' \in [Threads -> ThreadType]
       /\ thread'[t] = th /\ \A u \in Threads \ {t} : thread'[u] = thread[u]
       /\ \A u \in Threads : /\ thread'[u].busy = thread[u].busy /\ thread'[u].call = thread[u].call
                             /\ thread'[u].alone = thread[u].alone
       /\ PairsOK' /\ AloneOK' /\ ~fresh
  BY <1>0, <1>1, <1>3, <1>6, <1>7, Frame DEF old
<1>11. Types'
  BY <1>0, <1>1, <1>8, <1>10 DEF Types, TypeOK, Bits
<1>12. ThreadsOK'
  <2>1. ThreadOK(th)
    BY <1>1, <1>2, <1>6, <1>7, ThreadAdvance
  <2> QED BY <1>0, <1>10, <2>1 DEF ThreadsOK
<1>13. AskedOK'
  <2>1. asked' = asked
    BY <1>1
  <2>2. ASSUME old.call \in Modifies PROVE AskedBits(w, a.reg)
    <3>1. a.reg = RegOf(FieldOf(old.call)) /\ a.x = BitOf(FieldOf(old.call)) /\ FieldOf(old.call) \in Fields
          /\ a.op = old.call.cmd
      BY <1>3, <1>9, <2>2
    <3>2. AskedBits(old.word, a.reg) /\ (a.op = "Set" => FieldOf(old.call) \in asked)
      BY <1>0, <2>2, <3>1 DEF AskedOK, old
    <3>3. ASSUME NEW f \in Fields, RegOf(f) = a.reg, BitOf(f) \in w PROVE f \in asked
      <4>1. CASE BitOf(f) \in old.word
        BY <3>2, <3>3, <4>1 DEF AskedBits
      <4>2. CASE BitOf(f) = a.x /\ a.op = "Set"
        <5>1. f = FieldOf(old.call)
          BY <3>1, <3>3, <4>2, BitInjective
        <5> QED BY <3>2, <4>2, <5>1
      <4> QED BY <3>3, <4>1, <4>2 DEF w
    <3> QED BY <3>3 DEF AskedBits
  <2>3. ASSUME NEW r \in {PgpStat, EvrStat} PROVE AskedBits(bits'[r], r)
    <3>1. AskedBits(bits[r], r)
      BY <1>0 DEF AskedOK
    <3>2. CASE r = a.reg
      <4>1. old.call \in Modifies
        BY <1>3, <3>2, RegFacts
      <4> QED BY <1>8, <2>2, <3>2, <4>1
    <3>3. CASE r # a.reg
      BY <1>8, <3>1, <3>3, RegFacts
    <3> QED BY <3>2, <3>3
  <2>4. ASSUME NEW r PROVE AskedBits(th.word, r)
    BY <1>7 DEF AskedBits
  <2>5. ASSUME NEW u \in Threads, thread'[u].call \in Modifies
        PROVE  /\ thread'[u].call.cmd = "Set" => FieldOf(thread'[u].call) \in asked
               /\ AskedBits(thread'[u].word, RegOf(FieldOf(thread'[u].call)))
    BY <1>0, <1>7, <1>10, <2>4, <2>5 DEF AskedOK, old
  <2>6. ASSUME NEW S, NEW r PROVE AskedBits(S, r) => AskedBits(S, r)'
    BY <2>1 DEF AskedBits
  <2> QED BY <2>1, <2>3, <2>5, <2>6 DEF AskedOK, AskedBits
<1>14. CountOK'
  <2>1. CASE old.call \in Modifies
    <3>1. bits'[CardRst] = bits[CardRst] /\ th.call.cmd # "Count_Reset" /\ old.call.cmd # "Count_Reset"
      BY <1>3, <1>7, <1>8, <1>9, <2>1, RegFacts
    <3>2. Releasing' = Releasing
      BY <1>10, <3>1 DEF Releasing, old
    <3> QED BY <1>0, <1>10, <3>1, <3>2 DEF CountOK
  <2>2. CASE old.call.cmd = "Count_Reset"
    <3>1. old.word \subseteq {0} /\ a.reg = CardRst /\ a.x = 0 /\ bits'[CardRst] = w
      BY <1>0, <1>3, <1>8, <1>9, <2>2 DEF CountOK, old
    <3>2. w \subseteq {0} /\ (w # {} => a.op = "Set")
      BY <3>1 DEF w
    <3>3. a.op = "Set" => t \in Releasing'
      BY <1>3, <1>7, <1>9, <1>10, <2>2 DEF Releasing
    <3> QED BY <1>0, <1>7, <1>10, <3>1, <3>2, <3>3 DEF CountOK
  <2> QED BY <1>3, <2>1, <2>2
<1>15. \A u \in Threads \ {t} :
          /\ thread[u].call \in Modifies /\ thread[u].busy
          /\ RegOf(FieldOf(thread[u].call)) = a.reg
          => a.reg \in raced
  <2> SUFFICES ASSUME NEW u \in Threads \ {t}, thread[u].call \in Modifies, thread[u].busy,
                      RegOf(FieldOf(thread[u].call)) = a.reg
               PROVE  a.reg \in raced
    OBVIOUS
  <2>1. thread[u].call \in Command
    BY <1>0 DEF Types, ThreadType
  <2>2. a.reg \in RegsOf(thread[u].call)
    BY <2>1, RegsFacts
  <2>3. old.call \in Modifies
    BY <1>3, RegFacts, ModifyFacts
  <2>4. a.reg \in RegsOf(old.call)
    BY <1>3, <1>9, <2>3, RegsFacts
  <2> QED BY <1>0, <1>3, <2>2, <2>4, SoleUser DEF old
<1>16. \A u \in Threads : ~thread[u].busy => thread[u] = Idle
  BY <1>0 DEF ThreadsOK, ThreadOK
<1>17. LoadedOK'
  <2> SUFFICES ASSUME NEW u \in Threads, thread'[u].call \in Modifies, thread'[u].loaded,
                      RegOf(FieldOf(thread'[u].call)) \notin raced
               PROVE  thread'[u].word = bits'[RegOf(FieldOf(thread'[u].call))]
    BY <1>1 DEF LoadedOK
  <2>1. u # t /\ thread'[u] = thread[u]
    BY <1>7, <1>10
  <2>2. thread[u].busy
    BY <1>16, <2>1, IdleFacts
  <2>3. RegOf(FieldOf(thread[u].call)) # a.reg
    BY <1>15, <2>1, <2>2
  <2>4. RegOf(FieldOf(thread[u].call)) \in BitReg
    BY <2>1, ModifyFacts, RegFacts
  <2> QED BY <1>0, <1>8, <2>1, <2>3, <2>4 DEF LoadedOK
<1>18. FieldsOK'
  <2> SUFFICES ASSUME NEW f \in Fields, RegOf(f) \notin raced
               PROVE  /\ \A u \in Threads : Did(thread'[u], f) =>
                            (BitOf(f) \in bits'[RegOf(f)] <=> thread'[u].call.cmd = "Set")
                      /\ (\A u \in Threads : ~Did(thread'[u], f)) => (BitOf(f) \in bits'[RegOf(f)] <=> f \in want)
    BY <1>1 DEF FieldsOK, Did
  <2>1. /\ \A u \in Threads : Did(thread[u], f) => (BitOf(f) \in bits[RegOf(f)] <=> thread[u].call.cmd = "Set")
        /\ (\A u \in Threads : ~Did(thread[u], f)) => (BitOf(f) \in bits[RegOf(f)] <=> f \in want)
    BY <1>0 DEF FieldsOK
  <2>2. ~Did(old, f) /\ (Did(th, f) <=> old.call \in Modifies /\ FieldOf(old.call) = f)
    BY <1>1, <1>3, <1>7, <1>9 DEF Did
  <2>3. RegOf(f) \in BitReg
    BY BitType
  <2>4. CASE RegOf(f) # a.reg
    <3>1. bits'[RegOf(f)] = bits[RegOf(f)]
      BY <1>8, <2>3, <2>4
    <3>2. ~Did(th, f)
      BY <1>3, <1>9, <2>2, <2>4
    <3> QED BY <1>10, <2>1, <2>2, <3>1, <3>2 DEF old
  <2>5. CASE RegOf(f) = a.reg
    <3>1. old.call \in Modifies
      <4>1. RegOf(f) # CardRst
        BY RegFacts DEF RegOf
      <4> QED BY <1>3, <2>5, <4>1
    <3>2. /\ a.reg = RegOf(FieldOf(old.call)) /\ a.x = BitOf(FieldOf(old.call)) /\ FieldOf(old.call) \in Fields
          /\ a.op = old.call.cmd
      BY <1>3, <1>9, <3>1
    <3>3. old.word = bits[a.reg]
      BY <1>0, <1>1, <2>5, <3>1, <3>2 DEF LoadedOK, old
    <3>4. ASSUME NEW u \in Threads \ {t} PROVE ~Did(thread[u], f)
      BY <1>15, <1>16, <2>5, IdleFacts DEF Did
    <3>5. BitOf(f) \in bits[a.reg] <=> f \in want
      BY <2>1, <2>2, <2>5, <3>4 DEF old
    <3>6. CASE f = FieldOf(old.call)
      <4>1. BitOf(f) \in w <=> th.call.cmd = "Set"
        BY <1>1, <1>7, <3>2, <3>6 DEF w
      <4>2. Did(thread'[t], f)
        BY <1>10, <2>2, <3>1, <3>6
      <4> QED BY <1>8, <1>10, <2>5, <3>4, <4>1, <4>2
    <3>7. CASE f # FieldOf(old.call)
      <4>1. BitOf(f) # a.x
        BY <2>5, <3>2, <3>7, BitInjective
      <4>2. BitOf(f) \in w <=> BitOf(f) \in bits[a.reg]
        BY <3>3, <4>1 DEF w
      <4> QED BY <1>8, <1>10, <2>2, <2>5, <3>4, <3>5, <3>7, <4>2
    <3> QED BY <3>6, <3>7
  <2> QED BY <2>4, <2>5
<1>19. ValsOK'
  <2>1. old.call \notin Puts /\ old.call.cmd # "Read_Status"
    BY <1>3, <1>9, CommandKinds
  <2>2. ASSUME NEW u \in Threads, NEW r
        PROVE  (Wrote(thread'[u], r) <=> Wrote(thread[u], r)) /\ (Wrote(thread[u], r) => thread'[u] = thread[u])
    BY <1>10, <2>1 DEF Wrote, old
  <2> QED BY <1>0, <1>1, <2>2 DEF ValsOK, Wrote, Stored
<1>20. StatusOK'
  <2>1. \A u \in Threads : thread'[u].call.cmd = "Read_Status" => ~thread'[u].alone
    BY <1>0, <1>3, <1>9, <1>10 DEF AloneOK, old
  <2> QED BY <1>1, <1>10, <2>1 DEF StatusOK
<1>21. ProgOK'
  <2>1. Quiet' = Quiet
    BY <1>10 DEF Quiet
  <2>2. ASSUME prog = "xReset" PROVE ResetOK'
    <3>1. ResetOK /\ t = Main
      BY <1>0, <1>3, <2>2 DEF ProgOK, old
    <3>2. todo' = todo /\ Made' = Made /\ thread'[Main] = th /\ thread[Main] = old
      BY <1>1, <1>10, <3>1 DEF Made, old
    <3>3. Made >= 1 /\ old.call = xReset[Made] /\ old.word = bits[a.reg]
      BY <1>1, <1>3, <3>1, <3>2 DEF ResetOK, a, old
    <3>4. Made \in Nat /\ Made <= Len(xReset) /\ Len(xReset) \in Nat
      <4>1. Len(xReset) \in Nat /\ Len(todo) \in Nat
        BY <1>0, ProgramCommands DEF Types
      <4> QED BY <3>3, <4>1 DEF Made
    <3>5. ASSUME NEW j \in 1 .. Made, LastClr(j), j = Made => th.left = <<>>
          PROVE  BitOf(FieldOf(xReset[j])) \notin bits'[RegOf(FieldOf(xReset[j]))]
      <4> DEFINE f == FieldOf(xReset[j])
      <4>1. f \in Fields /\ RegOf(f) \in BitReg /\ RegOf(f) # CardRst
        BY <3>5, ModifyFacts, RegFacts DEF LastClr
      <4>2. CASE j = Made
        <5>1. old.call \in Modifies /\ a.op = "Clr" /\ a.reg = RegOf(f) /\ a.x = BitOf(f)
          BY <1>3, <1>9, <3>3, <3>5, <4>2 DEF LastClr
        <5> QED BY <1>8, <5>1 DEF w
      <4>3. CASE j # Made
        <5>1. BitOf(f) \notin bits[RegOf(f)]
          BY <3>1, <3>5, <4>3 DEF ResetOK
        <5>2. CASE RegOf(f) # a.reg
          BY <1>8, <4>1, <5>1, <5>2
        <5>3. CASE RegOf(f) = a.reg
          <6>1. old.call \in Modifies
            BY <1>3, <4>1, <5>3
          <6>2. /\ a.reg = RegOf(FieldOf(old.call)) /\ a.x = BitOf(FieldOf(old.call))
                /\ FieldOf(old.call) \in Fields /\ a.op = old.call.cmd
            BY <1>3, <1>9, <6>1
          <6>3. a.op = "Set" => a.x # BitOf(f)
            <7>1. Made \in (j + 1) .. Len(xReset)
              BY <3>4, <4>3
            <7>2. a.op = "Set" => FieldOf(old.call) # f
              BY <3>3, <3>5, <6>2, <7>1 DEF LastClr
            <7> HIDE DEF f
            <7> QED BY <4>1, <5>3, <6>2, <7>2, BitInjective
          <6> QED BY <1>8, <3>3, <5>1, <5>3, <6>3 DEF w
        <5> QED BY <5>2, <5>3
      <4> QED BY <4>2, <4>3
    <3>6. \A j : LastClr(j)' <=> LastClr(j)
      BY DEF LastClr
    <3> QED BY <1>3, <1>7, <3>1, <3>2, <3>3, <3>5, <3>6 DEF ResetOK
  <2> QED BY <1>0, <1>1, <1>10, <2>1, <2>2 DEF ProgOK
<1> QED BY <1>10, <1>11, <1>12, <1>13, <1>14, <1>17, <1>18, <1>19, <1>20, <1>21 DEF IoctlInv

-----------------------------------------------------------------------------
(* What a register keeps of a number is a number. *)
LEMMA KeptType == ASSUME NEW r, NEW x \in Nat PROVE Kept(r, x) \in Nat
<1>1. x % CodeMod \in Nat
  OBVIOUS
<1> QED BY <1>1 DEF Kept

(* The scratch pad keeps the whole word. *)
LEMMA KeptScratch == Kept(Scratch, SPAD) = SPAD
BY DEF Kept, Scratch, CodeReg

(* A thread that wrote a register is inside a command that uses it. *)
LEMMA WroteUses ==
    ASSUME Types, ThreadsOK, NEW u \in Threads, NEW r, Wrote(thread[u], r)
    PROVE  thread[u].busy /\ r \in RegsOf(thread[u].call)
<1>1. thread[u].call \in Command
  BY DEF Types, ThreadType
<1>2. thread[u].busy
  BY IdleFacts DEF ThreadsOK, ThreadOK, Wrote
<1> QED BY <1>1, <1>2, RegsFacts DEF Wrote

(* Writing a value preserves the invariant. *)
LEMMA PutRegStep ==
    ASSUME IoctlInv, NEW t \in Threads, PutReg(t)
    PROVE  IoctlInv'
<1>0. Types /\ ThreadsOK /\ AskedOK /\ CountOK /\ PairsOK /\ LoadedOK /\ FieldsOK /\ ValsOK /\ AloneOK
      /\ StatusOK /\ ProgOK
  BY DEF IoctlInv
<1> DEFINE old == thread[t]
           a   == Head(thread[t].left)
           th  == [thread[t] EXCEPT !.left = Tail(@)]
<1>1. /\ old.left # <<>> /\ a.op = "Put"
      /\ thread' = [thread EXCEPT ![t] = th] /\ val' = [val EXCEPT ![a.reg] = Kept(a.reg, a.x)]
      /\ UNCHANGED <<bits, debug, prog, todo, status, budget, asked, want, put, raced, fresh>>
  BY DEF PutReg, Doing, Step, history
<1>2. old \in ThreadType /\ ThreadOK(old) /\ old.call \in Command /\ val \in [ValReg -> Nat]
  BY <1>0 DEF Types, TypeOK, ThreadsOK, ThreadType
<1>3. /\ old.busy /\ a \in Acc /\ Tail(old.left) \in Seq(Acc)
      /\ \/ /\ old.call \in Puts /\ a.reg = <<old.call.what, old.call.idx>> /\ a.x = old.call.arg
            /\ Tail(old.left) = <<>> /\ a.reg \in ValReg /\ old.call.cmd = "Put"
         \/ /\ old.call.cmd = "Read_Status" /\ old.left = ReadStatus /\ a.reg = Scratch /\ a.x = SPAD
            /\ Tail(old.left) # ReadStatus /\ Rest(Tail(old.left))
  <2> HIDE DEF old, a
  <2>1. a = Head(old.left)
    BY DEF old, a
  <2> QED BY <1>1, <1>2, <2>1, NextAccess, PutFacts
<1>4. a.reg \in ValReg /\ a.x \in Nat /\ Kept(a.reg, a.x) \in Nat
  <2>1. a.x \in Nat
    BY <1>3 DEF Acc
  <2> QED BY <1>3, <2>1, RegFacts, KeptType
<1>5. th \in ThreadType
  BY <1>2, <1>3 DEF ThreadType
<1>6. /\ th.busy = old.busy /\ th.call = old.call /\ th.left = Tail(old.left) /\ th.alone = old.alone
      /\ th.loaded = old.loaded /\ th.word = old.word /\ th.snap = old.snap /\ ~old.loaded
  <2>1. ~old.loaded
    BY <1>1, <1>2 DEF ThreadOK
  <2> QED BY <1>2, <2>1 DEF ThreadType
<1>7. /\ val' \in [ValReg -> Nat] /\ val'[a.reg] = Kept(a.reg, a.x)
      /\ \A r \in ValReg \ {a.reg} : val'[r] = val[r]
  BY <1>1, <1>2, <1>4
<1>8. old.call \notin Modifies /\ old.call.cmd # "Count_Reset"
  BY <1>2, <1>3, CommandKinds
<1> HIDE DEF th, a, old
<1>9. /\ thread' \in [Threads -> ThreadType]
      /\ thread'[t] = th /\ \A u \in Threads \ {t} : thread'[u] = thread[u]
      /\ \A u \in Threads : /\ thread'[u].busy = thread[u].busy /\ thread'[u].call = thread[u].call
                            /\ thread'[u].alone = thread[u].alone
      /\ PairsOK' /\ AloneOK' /\ ~fresh
  BY <1>0, <1>1, <1>3, <1>5, <1>6, Frame DEF old
<1>10. \A u \in Threads : thread'[u].word = thread[u].word /\ thread'[u].loaded = thread[u].loaded
  BY <1>6, <1>9 DEF old
<1>11. Types'
  BY <1>0, <1>1, <1>7, <1>9 DEF Types, TypeOK
<1>12. ThreadsOK'
  <2>1. ThreadOK(th)
    BY <1>1, <1>2, <1>5, <1>6, ThreadAdvance
  <2> QED BY <1>0, <1>9, <2>1 DEF ThreadsOK
<1>13. AskedOK'
  BY <1>0, <1>1, <1>9, <1>10 DEF AskedOK, AskedBits
<1>14. CountOK'
  <2>1. Releasing' = Releasing
    BY <1>8, <1>9 DEF Releasing, old
  <2> QED BY <1>0, <1>1, <1>9, <1>10, <2>1 DEF CountOK
<1>15. LoadedOK'
  BY <1>0, <1>1, <1>9, <1>10 DEF LoadedOK
<1>16. FieldsOK'
  <2>1. ASSUME NEW u \in Threads, NEW f PROVE Did(thread[u], f)' <=> Did(thread[u], f)
    BY <1>8, <1>9 DEF Did, old
  <2> QED BY <1>0, <1>1, <1>9, <2>1 DEF FieldsOK
<1>17. ValsOK'
  <2> SUFFICES ASSUME NEW r \in ValReg, r \notin raced
               PROVE  /\ \A u \in Threads : Wrote(thread'[u], r) => val'[r] = Stored(thread'[u], r)
                      /\ (\A u \in Threads : ~Wrote(thread'[u], r)) => val'[r] = put[r]
    BY <1>1 DEF ValsOK, Wrote, Stored
  <2>1. /\ \A u \in Threads : Wrote(thread[u], r) => val[r] = Stored(thread[u], r)
        /\ (\A u \in Threads : ~Wrote(thread[u], r)) => val[r] = put[r]
    BY <1>0 DEF ValsOK
  <2>2. ~Wrote(old, r)
    BY <1>1, <1>2, <1>3, CommandKinds DEF Wrote
  <2>3. CASE r # a.reg
    <3>1. ~Wrote(th, r)
      BY <1>2, <1>3, <1>6, <2>3, CommandKinds DEF Wrote
    <3> QED BY <1>7, <1>9, <2>1, <2>2, <2>3, <3>1 DEF old
  <2>4. CASE r = a.reg
    <3>1. r \in RegsOf(old.call)
      <4>1. CASE old.call \in Puts
        <5>1. RegsOf(old.call) = {<<old.call.what, old.call.idx>>}
          BY <1>2, <4>1, RegsFacts
        <5>2. old.call.cmd # "Read_Status"
          BY <1>2, <4>1, CommandKinds
        <5> QED BY <1>3, <2>4, <5>1, <5>2
      <4>2. CASE old.call.cmd = "Read_Status"
        <5>1. Scratch \in RegsOf(old.call)
          BY <1>2, <4>2, RegsFacts
        <5> QED BY <1>3, <2>4, <4>2, <5>1
      <4> QED BY <1>3, <4>1, <4>2
    <3>2. ASSUME NEW u \in Threads \ {t} PROVE ~Wrote(thread[u], r)
      BY <1>0, <1>3, <3>1, WroteUses, SoleUser DEF old
    <3>3. Wrote(th, r)
      BY <1>3, <1>6, <2>4 DEF Wrote
    <3>4. Stored(th, r) = Kept(a.reg, a.x)
      BY <1>3, <1>6, <2>4, KeptScratch DEF Stored
    <3> QED BY <1>7, <1>9, <2>4, <3>2, <3>3, <3>4
  <2> QED BY <2>3, <2>4
<1>18. StatusOK'
  <2>1. \A u \in Threads \ {t} : ~thread'[u].alone
    BY <1>0, <1>3, <1>9 DEF AloneOK, old
  <2>2. ASSUME th.call.cmd = "Read_Status", th.alone PROVE Shows(thread[t])'
    <3>1. /\ old.left = ReadStatus /\ th.left = Tail(ReadStatus) /\ th.left # ReadStatus
          /\ val'[Scratch] = SPAD
      BY <1>3, <1>6, <1>7, <2>2, KeptScratch
    <3>2. th.snap = <<>>
      BY <1>0, <1>6, <2>2, <3>1 DEF StatusOK, Shows, old
    <3>3. Len(ReadStatus) \in Nat /\ ReadStatus \in Seq(Acc) /\ ReadStatus # <<>>
      BY <1>1, <3>1, ReadStatusFacts
    <3>4. Len(Tail(ReadStatus)) = Len(ReadStatus) - 1
      BY <3>3
    <3>5. Len(th.snap) = 0 /\ Len(ReadStatus) - Len(th.left) - 1 = 0
      <4>1. Len(th.left) = Len(ReadStatus) - 1
        BY <3>1, <3>4
      <4>2. Len(th.snap) = 0
        BY <3>2
      <4> QED BY <3>3, <4>1, <4>2
    <3> QED BY <1>9, <3>1, <3>5 DEF Shows
  <2> QED BY <1>1, <1>9, <2>1, <2>2 DEF StatusOK
<1>19. ProgOK'
  <2>1. Quiet' = Quiet
    BY <1>9 DEF Quiet
  <2>2. ASSUME prog = "xReset" PROVE ResetOK'
    <3>1. ResetOK /\ t = Main
      BY <1>0, <1>3, <2>2 DEF ProgOK, old
    <3>2. todo' = todo /\ Made' = Made /\ thread'[Main] = th /\ thread[Main] = old /\ bits' = bits
      BY <1>1, <1>9, <3>1 DEF Made, old
    <3>3. Made >= 1 /\ old.call = xReset[Made]
      BY <1>3, <3>1, <3>2 DEF ResetOK
    <3>4. ~LastClr(Made)
      BY <1>8, <3>3 DEF LastClr
    <3>5. \A j : LastClr(j)' <=> LastClr(j)
      BY DEF LastClr
    <3> QED BY <1>6, <3>1, <3>2, <3>3, <3>4, <3>5 DEF ResetOK
  <2> QED BY <1>0, <1>1, <1>9, <2>1, <2>2 DEF ProgOK
<1> QED BY <1>9, <1>11, <1>12, <1>13, <1>14, <1>15, <1>16, <1>17, <1>18, <1>19 DEF IoctlInv

-----------------------------------------------------------------------------
(* Reading a register for the status preserves the invariant. *)
LEMMA GetRegStep ==
    ASSUME IoctlInv, NEW t \in Threads, GetReg(t)
    PROVE  IoctlInv'
<1>0. Types /\ ThreadsOK /\ AskedOK /\ CountOK /\ PairsOK /\ LoadedOK /\ FieldsOK /\ ValsOK /\ AloneOK
      /\ StatusOK /\ ProgOK
  BY DEF IoctlInv
<1> DEFINE old == thread[t]
           a   == Head(thread[t].left)
           th  == [thread[t] EXCEPT !.left = Tail(@), !.snap = Append(@, Contents(Head(thread[t].left).reg))]
<1>1. /\ old.left # <<>> /\ a.op = "Get" /\ thread' = [thread EXCEPT ![t] = th]
      /\ UNCHANGED <<bits, val, debug, prog, todo, status, budget, asked, want, put, raced, fresh>>
  BY DEF GetReg, Doing, Step, hw, history
<1>2. /\ old \in ThreadType /\ ThreadOK(old) /\ old.call \in Command /\ val \in [ValReg -> Nat]
      /\ bits \in [BitReg -> SUBSET Bits]
  BY <1>0 DEF Types, TypeOK, ThreadsOK, ThreadType, Bits
<1>3. /\ old.busy /\ a \in Acc /\ Tail(old.left) \in Seq(Acc)
      /\ old.call.cmd = "Read_Status" /\ old.left # ReadStatus
      /\ Tail(old.left) # ReadStatus /\ Rest(Tail(old.left)) /\ Rest(old.left)
  <2> HIDE DEF old, a
  <2>1. a = Head(old.left)
    BY DEF old, a
  <2>2. old.call.cmd = "Read_Status" => Rest(old.left)
    BY <1>2 DEF ThreadOK
  <2> QED BY <1>1, <1>2, <2>1, <2>2, NextAccess
<1>4. Contents(a.reg) \in (SUBSET Bits) \cup Nat
  <2>1. a.reg \in Reg
    BY <1>3 DEF Acc
  <2> QED BY <1>2, <2>1 DEF Contents, Reg
<1>5. th \in ThreadType
  <2>1. old.snap \in Seq((SUBSET Bits) \cup Nat)
    BY <1>2 DEF ThreadType
  <2>2. Append(old.snap, Contents(a.reg)) \in Seq((SUBSET Bits) \cup Nat)
    BY <1>4, <2>1
  <2>3. th = [old EXCEPT !.left = Tail(old.left), !.snap = Append(old.snap, Contents(a.reg))]
    BY <1>2 DEF ThreadType
  <2> HIDE DEF th, a, old
  <2> QED BY <1>2, <1>3, <2>2, <2>3 DEF ThreadType
<1>6. /\ th.busy = old.busy /\ th.call = old.call /\ th.left = Tail(old.left) /\ th.alone = old.alone
      /\ th.loaded = old.loaded /\ th.word = old.word /\ th.snap = Append(old.snap, Contents(a.reg))
      /\ ~old.loaded
  <2>1. ~old.loaded
    BY <1>1, <1>2 DEF ThreadOK
  <2> QED BY <1>2, <2>1 DEF ThreadType
<1>7. old.call \notin Modifies /\ old.call \notin Puts /\ old.call.cmd # "Count_Reset"
  BY <1>2, <1>3, CommandKinds
<1> HIDE DEF th, a, old
<1>8. /\ thread' \in [Threads -> ThreadType]
      /\ thread'[t] = th /\ \A u \in Threads \ {t} : thread'[u] = thread[u]
      /\ \A u \in Threads : /\ thread'[u].busy = thread[u].busy /\ thread'[u].call = thread[u].call
                            /\ thread'[u].alone = thread[u].alone
      /\ PairsOK' /\ AloneOK' /\ ~fresh
  BY <1>0, <1>1, <1>3, <1>5, <1>6, Frame DEF old
<1>9. \A u \in Threads : thread'[u].word = thread[u].word /\ thread'[u].loaded = thread[u].loaded
  BY <1>6, <1>8 DEF old
<1>10. Types'
  BY <1>0, <1>1, <1>8 DEF Types, TypeOK
<1>11. ThreadsOK'
  <2>1. ThreadOK(th)
    BY <1>1, <1>2, <1>5, <1>6, ThreadAdvance
  <2> QED BY <1>0, <1>8, <2>1 DEF ThreadsOK
<1>12. AskedOK'
  BY <1>0, <1>1, <1>8, <1>9 DEF AskedOK, AskedBits
<1>13. CountOK'
  <2>1. Releasing' = Releasing
    BY <1>7, <1>8 DEF Releasing, old
  <2> QED BY <1>0, <1>1, <1>8, <1>9, <2>1 DEF CountOK
<1>14. LoadedOK'
  BY <1>0, <1>1, <1>8, <1>9 DEF LoadedOK
<1>15. FieldsOK'
  <2>1. ASSUME NEW u \in Threads, NEW f PROVE Did(thread[u], f)' <=> Did(thread[u], f)
    BY <1>7, <1>8 DEF Did, old
  <2> QED BY <1>0, <1>1, <1>8, <2>1 DEF FieldsOK
<1>16. ValsOK'
  <2>1. ASSUME NEW u \in Threads, NEW r
        PROVE  (Wrote(thread[u], r)' <=> Wrote(thread[u], r)) /\ Stored(thread[u], r)' = Stored(thread[u], r)
    BY <1>3, <1>6, <1>7, <1>8 DEF Wrote, Stored, old
  <2> QED BY <1>0, <1>1, <2>1 DEF ValsOK
<1>17. StatusOK'
  <2>1. \A u \in Threads \ {t} : ~thread'[u].alone
    BY <1>0, <1>3, <1>8 DEF AloneOK, old
  <2>2. ASSUME th.alone PROVE Shows(thread[t])'
    <3>1. /\ val[Scratch] = SPAD /\ Len(old.snap) = Len(ReadStatus) - Len(old.left) - 1
          /\ \A i \in 1 .. Len(old.snap) : old.snap[i] = Contents(ReadStatus[i + 1].reg)
      BY <1>0, <1>3, <1>6, <2>2 DEF StatusOK, Shows, old
    <3>2. /\ a = ReadStatus[Len(ReadStatus) - Len(old.left) + 1] /\ Len(Tail(old.left)) = Len(old.left) - 1
          /\ old.left \in Seq(Acc) /\ Len(old.left) \in Nat /\ Len(ReadStatus) \in Nat
      <4>1. a = Head(old.left) /\ old.left \in Seq(Acc)
        BY <1>2 DEF a, old, ThreadType
      <4>2. Head(old.left) = ReadStatus[Len(ReadStatus) - Len(old.left) + 1] /\ Len(Tail(old.left)) = Len(old.left) - 1
        BY <1>1, <1>3, <4>1, RestFacts
      <4>3. Len(ReadStatus) \in Nat /\ Len(old.left) \in Nat
        BY <4>1, ReadStatusFacts
      <4> QED BY <4>1, <4>2, <4>3
    <3>3. PICK k \in Nat : k = Len(old.snap)
      BY <1>2 DEF ThreadType
    <3>4. a = ReadStatus[k + 2] /\ Len(ReadStatus) - Len(th.left) - 1 = k + 1
      <4>1. k + 2 = Len(ReadStatus) - Len(old.left) + 1 /\ Len(th.left) = Len(old.left) - 1
        BY <1>6, <3>1, <3>2, <3>3
      <4> QED BY <3>1, <3>2, <3>3, <4>1
    <3>5. /\ Len(th.snap) = k + 1 /\ th.snap[k + 1] = Contents(a.reg)
          /\ \A i \in 1 .. k : th.snap[i] = old.snap[i]
      <4>1. old.snap \in Seq((SUBSET Bits) \cup Nat)
        BY <1>2 DEF ThreadType
      <4> QED BY <1>4, <1>6, <3>3, <4>1
    <3>6. ASSUME NEW i \in 1 .. (k + 1) PROVE th.snap[i] = Contents(ReadStatus[i + 1].reg)
      <4>1. CASE i = k + 1
        <5>1. i + 1 = k + 2
          BY <4>1
        <5> QED BY <3>4, <3>5, <4>1, <5>1
      <4>2. CASE i # k + 1
        <5>1. i \in 1 .. k
          BY <4>2
        <5> QED BY <3>1, <3>3, <3>5, <5>1
      <4> QED BY <4>1, <4>2
    <3>7. bits' = bits /\ val' = val
      BY <1>1
    <3>8. \A r : Contents(r)' = Contents(r)
      BY <3>7 DEF Contents
    <3> QED BY <1>3, <1>6, <1>8, <3>1, <3>4, <3>5, <3>6, <3>7, <3>8 DEF Shows
  <2> QED BY <1>1, <1>8, <2>1, <2>2 DEF StatusOK
<1>18. ProgOK'
  <2>1. Quiet' = Quiet
    BY <1>8 DEF Quiet
  <2>2. ASSUME prog = "xReset" PROVE ResetOK'
    <3>1. ResetOK /\ t = Main
      BY <1>0, <1>3, <2>2 DEF ProgOK, old
    <3>2. todo' = todo /\ Made' = Made /\ thread'[Main] = th /\ thread[Main] = old /\ bits' = bits
      BY <1>1, <1>8, <3>1 DEF Made, old
    <3>3. Made >= 1 /\ old.call = xReset[Made]
      BY <1>3, <3>1, <3>2 DEF ResetOK
    <3>4. ~LastClr(Made)
      BY <1>7, <3>3 DEF LastClr
    <3>5. \A j : LastClr(j)' <=> LastClr(j)
      BY DEF LastClr
    <3> QED BY <1>6, <3>1, <3>2, <3>3, <3>4, <3>5 DEF ResetOK
  <2> QED BY <1>0, <1>1, <1>8, <2>1, <2>2 DEF ProgOK
<1> QED BY <1>8, <1>10, <1>11, <1>12, <1>13, <1>14, <1>15, <1>16, <1>17, <1>18 DEF IoctlInv

-----------------------------------------------------------------------------
(* What StatusCurrent expects of a lane. *)
ValLane(l) == <<val[<<"runCode", l>>], val[<<"acceptCode", l>>],
                val[<<"runDelay", l>>], val[<<"acceptDelay", l>>]>>
Word == (SUBSET Bits) \cup Nat

(* What a status read finds in the registers of a lane. *)
LEMMA LaneContents ==
    ASSUME Types, NEW l \in Lane, NEW j \in 1 .. 4
    PROVE  ValLane(l)[j] = Contents(StatusLane(l)[j].reg) /\ ValLane(l)[j] \in Word
<1>1. val \in [ValReg -> Nat]
  BY DEF Types, TypeOK
<1>2. ASSUME NEW r \in ValReg PROVE Contents(Access("Get", r, 0).reg) = val[r] /\ val[r] \in Word
  <2>1. Access("Get", r, 0).reg = r
    BY RegFacts, AccessType
  <2> QED BY <1>1, <2>1, RegFacts DEF Contents, Word
<1>3. /\ <<"runCode", l>> \in ValReg /\ <<"acceptCode", l>> \in ValReg
      /\ <<"runDelay", l>> \in ValReg /\ <<"acceptDelay", l>> \in ValReg
  BY RegFacts
<1>4. CASE j = 1
  BY <1>2, <1>3, <1>4 DEF ValLane, StatusLane
<1>5. CASE j = 2
  BY <1>2, <1>3, <1>5 DEF ValLane, StatusLane
<1>6. CASE j = 3
  BY <1>2, <1>3, <1>6 DEF ValLane, StatusLane
<1>7. CASE j = 4
  BY <1>2, <1>3, <1>7 DEF ValLane, StatusLane
<1> QED BY <1>4, <1>5, <1>6, <1>7

(* A complete status that was read without company is what StatusCurrent   *)
(* expects.                                                                *)
LEMMA ShownStatus ==
    ASSUME Types, NEW th \in ThreadType, Shows(th), th.left = <<>>
    PROVE  th.snap = <<SPAD, bits[CardRst], bits[CardRst], bits[EvrStat], val[EvrMask]>>
                     \o ForEachLane(4, ValLane) \o <<bits[PgpStat]>>
<1> DEFINE first == <<SPAD, bits[CardRst], bits[CardRst], bits[EvrStat], val[EvrMask]>>
           lanes == ForEachLane(4, ValLane)
           last == <<bits[PgpStat]>>
           shown(i) == Contents(ReadStatus[i + 1].reg)
<1>1. bits \in [BitReg -> SUBSET Bits] /\ val \in [ValReg -> Nat] /\ SPAD \in Nat
  BY DEF Types, TypeOK, Bits, SPAD
<1>2. /\ SPAD \in Word /\ bits[CardRst] \in Word /\ bits[EvrStat] \in Word /\ bits[PgpStat] \in Word
      /\ val[EvrMask] \in Word
  BY <1>1, RegFacts DEF Word
<1>3. PICK k \in Nat : k = 4 * N
  OBVIOUS
<1>4. Len(ReadStatus) = 7 + k
  BY <1>3, ReadStatusFacts
<1>5. /\ val[Scratch] = SPAD /\ Len(th.snap) = 6 + k /\ \A i \in 1 .. (6 + k) : th.snap[i] = shown(i)
  <2>1. Len(th.left) = 0
    OBVIOUS
  <2>2. ReadStatus # <<>>
    BY <1>4
  <2>3. /\ val[Scratch] = SPAD /\ Len(th.snap) = Len(ReadStatus) - Len(th.left) - 1
        /\ \A i \in 1 .. Len(th.snap) : th.snap[i] = Contents(ReadStatus[i + 1].reg)
    BY <2>2 DEF Shows
  <2> QED BY <1>4, <2>1, <2>3
<1>6. /\ \A r \in BitReg : Contents(Access("Get", r, 0).reg) = bits[r]
      /\ \A r \in ValReg : Contents(Access("Get", r, 0).reg) = val[r]
  <2>1. \A r \in Reg : Access("Get", r, 0).reg = r
    BY AccessType
  <2> QED BY <2>1, RegFacts DEF Contents
<1>7. /\ shown(1) = SPAD /\ shown(2) = bits[CardRst] /\ shown(3) = bits[CardRst]
      /\ shown(4) = bits[EvrStat] /\ shown(5) = val[EvrMask] /\ shown(6 + k) = bits[PgpStat]
  <2>1. /\ ReadStatus[1 + 1] = Access("Get", Scratch, 0) /\ ReadStatus[2 + 1] = Access("Get", CardRst, 0)
        /\ ReadStatus[3 + 1] = Access("Get", CardRst, 0) /\ ReadStatus[4 + 1] = Access("Get", EvrStat, 0)
        /\ ReadStatus[5 + 1] = Access("Get", EvrMask, 0) /\ ReadStatus[6 + k + 1] = Access("Get", PgpStat, 0)
    BY <1>3, ReadStatusFacts
  <2> QED BY <1>5, <1>6, <2>1, RegFacts
<1>8. ASSUME NEW i \in 1 .. k PROVE lanes[i] = shown(5 + i) /\ lanes[i] \in Word
  <2> DEFINE l == (i - 1) \div 4
             j == ((i - 1) % 4) + 1
  <2>1. l \in Lane /\ j \in 1 .. 4
    BY <1>3, PerLaneIndex
  <2>2. lanes[i] = ValLane(l)[j]
    BY <1>3 DEF ForEachLane
  <2>3. ReadStatus[(5 + i) + 1] = StatusLane(l)[j]
    <3>1. ReadStatus[6 + i] = StatusLane(l)[j]
      BY <1>3, ReadStatusFacts
    <3>2. (5 + i) + 1 = 6 + i
      OBVIOUS
    <3> QED BY <3>1, <3>2
  <2> HIDE DEF l, j, lanes
  <2> QED BY <2>1, <2>2, <2>3, LaneContents
<1>9. lanes = [i \in 1 .. k |-> ValLane((i - 1) \div 4)[((i - 1) % 4) + 1]]
  BY <1>3 DEF ForEachLane
<1> HIDE DEF lanes
<1>10. lanes \in Seq(Word) /\ Len(lanes) = k
  BY <1>8, <1>9
<1>11. /\ first \in Seq(Word) /\ Len(first) = 5 /\ last \in Seq(Word) /\ Len(last) = 1
       /\ first[1] = SPAD /\ first[2] = bits[CardRst] /\ first[3] = bits[CardRst]
       /\ first[4] = bits[EvrStat] /\ first[5] = val[EvrMask] /\ last[1] = bits[PgpStat]
  BY <1>2
<1> HIDE DEF first, last, shown
<1> DEFINE most == first \o lanes
           all  == most \o last
<1>12. most \in Seq(Word) /\ Len(most) = 5 + k
       /\ (\A i \in 1 .. 5 : most[i] = first[i]) /\ (\A i \in 1 .. k : most[5 + i] = lanes[i])
  <2>1. first \in Seq(Word) /\ lanes \in Seq(Word)
    BY <1>10, <1>11
  <2>2. /\ first \o lanes \in Seq(Word) /\ Len(first \o lanes) = Len(first) + Len(lanes)
        /\ \A i \in 1 .. Len(first) : (first \o lanes)[i] = first[i]
        /\ \A i \in 1 .. Len(lanes) : (first \o lanes)[Len(first) + i] = lanes[i]
    BY <2>1
  <2>3. most = first \o lanes
    OBVIOUS
  <2> HIDE DEF most
  <2> QED BY <1>10, <1>11, <2>2, <2>3
<1> HIDE DEF most
<1>13. all \in Seq(Word) /\ Len(all) = 6 + k
       /\ (\A i \in 1 .. (5 + k) : all[i] = most[i]) /\ all[6 + k] = last[1]
  <2>1. most \in Seq(Word) /\ last \in Seq(Word)
    BY <1>11, <1>12
  <2>2. /\ most \o last \in Seq(Word) /\ Len(most \o last) = Len(most) + Len(last)
        /\ \A i \in 1 .. Len(most) : (most \o last)[i] = most[i]
        /\ \A i \in 1 .. Len(last) : (most \o last)[Len(most) + i] = last[i]
    BY <2>1
  <2>3. all = most \o last
    OBVIOUS
  <2>4. 1 \in 1 .. Len(last)
    BY <1>11
  <2> HIDE DEF all
  <2> QED BY <1>11, <1>12, <2>2, <2>3, <2>4
<1> HIDE DEF all
<1>14. ASSUME NEW i \in 1 .. (6 + k) PROVE all[i] = shown(i)
  <2>1. CASE i \in 1 .. 5
    BY <1>7, <1>11, <1>12, <1>13, <2>1
  <2>2. CASE i \in 6 .. (5 + k)
    <3>1. PICK m \in 1 .. k : i = 5 + m
      <4>1. i - 5 \in 1 .. k /\ i = 5 + (i - 5)
        BY <2>2
      <4> QED BY <4>1
    <3>2. most[5 + m] = lanes[m] /\ lanes[m] = shown(5 + m)
      BY <1>8, <1>12
    <3> QED BY <1>13, <2>2, <3>1, <3>2
  <2>3. CASE i = 6 + k
    BY <1>7, <1>11, <1>13, <2>3
  <2> QED BY <2>1, <2>2, <2>3
<1>15. th.snap \in Seq(Word)
  BY DEF ThreadType, Word
<1>16. th.snap = all
  BY <1>5, <1>13, <1>14, <1>15
<1> QED BY <1>16 DEF all, most, first, lanes, last

(* The return of a command preserves the invariant. *)
LEMMA ReturnStep ==
    ASSUME IoctlInv, NEW t \in Threads, Return(t)
    PROVE  IoctlInv'
<1>0. Types /\ ThreadsOK /\ AskedOK /\ CountOK /\ PairsOK /\ LoadedOK /\ FieldsOK /\ ValsOK /\ AloneOK
      /\ StatusOK /\ ProgOK
  BY DEF IoctlInv
<1> DEFINE old == thread[t]
           c == thread[t].call
<1>1. /\ old.busy /\ old.left = <<>> /\ thread' = [thread EXCEPT ![t] = Idle]
      /\ debug' = IF c.cmd = "Set_Debug" THEN c.arg ELSE debug
      /\ UNCHANGED <<bits, val, prog, todo, budget, asked, raced>>
  BY DEF Return, Step
<1>2. /\ c.cmd = "Set" => want' = want \cup {FieldOf(c)}
      /\ c.cmd = "Clr" => want' = want \ {FieldOf(c)}
      /\ c.cmd \notin {"Set", "Clr"} => want' = want
  BY DEF Return, FieldOf
<1>3. /\ c.cmd = "Put" => put' = [put EXCEPT ![<<c.what, c.idx>>] = Kept(<<c.what, c.idx>>, c.arg)]
      /\ c.cmd = "Read_Status" => put' = [put EXCEPT ![Scratch] = SPAD]
      /\ c.cmd \notin {"Put", "Read_Status"} => put' = put
  BY DEF Return
<1>4. \/ c.cmd = "Read_Status" /\ status' = old.snap /\ fresh' = old.alone
      \/ status' = status /\ fresh' = fresh
  BY DEF Return
<1>5. /\ old \in ThreadType /\ ThreadOK(old) /\ c \in Command /\ thread \in [Threads -> ThreadType]
      /\ val \in [ValReg -> Nat] /\ put \in [ValReg -> Nat]
  BY <1>0 DEF Types, TypeOK, ThreadsOK, ThreadType
<1>6. /\ c.cmd \in {"Set", "Clr"} <=> c \in Modifies
      /\ c.cmd = "Put" <=> c \in Puts
      /\ c.arg \in Nat
  BY <1>5, CommandKinds
<1>7. /\ thread' \in [Threads -> ThreadType] /\ thread'[t] = Idle
      /\ \A u \in Threads \ {t} : thread'[u] = thread[u]
  BY <1>1, <1>5, IdleFacts
<1>8. old.call = c /\ old = thread[t]
  OBVIOUS
<1> HIDE DEF old, c
<1>9. ~fresh
  BY <1>0, <1>1, <1>8 DEF StatusOK, Quiet
<1>10. Types'
  <2>1. debug' \in Nat
    BY <1>0, <1>1, <1>6 DEF Types, TypeOK
  <2>2. c \in Modifies => FieldOf(c) \in Fields
    BY ModifyFacts
  <2>3. want' \subseteq Fields
    BY <1>0, <1>2, <1>6, <2>2 DEF Types, TypeOK, Fields
  <2>4. put' \in [ValReg -> Nat]
    <3>1. c \in Puts => <<c.what, c.idx>> \in ValReg
      BY PutFacts
    <3>2. Kept(<<c.what, c.idx>>, c.arg) \in Nat /\ SPAD \in Nat /\ Scratch \in ValReg
      BY <1>6, KeptType, RegFacts DEF SPAD
    <3> QED BY <1>3, <1>5, <1>6, <3>1, <3>2
  <2> QED BY <1>0, <1>1, <1>7, <2>1, <2>3, <2>4 DEF Types, TypeOK, Fields
<1>11. ThreadsOK'
  BY <1>0, <1>7, IdleFacts DEF ThreadsOK
<1>12. PairsOK' /\ AloneOK'
  BY <1>0, <1>1, <1>7, IdleFacts DEF PairsOK, AloneOK
<1>13. AskedOK'
  BY <1>0, <1>1, <1>7, IdleFacts DEF AskedOK, AskedBits
<1>14. CountOK'
  <2>1. t \notin Releasing
    <3>1. <<Release>> # <<>>
      OBVIOUS
    <3> QED BY <1>1, <1>8, <3>1 DEF Releasing
  <2>2. Releasing' = Releasing
    BY <1>7, <2>1, IdleFacts DEF Releasing
  <2> QED BY <1>0, <1>1, <1>7, <2>2, IdleFacts DEF CountOK
<1>15. LoadedOK'
  BY <1>0, <1>1, <1>7, IdleFacts DEF LoadedOK
<1>16. FieldsOK'
  <2> SUFFICES ASSUME NEW f \in Fields, RegOf(f) \notin raced
               PROVE  /\ \A u \in Threads : Did(thread'[u], f) =>
                            (BitOf(f) \in bits[RegOf(f)] <=> thread'[u].call.cmd = "Set")
                      /\ (\A u \in Threads : ~Did(thread'[u], f)) => (BitOf(f) \in bits[RegOf(f)] <=> f \in want')
    BY <1>1 DEF FieldsOK, Did
  <2>1. /\ \A u \in Threads : Did(thread[u], f) => (BitOf(f) \in bits[RegOf(f)] <=> thread[u].call.cmd = "Set")
        /\ (\A u \in Threads : ~Did(thread[u], f)) => (BitOf(f) \in bits[RegOf(f)] <=> f \in want)
    BY <1>0 DEF FieldsOK
  <2>2. ~Did(Idle, f)
    BY IdleFacts DEF Did
  <2>3. CASE Did(old, f)
    <3>1. c \in Modifies /\ FieldOf(c) = f
      BY <1>8, <2>3 DEF Did
    <3>2. f \in want' <=> c.cmd = "Set"
      BY <1>2, <1>6, <3>1
    <3> QED BY <1>7, <1>8, <2>1, <2>2, <2>3, <3>2
  <2>4. CASE ~Did(old, f)
    <3>1. c \in Modifies => FieldOf(c) # f
      BY <1>1, <1>8, <2>4 DEF Did
    <3>2. f \in want' <=> f \in want
      BY <1>2, <1>6, <3>1
    <3> QED BY <1>7, <1>8, <2>1, <2>2, <2>4, <3>2
  <2> QED BY <2>3, <2>4
<1>17. ValsOK'
  <2> SUFFICES ASSUME NEW r \in ValReg, r \notin raced
               PROVE  /\ \A u \in Threads : Wrote(thread'[u], r) => val[r] = Stored(thread'[u], r)
                      /\ (\A u \in Threads : ~Wrote(thread'[u], r)) => val[r] = put'[r]
    BY <1>1 DEF ValsOK, Wrote, Stored
  <2>1. /\ \A u \in Threads : Wrote(thread[u], r) => val[r] = Stored(thread[u], r)
        /\ (\A u \in Threads : ~Wrote(thread[u], r)) => val[r] = put[r]
    BY <1>0 DEF ValsOK
  <2>2. ~Wrote(Idle, r)
    BY IdleFacts DEF Wrote
  <2>3. old.left # ReadStatus
    <3>1. Len(ReadStatus) = 7 + 4 * N
      BY ReadStatusFacts
    <3> QED BY <1>1, <3>1
  <2>4. CASE Wrote(old, r)
    <3>1. put'[r] = Stored(old, r)
      <4>1. CASE c \in Puts
        BY <1>3, <1>5, <1>6, <1>8, <2>4, <4>1 DEF Wrote, Stored
      <4>2. CASE c.cmd = "Read_Status"
        BY <1>3, <1>5, <1>6, <1>8, <2>4, <4>2 DEF Wrote, Stored
      <4> QED BY <1>8, <2>4, <4>1, <4>2 DEF Wrote
    <3> QED BY <1>7, <1>8, <2>1, <2>2, <2>4, <3>1
  <2>5. CASE ~Wrote(old, r)
    <3>1. put'[r] = put[r]
      <4>1. c \in Puts => <<c.what, c.idx>> # r
        BY <1>1, <1>8, <2>5 DEF Wrote
      <4>2. c.cmd = "Read_Status" => r # Scratch
        BY <1>8, <2>3, <2>5 DEF Wrote
      <4> QED BY <1>3, <1>5, <1>6, <4>1, <4>2
    <3> QED BY <1>7, <1>8, <2>1, <2>2, <2>5, <3>1
  <2> QED BY <2>4, <2>5
<1>18. StatusOK'
  <2>1. bits' = bits /\ val' = val
    BY <1>1
  <2>2. ASSUME NEW u \in Threads \ {t} PROVE Shows(thread[u])' <=> Shows(thread[u])
    BY <1>7, <2>1 DEF Shows, Contents
  <2>3. ASSUME NEW u \in Threads, thread'[u].call.cmd = "Read_Status", thread'[u].alone PROVE Shows(thread[u])'
    <3>1. u # t /\ thread'[u] = thread[u]
      BY <1>7, <2>3, IdleFacts
    <3> QED BY <1>0, <2>2, <2>3, <3>1 DEF StatusOK
  <2>4. ASSUME fresh' PROVE Quiet' /\ StatusCurrent'
    <3>1. c.cmd = "Read_Status" /\ status' = old.snap /\ old.alone
      BY <1>4, <1>9, <2>4
    <3>2. Quiet'
      BY <1>0, <1>7, <1>8, <3>1, IdleFacts DEF AloneOK, Quiet
    <3>3. Shows(old)
      BY <1>0, <1>8, <3>1 DEF StatusOK
    <3>4. status' = <<SPAD, bits[CardRst], bits[CardRst], bits[EvrStat], val[EvrMask]>>
                    \o ForEachLane(4, ValLane) \o <<bits[PgpStat]>>
      BY <1>0, <1>1, <1>5, <3>1, <3>3, ShownStatus
    <3> QED BY <2>1, <3>2, <3>4 DEF StatusCurrent, ForEachLane, ValLane
  <2> QED BY <2>3, <2>4 DEF StatusOK
<1>19. ProgOK'
  <2>1. prog # "none"
    BY <1>0, <1>1, <1>8 DEF ProgOK, Quiet
  <2>2. ASSUME prog = "xReset" PROVE ResetOK'
    <3>1. ResetOK /\ t = Main
      BY <1>0, <1>1, <1>8, <2>2 DEF ProgOK
    <3>2. todo' = todo /\ Made' = Made /\ thread'[Main] = Idle /\ thread[Main].left = <<>> /\ bits' = bits
      BY <1>1, <1>7, <1>8, <3>1 DEF Made
    <3>3. \A j : LastClr(j)' <=> LastClr(j)
      BY DEF LastClr
    <3> QED BY <3>1, <3>2, <3>3, IdleFacts DEF ResetOK
  <2> QED BY <1>0, <1>1, <1>7, <2>1, <2>2, IdleFacts DEF ProgOK
<1> QED BY <1>10, <1>11, <1>12, <1>13, <1>14, <1>15, <1>16, <1>17, <1>18, <1>19 DEF IoctlInv

-----------------------------------------------------------------------------
(* Everything but what the program still has to do survives a new command. *)
LEMMA EnterStep ==
    ASSUME IoctlInv, NEW t \in Threads, NEW c \in Command, Enter(t, c), todo' \in Seq(Command)
    PROVE  /\ Types' /\ ThreadsOK' /\ AskedOK' /\ CountOK' /\ PairsOK' /\ LoadedOK' /\ FieldsOK'
           /\ ValsOK' /\ AloneOK' /\ StatusOK'
           /\ thread'[t].busy /\ thread'[t].call = c /\ thread'[t].left = Accesses(c) /\ ~thread'[t].loaded
           /\ \A u \in Threads \ {t} : thread'[u].busy = thread[u].busy
<1>0. Types /\ ThreadsOK /\ AskedOK /\ CountOK /\ PairsOK /\ LoadedOK /\ FieldsOK /\ ValsOK /\ AloneOK
      /\ StatusOK /\ ProgOK
  BY DEF IoctlInv
<1> DEFINE new == [Idle EXCEPT !.busy = TRUE, !.call = c, !.left = Accesses(c), !.alone = (Others(t) = {})]
           was(u) == [thread[u] EXCEPT !.alone = FALSE]
<1>1. /\ ~thread[t].busy /\ thread' = [u \in Threads |-> IF u = t THEN new ELSE was(u)]
      /\ asked' = IF c.cmd = "Set" THEN asked \cup {FieldOf(c)} ELSE asked
      /\ raced' = raced \cup (RegsOf(c) \cap (UNION {RegsOf(thread[u].call) : u \in Others(t)}))
      /\ fresh' = FALSE
      /\ UNCHANGED <<bits, val, debug, prog, status, want, put>>
  BY DEF Enter, hw, FieldOf
<1>2. thread \in [Threads -> ThreadType]
  BY <1>0 DEF Types
<1>3. thread[t] = Idle
  BY <1>0, <1>1 DEF ThreadsOK, ThreadOK
<1>4. Accesses(c) \in Seq(Acc)
  BY AccessesFacts
<1>5. /\ new \in ThreadType /\ new.busy /\ new.call = c /\ new.left = Accesses(c) /\ ~new.loaded
      /\ new.word = {} /\ new.snap = <<>> /\ new.alone = (Others(t) = {})
  <2>1. (Others(t) = {}) \in BOOLEAN
    OBVIOUS
  <2> HIDE DEF Others
  <2>2. Idle \in ThreadType
    BY IdleFacts
  <2>3. Idle.loaded = FALSE /\ Idle.word = {} /\ Idle.snap = <<>>
    BY DEF Idle
  <2> QED BY <1>4, <2>1, <2>2, <2>3 DEF ThreadType
<1>6. ASSUME NEW u \in Threads
      PROVE  /\ was(u) \in ThreadType /\ was(u).busy = thread[u].busy /\ was(u).call = thread[u].call
             /\ was(u).left = thread[u].left /\ was(u).loaded = thread[u].loaded
             /\ was(u).word = thread[u].word /\ ~was(u).alone
             /\ (thread[u] = Idle => was(u) = Idle)
  <2>1. thread[u] \in ThreadType
    BY <1>2
  <2>2. [Idle EXCEPT !.alone = FALSE] = Idle
    <3>1. Idle \in ThreadType /\ Idle.alone = FALSE
      BY IdleFacts DEF Idle
    <3> QED BY <3>1 DEF ThreadType
  <2> QED BY <2>1, <2>2 DEF ThreadType
<1> HIDE DEF new, was
<1>7. /\ thread' \in [Threads -> ThreadType] /\ thread'[t] = new
      /\ \A u \in Threads \ {t} : thread'[u] = was(u)
  BY <1>1, <1>5, <1>6
<1>8. \A u \in Threads \ {t} :
         /\ thread'[u].busy = thread[u].busy /\ thread'[u].call = thread[u].call
         /\ thread'[u].left = thread[u].left /\ thread'[u].loaded = thread[u].loaded
         /\ thread'[u].word = thread[u].word /\ ~thread'[u].alone
  BY <1>6, <1>7
<1>9. /\ c.cmd \in {"Set", "Clr"} <=> c \in Modifies
      /\ c.cmd = "Put" <=> c \in Puts
      /\ c \in Modifies => FieldOf(c) \in Fields
  BY CommandKinds, ModifyFacts
<1>10. Types'
  <2>1. asked' \subseteq Fields
    BY <1>0, <1>1, <1>9 DEF Types, TypeOK, Fields
  <2>2. raced' \subseteq Reg
    BY <1>0, <1>1, RegsFacts DEF Types, TypeOK, Reg
  <2> QED BY <1>0, <1>1, <1>7, <2>1, <2>2 DEF Types, TypeOK, Fields, Reg
<1>11. ThreadsOK'
  <2>1. ThreadOK(new)
    <3>1. /\ c \in Modifies => Accesses(c) = <<Modify(c)>>
          /\ c \in Puts => Accesses(c) = <<PutOf(c)>>
          /\ c.cmd = "Count_Reset" => Accesses(c) = CountReset
          /\ c.cmd = "Read_Status" => Accesses(c) = ReadStatus
          /\ c \in Plain /\ c.cmd \notin {"Count_Reset", "Read_Status"} => Accesses(c) = <<>>
      BY AccessesFacts
    <3>2. Rest(ReadStatus)
      <4>1. Len(ReadStatus) \in Nat
        BY ReadStatusFacts
      <4> QED BY <4>1 DEF Rest
    <3> QED BY <1>5, <3>1, <3>2 DEF ThreadOK
  <2>2. ASSUME NEW u \in Threads PROVE ThreadOK(was(u))
    <3>1. ThreadOK(thread[u])
      BY <1>0 DEF ThreadsOK
    <3> QED BY <1>6, <3>1 DEF ThreadOK
  <2> QED BY <1>7, <2>1, <2>2 DEF ThreadsOK
<1>12. AskedOK'
  <2>1. asked \subseteq asked' /\ (c.cmd = "Set" => FieldOf(c) \in asked') /\ bits' = bits
    BY <1>1
  <2>2. ASSUME NEW S, NEW r PROVE AskedBits(S, r) => AskedBits(S, r)'
    BY <2>1 DEF AskedBits
  <2>3. ASSUME NEW r PROVE AskedBits(new.word, r)
    BY <1>5 DEF AskedBits
  <2>4. ASSUME NEW u \in Threads, thread'[u].call \in Modifies
        PROVE  /\ thread'[u].call.cmd = "Set" => FieldOf(thread'[u].call) \in asked'
               /\ AskedBits(thread'[u].word, RegOf(FieldOf(thread'[u].call)))
    <3>1. CASE u = t
      BY <1>5, <1>7, <2>1, <2>3, <3>1
    <3>2. CASE u # t
      BY <1>0, <1>8, <2>1, <2>4, <3>2 DEF AskedOK
    <3> QED BY <3>1, <3>2
  <2>5. AskedBits(bits'[PgpStat], PgpStat) /\ AskedBits(bits'[EvrStat], EvrStat)
    BY <1>0, <2>1 DEF AskedOK
  <2> QED BY <2>2, <2>4, <2>5 DEF AskedOK, AskedBits
<1>13. CountOK'
  <2>1. Releasing \subseteq Releasing'
    BY <1>3, <1>8, IdleFacts DEF Releasing
  <2> QED BY <1>0, <1>1, <1>5, <1>7, <1>8, <2>1 DEF CountOK
<1>14. PairsOK'
  <2> SUFFICES ASSUME NEW u \in Threads, NEW v \in Threads, u # v, thread'[u].busy, thread'[v].busy,
                      NEW r \in RegsOf(thread'[u].call) \cap RegsOf(thread'[v].call)
               PROVE  r \in raced'
    BY DEF PairsOK, RegsOf, Accesses
  <2>1. ASSUME NEW w \in Threads \ {t}, thread'[w].busy, r \in RegsOf(c), r \in RegsOf(thread'[w].call)
        PROVE  r \in raced'
    <3>1. w \in Others(t) /\ r \in RegsOf(thread[w].call)
      BY <1>8, <2>1 DEF Others
    <3> QED BY <1>1, <2>1, <3>1
  <2>2. CASE u = t
    BY <1>5, <1>7, <2>1, <2>2
  <2>3. CASE v = t
    BY <1>5, <1>7, <2>1, <2>3
  <2>4. CASE u # t /\ v # t
    BY <1>0, <1>1, <1>8, <2>4 DEF PairsOK
  <2> QED BY <2>2, <2>3, <2>4
<1>15. raced \subseteq raced'
  BY <1>1
<1>16. LoadedOK'
  <2> SUFFICES ASSUME NEW u \in Threads, thread'[u].call \in Modifies, thread'[u].loaded,
                      RegOf(FieldOf(thread'[u].call)) \notin raced'
               PROVE  thread'[u].word = bits'[RegOf(FieldOf(thread'[u].call))]
    BY DEF LoadedOK
  <2>1. u # t
    BY <1>5, <1>7
  <2>2. thread'[u].word = thread[u].word /\ thread'[u].call = thread[u].call /\ thread[u].loaded
    BY <1>8, <2>1
  <2> QED BY <1>0, <1>1, <1>15, <2>2 DEF LoadedOK
<1>17. FieldsOK'
  <2>1. ASSUME NEW f PROVE ~Did(new, f) /\ ~Did(thread[t], f)
    <3>1. c \in Modifies => Accesses(c) # <<>>
      <4>1. <<Modify(c)>> # <<>>
        OBVIOUS
      <4> QED BY <4>1, AccessesFacts
    <3> QED BY <1>3, <1>5, <3>1, IdleFacts DEF Did
  <2>2. ASSUME NEW u \in Threads, NEW f PROVE Did(thread[u], f)' <=> Did(thread[u], f)
    BY <1>7, <1>8, <2>1 DEF Did
  <2>3. ASSUME NEW u \in Threads, NEW f, Did(thread[u], f) PROVE thread'[u].call = thread[u].call
    BY <1>8, <2>1, <2>3
  <2> QED BY <1>0, <1>1, <1>15, <2>2, <2>3 DEF FieldsOK
<1>18. ValsOK'
  <2>1. ASSUME NEW r PROVE ~Wrote(new, r) /\ ~Wrote(thread[t], r)
    <3>1. c \in Puts => Accesses(c) # <<>>
      <4>1. <<PutOf(c)>> # <<>>
        OBVIOUS
      <4> QED BY <4>1, AccessesFacts
    <3>2. c.cmd = "Read_Status" => Accesses(c) = ReadStatus
      BY AccessesFacts
    <3> QED BY <1>3, <1>5, <3>1, <3>2, IdleFacts DEF Wrote
  <2>2. ASSUME NEW u \in Threads, NEW r PROVE Wrote(thread[u], r)' <=> Wrote(thread[u], r)
    BY <1>7, <1>8, <2>1 DEF Wrote
  <2>3. ASSUME NEW u \in Threads, NEW r, Wrote(thread[u], r) PROVE Stored(thread[u], r)' = Stored(thread[u], r)
    BY <1>8, <2>1, <2>3 DEF Stored
  <2> QED BY <1>0, <1>1, <1>15, <2>2, <2>3 DEF ValsOK
<1>19. AloneOK'
  <2> SUFFICES ASSUME NEW u \in Threads, NEW v \in Threads, thread'[u].alone, v # u PROVE ~thread'[v].busy
    BY DEF AloneOK
  <2>1. u = t /\ Others(t) = {}
    BY <1>5, <1>7, <1>8
  <2> QED BY <1>8, <2>1 DEF Others
<1>20. StatusOK'
  <2>1. ASSUME NEW u \in Threads, thread'[u].call.cmd = "Read_Status", thread'[u].alone PROVE Shows(thread[u])'
    <3>1. u = t /\ c.cmd = "Read_Status"
      BY <1>5, <1>7, <1>8, <2>1
    <3>2. new.left = ReadStatus /\ new.snap = <<>>
      BY <1>5, <3>1, AccessesFacts
    <3> QED BY <1>7, <3>1, <3>2 DEF Shows
  <2> QED BY <1>1, <2>1 DEF StatusOK
<1> QED BY <1>5, <1>7, <1>8, <1>10, <1>11, <1>12, <1>13, <1>14, <1>16, <1>17, <1>18, <1>19, <1>20

(* A call of an application preserves the invariant. *)
LEMMA AppCallStep ==
    ASSUME IoctlInv, NEW t \in Threads, AppCall(t)
    PROVE  IoctlInv'
<1>1. PICK c \in Calls : Enter(t, c)
  BY DEF AppCall
<1>2. c \in Command /\ todo' = todo /\ prog = "app"
  BY CallCommands DEF AppCall
<1>3. todo' \in Seq(Command) /\ ProgOK
  BY <1>2 DEF IoctlInv, Types
<1>4. prog' = prog
  BY <1>1 DEF Enter
<1>5. ProgOK'
  BY <1>2, <1>3, <1>4 DEF ProgOK
<1>6. /\ Types' /\ ThreadsOK' /\ AskedOK' /\ CountOK' /\ PairsOK' /\ LoadedOK' /\ FieldsOK'
      /\ ValsOK' /\ AloneOK' /\ StatusOK'
  BY <1>1, <1>2, <1>3, EnterStep
<1> QED BY <1>5, <1>6 DEF IoctlInv

(* The next call of xReset, xStatus or xLoop preserves the invariant. *)
LEMMA ProgramCallStep ==
    ASSUME IoctlInv, ProgramCall
    PROVE  IoctlInv'
<1> DEFINE c == Head(todo)
<1>1. todo # <<>> /\ Quiet /\ todo' = Tail(todo) /\ Enter(Main, c)
  BY DEF ProgramCall, Main
<1>2. Types /\ ThreadsOK /\ ProgOK /\ todo \in Seq(Command)
  BY DEF IoctlInv, Types
<1>3. c \in Command /\ todo' \in Seq(Command) /\ Len(todo') = Len(todo) - 1 /\ Len(todo) \in Nat /\ Len(todo) >= 1
      /\ c = todo[1] /\ \A i \in 1 .. Len(todo') : todo'[i] = todo[i + 1]
  BY <1>1, <1>2
<1> HIDE DEF c
<1>4. /\ Types' /\ ThreadsOK' /\ AskedOK' /\ CountOK' /\ PairsOK' /\ LoadedOK' /\ FieldsOK'
      /\ ValsOK' /\ AloneOK' /\ StatusOK'
      /\ thread'[Main].busy /\ thread'[Main].call = c /\ thread'[Main].left = Accesses(c) /\ ~thread'[Main].loaded
      /\ \A u \in Threads \ {Main} : thread'[u].busy = thread[u].busy
  BY <1>1, <1>3, MainFact, EnterStep
<1>5. prog' = prog /\ bits' = bits /\ prog \notin {"none", "app"}
  BY <1>1, <1>2 DEF Enter, hw, ProgOK
<1>6. \A u \in Threads : thread'[u].busy => u = Main
  BY <1>1, <1>4 DEF Quiet
<1>7. ASSUME prog = "xReset" PROVE ResetOK'
  <2>1. ResetOK
    BY <1>2, <1>7 DEF ProgOK
  <2>2. Len(xReset) \in Nat
    BY ProgramCommands
  <2>3. Made \in Nat /\ Made' = Made + 1
    BY <1>3, <2>1, <2>2 DEF Made, ResetOK
  <2>4. thread[Main] = Idle
    BY <1>1, <1>2, MainFact DEF ThreadsOK, ThreadOK, Quiet
  <2>5. c = xReset[Made + 1]
    <3>1. 1 \in 1 .. Len(todo)
      BY <1>3
    <3> QED BY <1>3, <2>1, <3>1 DEF ResetOK
  <2>6. ASSUME NEW i \in 1 .. Len(todo') PROVE todo'[i] = xReset[Made' + i]
    <3>1. i + 1 \in 1 .. Len(todo) /\ Made + (i + 1) = Made' + i
      BY <1>3, <2>3
    <3> QED BY <1>3, <2>1, <3>1 DEF ResetOK
  <2>7. LastClr(Made + 1) => Accesses(c) # <<>>
    <3>1. <<Modify(c)>> # <<>>
      OBVIOUS
    <3> QED BY <1>3, <2>5, <3>1, AccessesFacts DEF LastClr
  <2>8. ASSUME NEW j \in 1 .. Made', LastClr(j), j = Made' => thread'[Main].left = <<>>
        PROVE  BitOf(FieldOf(xReset[j])) \notin bits[RegOf(FieldOf(xReset[j]))]
    <3>1. j # Made + 1
      BY <1>4, <2>3, <2>7, <2>8
    <3>2. j \in 1 .. Made
      BY <2>3, <3>1
    <3> QED BY <2>1, <2>4, <2>8, <3>2, IdleFacts DEF ResetOK
  <2>9. \A j : LastClr(j)' <=> LastClr(j)
    BY DEF LastClr
  <2>10. Len(todo') <= Len(xReset)
    BY <1>3, <2>1, <2>2 DEF ResetOK
  <2>11. Made' >= 1 /\ thread'[Main].call = xReset[Made']
    BY <1>4, <2>3, <2>5
  <2> QED BY <1>4, <1>5, <2>6, <2>8, <2>9, <2>10, <2>11 DEF ResetOK
<1>8. ProgOK'
  BY <1>5, <1>6, <1>7 DEF ProgOK
<1> QED BY <1>4, <1>8 DEF IoctlInv

-----------------------------------------------------------------------------
(* The order of xReset: the commands of lane l, and those of the EVR. *)
LEMMA xResetOrder ==
    /\ Len(xReset) = 4 * N + 5
    /\ \A i \in 1 .. 2 * N : xReset[i] = IF (i - 1) % 2 = 0 THEN pgpcard_setTxReset((i - 1) \div 2)
                                         ELSE pgpcard_clrTxReset((i - 1) \div 2)
    /\ \A i \in 1 .. 2 * N : xReset[2 * N + i] = IF (i - 1) % 2 = 0 THEN pgpcard_setRxReset((i - 1) \div 2)
                                                 ELSE pgpcard_clrRxReset((i - 1) \div 2)
    /\ xReset[4 * N + 1] = pgpcard_setEvrPllRst /\ xReset[4 * N + 2] = pgpcard_clrEvrPllRst
    /\ xReset[4 * N + 3] = pgpcard_setEvrRst /\ xReset[4 * N + 4] = pgpcard_clrEvrRst
    /\ xReset[4 * N + 5] = pgpcard_rstCount
<1> DEFINE Tx2(l) == <<pgpcard_setTxReset(l), pgpcard_clrTxReset(l)>>
           Rx2(l) == <<pgpcard_setRxReset(l), pgpcard_clrRxReset(l)>>
           tx  == ForEachLane(2, Tx2)
           rx  == ForEachLane(2, Rx2)
           evr == <<pgpcard_setEvrPllRst, pgpcard_clrEvrPllRst, pgpcard_setEvrRst, pgpcard_clrEvrRst, pgpcard_rstCount>>
<1>1. PICK k \in Nat : k = 2 * N
  OBVIOUS
<1>2. xReset = tx \o rx \o evr
  BY DEF xReset
<1>3. ASSUME NEW i \in 1 .. k
      PROVE  /\ tx[i] = IF (i - 1) % 2 = 0 THEN pgpcard_setTxReset((i - 1) \div 2)
                        ELSE pgpcard_clrTxReset((i - 1) \div 2)
             /\ rx[i] = IF (i - 1) % 2 = 0 THEN pgpcard_setRxReset((i - 1) \div 2)
                        ELSE pgpcard_clrRxReset((i - 1) \div 2)
  <2> DEFINE l == (i - 1) \div 2
             j == ((i - 1) % 2) + 1
  <2>1. tx[i] = Tx2(l)[j] /\ rx[i] = Rx2(l)[j]
    BY <1>1 DEF ForEachLane
  <2>2. (j = 1 /\ (i - 1) % 2 = 0) \/ (j = 2 /\ (i - 1) % 2 = 1)
    OBVIOUS
  <2> HIDE DEF l, j, tx, rx
  <2>3. CASE j = 1 /\ (i - 1) % 2 = 0
    BY <2>1, <2>3 DEF l
  <2>4. CASE j = 2 /\ (i - 1) % 2 = 1
    BY <2>1, <2>4 DEF l
  <2> QED BY <2>2, <2>3, <2>4
<1>4. /\ tx = [i \in 1 .. k |-> Tx2((i - 1) \div 2)[((i - 1) % 2) + 1]]
      /\ rx = [i \in 1 .. k |-> Rx2((i - 1) \div 2)[((i - 1) % 2) + 1]]
  BY <1>1 DEF ForEachLane
<1> HIDE DEF tx, rx, Tx2, Rx2
<1> DEFINE S == {tx[i] : i \in 1 .. k} \cup {rx[i] : i \in 1 .. k} \cup {evr[i] : i \in 1 .. 5}
<1>5. tx \in Seq(S) /\ Len(tx) = k /\ rx \in Seq(S) /\ Len(rx) = k
  <2>1. \A i \in 1 .. k : tx[i] \in S /\ rx[i] \in S
    OBVIOUS
  <2> HIDE DEF S
  <2>2. tx \in Seq(S) /\ Len(tx) = k
    BY <1>4, <2>1
  <2>3. rx \in Seq(S) /\ Len(rx) = k
    BY <1>4, <2>1
  <2> QED BY <2>2, <2>3
<1>6. evr \in Seq(S) /\ Len(evr) = 5
  <2>1. \A i \in 1 .. 5 : evr[i] \in S
    OBVIOUS
  <2> HIDE DEF S
  <2> QED BY <2>1
<1>7. /\ evr[1] = pgpcard_setEvrPllRst /\ evr[2] = pgpcard_clrEvrPllRst /\ evr[3] = pgpcard_setEvrRst
      /\ evr[4] = pgpcard_clrEvrRst /\ evr[5] = pgpcard_rstCount
  OBVIOUS
<1> HIDE DEF S, evr
<1> DEFINE lanes == tx \o rx
<1>8. /\ lanes \in Seq(S) /\ Len(lanes) = Len(tx) + Len(rx)
      /\ \A i \in 1 .. Len(tx) : lanes[i] = tx[i]
      /\ \A i \in 1 .. Len(rx) : lanes[Len(tx) + i] = rx[i]
  BY <1>5
<1> HIDE DEF lanes
<1>9. /\ lanes \o evr \in Seq(S) /\ Len(lanes \o evr) = Len(lanes) + Len(evr)
      /\ \A i \in 1 .. Len(lanes) : (lanes \o evr)[i] = lanes[i]
      /\ \A i \in 1 .. Len(evr) : (lanes \o evr)[Len(lanes) + i] = evr[i]
  <2>1. lanes \in Seq(S) /\ evr \in Seq(S)
    BY <1>6, <1>8
  <2> QED BY <2>1
<1>10. xReset = lanes \o evr
  BY <1>2 DEF lanes
<1>11. /\ Len(xReset) = (k + k) + 5
       /\ \A i \in 1 .. k : xReset[i] = tx[i]
       /\ \A i \in 1 .. k : xReset[k + i] = rx[i]
       /\ \A i \in 1 .. 5 : xReset[(k + k) + i] = evr[i]
  <2>1. Len(tx) = k /\ Len(rx) = k /\ Len(evr) = 5 /\ Len(lanes) = k + k
    BY <1>5, <1>6, <1>8
  <2>2. \A i \in 1 .. k : i \in 1 .. Len(lanes) /\ k + i \in 1 .. Len(lanes)
    BY <2>1
  <2>3. Len(xReset) = (k + k) + 5
    BY <1>9, <1>10, <2>1
  <2>4. \A i \in 1 .. k : xReset[i] = tx[i] /\ xReset[k + i] = rx[i]
    BY <1>8, <1>9, <1>10, <2>1, <2>2
  <2>5. \A i \in 1 .. 5 : xReset[(k + k) + i] = evr[i]
    BY <1>9, <1>10, <2>1
  <2> QED BY <2>3, <2>4, <2>5
<1>12. k + k = 4 * N
  BY <1>1
<1>13. /\ xReset[4 * N + 1] = evr[1] /\ xReset[4 * N + 2] = evr[2] /\ xReset[4 * N + 3] = evr[3]
       /\ xReset[4 * N + 4] = evr[4] /\ xReset[4 * N + 5] = evr[5]
  <2>1. \A i \in 1 .. 5 : xReset[4 * N + i] = evr[i]
    BY <1>11, <1>12
  <2> QED BY <2>1
<1> QED BY <1>1, <1>3, <1>7, <1>11, <1>12, <1>13

(* Starting a program preserves the invariant. *)
LEMMA StartStep ==
    ASSUME IoctlInv, Start
    PROVE  IoctlInv'
<1>0. Types /\ ThreadsOK /\ AskedOK /\ CountOK /\ PairsOK /\ LoadedOK /\ FieldsOK /\ ValsOK /\ AloneOK
      /\ StatusOK /\ ProgOK
  BY DEF IoctlInv
<1>1. /\ prog = "none"
      /\ UNCHANGED <<bits, val, debug, thread, status, asked, want, put, raced, fresh>>
      /\ \/ prog' = "app" /\ todo' = <<>>
         \/ prog' = "xReset" /\ todo' = xReset
         \/ prog' = "xStatus" /\ todo' = xStatus
         \/ prog' = "xLoop" /\ todo' \in xLoop
  BY DEF Start, hw, history
<1>2. todo' \in Seq(Command)
  <2>1. <<>> \in Seq(Command)
    OBVIOUS
  <2> QED BY <1>1, <2>1, ProgramCommands, Zenon
<1>3. Types'
  BY <1>0, <1>1, <1>2 DEF Types, TypeOK
<1>4. ThreadsOK' /\ PairsOK' /\ LoadedOK' /\ AloneOK'
  BY <1>0, <1>1 DEF ThreadsOK, PairsOK, LoadedOK, AloneOK
<1>5. AskedOK' /\ CountOK'
  BY <1>0, <1>1 DEF AskedOK, AskedBits, CountOK, Releasing
<1>6. FieldsOK' /\ ValsOK'
  BY <1>0, <1>1 DEF FieldsOK, ValsOK, Did, Wrote, Stored
<1>7. StatusOK'
  BY <1>0, <1>1 DEF StatusOK, Shows, Contents, Quiet, StatusCurrent, ForEachLane
<1>8. ProgOK'
  <2>1. Quiet /\ Quiet'
    BY <1>0, <1>1 DEF ProgOK, Quiet
  <2>2. ASSUME prog' = "xReset" PROVE ResetOK'
    <3>1. todo' = xReset /\ Len(xReset) \in Nat
      BY <1>1, <2>2, ProgramCommands
    <3>2. Made' = 0
      BY <3>1 DEF Made
    <3>3. ~thread'[Main].busy /\ ~thread'[Main].loaded
      BY <1>0, <1>1, <2>1, MainFact, IdleFacts DEF Quiet, ThreadsOK, ThreadOK
    <3> QED BY <3>1, <3>2, <3>3 DEF ResetOK
  <2> QED BY <1>1, <2>1, <2>2 DEF ProgOK, Quiet
<1> QED BY <1>3, <1>4, <1>5, <1>6, <1>7, <1>8 DEF IoctlInv

(* The end of a program preserves the invariant. *)
LEMMA ExitStep ==
    ASSUME IoctlInv, Exit
    PROVE  IoctlInv'
<1>0. Types /\ ThreadsOK /\ AskedOK /\ CountOK /\ PairsOK /\ LoadedOK /\ FieldsOK /\ ValsOK /\ AloneOK
      /\ StatusOK /\ ProgOK
  BY DEF IoctlInv
<1>1. /\ todo = <<>> /\ Quiet /\ prog' = "none"
      /\ UNCHANGED <<bits, val, debug, todo, thread, status, asked, want, put, raced, fresh>>
  BY DEF Exit, hw, history
<1>2. Types'
  BY <1>0, <1>1 DEF Types, TypeOK
<1>3. ThreadsOK' /\ PairsOK' /\ LoadedOK' /\ AloneOK'
  BY <1>0, <1>1 DEF ThreadsOK, PairsOK, LoadedOK, AloneOK
<1>4. AskedOK' /\ CountOK'
  BY <1>0, <1>1 DEF AskedOK, AskedBits, CountOK, Releasing
<1>5. FieldsOK' /\ ValsOK'
  BY <1>0, <1>1 DEF FieldsOK, ValsOK, Did, Wrote, Stored
<1>6. StatusOK'
  BY <1>0, <1>1 DEF StatusOK, Shows, Contents, Quiet, StatusCurrent, ForEachLane
<1>7. ProgOK'
  BY <1>1 DEF ProgOK, Quiet
<1> QED BY <1>2, <1>3, <1>4, <1>5, <1>6, <1>7 DEF IoctlInv

(* A stuttering step preserves the invariant. *)
LEMMA IdleStep ==
    ASSUME IoctlInv, UNCHANGED vars
    PROVE  IoctlInv'
<1>0. Types /\ ThreadsOK /\ AskedOK /\ CountOK /\ PairsOK /\ LoadedOK /\ FieldsOK /\ ValsOK /\ AloneOK
      /\ StatusOK /\ ProgOK
  BY DEF IoctlInv
<1>1. UNCHANGED <<bits, val, debug, prog, todo, thread, status, asked, want, put, raced, fresh>>
  BY DEF vars
<1>2. Types'
  BY <1>0, <1>1 DEF Types, TypeOK
<1>3. ThreadsOK' /\ PairsOK' /\ LoadedOK' /\ AloneOK'
  BY <1>0, <1>1 DEF ThreadsOK, PairsOK, LoadedOK, AloneOK
<1>4. AskedOK' /\ CountOK'
  BY <1>0, <1>1 DEF AskedOK, AskedBits, CountOK, Releasing
<1>5. FieldsOK' /\ ValsOK'
  BY <1>0, <1>1 DEF FieldsOK, ValsOK, Did, Wrote, Stored
<1>6. StatusOK'
  BY <1>0, <1>1 DEF StatusOK, Shows, Contents, Quiet, StatusCurrent, ForEachLane
<1>7. ProgOK'
  BY <1>0, <1>1 DEF ProgOK, Quiet, ResetOK, Made, LastClr
<1> QED BY <1>2, <1>3, <1>4, <1>5, <1>6, <1>7 DEF IoctlInv

(* The invariant holds in every state, whatever commands the threads of a  *)
(* program send to my_Ioctl at the same time.                              *)
THEOREM IoctlSafe == Spec => []IoctlInv
<1>1. Init => IoctlInv
  BY InitInv
<1>2. IoctlInv /\ [Next]_vars => IoctlInv'
  BY StartStep, ExitStep, ProgramCallStep, AppCallStep, LoadStep, StoreStep, PutRegStep, GetRegStep,
     ReturnStep, IdleStep DEF Next
<1> QED BY <1>1, <1>2, PTL DEF Spec

(* Type correctness: every register keeps a word of its kind, and the      *)
(* masked lane argument of my_Ioctl never leads to a bit outside a         *)
(* register.                                                               *)
THEOREM IoctlTypes == Spec => []TypeOK
<1>1. IoctlInv => TypeOK
  BY DEF IoctlInv, Types
<1> QED BY <1>1, IoctlSafe, PTL

(* No field is ever on unless a command named it: the unlocked |= and &=   *)
(* of my_Ioctl lose or revive commands of other threads, and hit no field  *)
(* nobody named.                                                           *)
THEOREM IoctlNoInvention == Spec => []NoInvention
<1>1. IoctlInv => NoInvention
  <2> SUFFICES ASSUME IoctlInv, NEW f \in On PROVE f \in asked
    BY DEF NoInvention
  <2>1. AskedOK
    BY DEF IoctlInv
  <2>2. \/ f \in PgpFields /\ BitOf(f) \in bits[PgpStat]
        \/ f \in EvrFields /\ BitOf(f) \in bits[EvrStat]
    BY OnFields DEF On
  <2>3. f \in Fields /\ (f \in PgpFields => RegOf(f) = PgpStat) /\ (f \in EvrFields => RegOf(f) = EvrStat)
    BY <2>2, FieldFacts DEF Fields
  <2> QED BY <2>1, <2>2, <2>3 DEF AskedOK, AskedBits
<1> QED BY <1>1, IoctlSafe, PTL

(* The counters are held in reset only while a thread is inside the        *)
(* Count_Reset case of my_Ioctl, for any number of threads that reset them *)
(* together.                                                               *)
THEOREM IoctlCountReleased == Spec => []CountReleased
<1>1. IoctlInv => CountReleased
  <2> SUFFICES ASSUME IoctlInv, bits[CardRst] # {}
               PROVE  \E t \in Threads : thread[t].busy /\ thread[t].call.cmd = "Count_Reset"
    BY DEF CountReleased
  <2>1. PICK t \in Threads : thread[t].call.cmd = "Count_Reset"
    BY DEF IoctlInv, CountOK, Releasing
  <2>2. thread[t].busy
    BY <2>1, IdleFacts DEF IoctlInv, ThreadsOK, ThreadOK
  <2> QED BY <2>1, <2>2
<1> QED BY <1>1, IoctlSafe, PTL

(* A status read by Read_Status without company, and followed by no        *)
(* command, shows every control register of every lane as it is.           *)
THEOREM IoctlStatusCurrent == Spec => []StatusCurrent
<1>1. IoctlInv => StatusCurrent
  BY DEF IoctlInv, StatusOK, StatusCurrent
<1> QED BY <1>1, IoctlSafe, PTL

(* A register that no two overlapping commands used holds what the         *)
(* commands that returned asked for, although my_Ioctl takes no lock.      *)
THEOREM IoctlLastCommandWins == Spec => []LastCommandWins
<1>1. ASSUME IoctlInv PROVE LastCommandWins
  <2> DEFINE InUse == UNION {RegsOf(thread[t].call) : t \in {u \in Threads : thread[u].busy}}
  <2>1. Types /\ ThreadsOK /\ FieldsOK /\ ValsOK
    BY <1>1 DEF IoctlInv
  <2>2. ASSUME NEW f \in Fields, RegOf(f) \notin raced, RegOf(f) \notin InUse
        PROVE  BitOf(f) \in bits[RegOf(f)] <=> f \in want
    <3>1. ASSUME NEW t \in Threads PROVE ~Did(thread[t], f)
      <4> SUFFICES ASSUME Did(thread[t], f) PROVE FALSE
        OBVIOUS
      <4>1. thread[t].call \in Modifies /\ FieldOf(thread[t].call) = f /\ thread[t].call \in Command
        BY <2>1 DEF Did, Types, ThreadType
      <4>2. thread[t].busy
        BY <2>1, <4>1, IdleFacts DEF ThreadsOK, ThreadOK
      <4>3. RegOf(f) \in RegsOf(thread[t].call)
        BY <4>1, RegsFacts
      <4> QED BY <2>2, <4>2, <4>3
    <3> QED BY <2>1, <2>2, <3>1 DEF FieldsOK
  <2>3. ASSUME NEW r \in ValReg, r \notin raced, r \notin InUse PROVE val[r] = put[r]
    <3>1. ASSUME NEW t \in Threads PROVE ~Wrote(thread[t], r)
      BY <2>1, <2>3, WroteUses
    <3> QED BY <2>1, <2>3, <3>1 DEF ValsOK
  <2>4. ASSUME PgpStat \notin raced \cup InUse PROVE PgpOn = want \cap PgpFields
    <3>1. \A f \in PgpFields : f \in Fields /\ RegOf(f) = PgpStat
      BY FieldFacts DEF Fields
    <3>2. \A f \in PgpFields : BitOf(f) \in bits[PgpStat] <=> f \in want
      BY <2>2, <2>4, <3>1
    <3> QED BY <3>2, OnFields
  <2>5. ASSUME EvrStat \notin raced \cup InUse PROVE EvrOn = want \cap EvrFields
    <3>1. \A f \in EvrFields : f \in Fields /\ RegOf(f) = EvrStat
      BY FieldFacts DEF Fields
    <3>2. \A f \in EvrFields : BitOf(f) \in bits[EvrStat] <=> f \in want
      BY <2>2, <2>5, <3>1
    <3> QED BY <3>2, OnFields
  <2> HIDE DEF InUse
  <2>6. /\ PgpStat \in (BitReg \cup ValReg) \ (raced \cup InUse) => PgpOn = want \cap PgpFields
        /\ EvrStat \in (BitReg \cup ValReg) \ (raced \cup InUse) => EvrOn = want \cap EvrFields
        /\ \A r \in ValReg \cap ((BitReg \cup ValReg) \ (raced \cup InUse)) : val[r] = put[r]
    BY <2>3, <2>4, <2>5
  <2> QED BY <2>6 DEF LastCommandWins, InUse
<1> QED BY <1>1, IoctlSafe, PTL

(* Every reset is cleared after it was set for the last time. *)
LEMMA xResetClears ==
    ASSUME NEW f \in Fields, f[1] \in {"Rx_Reset", "Tx_Reset", "Evr_Reset", "Evr_PLL_RST"}
    PROVE  \E j \in 1 .. Len(xReset) : LastClr(j) /\ FieldOf(xReset[j]) = f
<1>1. f = <<f[1], f[2]>> /\ f[2] \in Lane /\ (f[1] \in EvrWhat => f[2] = 0) /\ f[2] \in Nat
  BY FieldFacts, LaneNat DEF EvrWhat
<1>2. ASSUME NEW l \in Lane
      PROVE  /\ pgpcard_clrTxReset(l) \in Modifies /\ FieldOf(pgpcard_clrTxReset(l)) = <<"Tx_Reset", l>>
             /\ pgpcard_clrRxReset(l) \in Modifies /\ FieldOf(pgpcard_clrRxReset(l)) = <<"Rx_Reset", l>>
             /\ FieldOf(pgpcard_setTxReset(l)) = <<"Tx_Reset", l>> /\ FieldOf(pgpcard_setRxReset(l)) = <<"Rx_Reset", l>>
             /\ pgpcard_clrTxReset(l).cmd = "Clr" /\ pgpcard_clrRxReset(l).cmd = "Clr"
  <2>1. l \in Nat /\ l % N = l
    BY ModN, LaneNat
  <2> QED BY <2>1 DEF pgpcard_clrTxReset, pgpcard_clrRxReset, pgpcard_setTxReset, pgpcard_setRxReset, Tx, FieldOf,
                      Modifies, PgpWhat
<1>3. /\ pgpcard_clrEvrRst \in Modifies /\ FieldOf(pgpcard_clrEvrRst) = <<"Evr_Reset", 0>>
      /\ pgpcard_clrEvrPllRst \in Modifies /\ FieldOf(pgpcard_clrEvrPllRst) = <<"Evr_PLL_RST", 0>>
      /\ FieldOf(pgpcard_setEvrRst) = <<"Evr_Reset", 0>> /\ FieldOf(pgpcard_setEvrPllRst) = <<"Evr_PLL_RST", 0>>
      /\ pgpcard_clrEvrRst.cmd = "Clr" /\ pgpcard_clrEvrPllRst.cmd = "Clr" /\ pgpcard_rstCount.cmd = "Count_Reset"
  <2>1. 0 % N = 0
    BY ModN, LaneNat
  <2> QED BY <2>1 DEF pgpcard_clrEvrRst, pgpcard_clrEvrPllRst, pgpcard_setEvrRst, pgpcard_setEvrPllRst,
                      pgpcard_rstCount, Tx, FieldOf, Modifies, EvrWhat
<1>4. PICK k \in Nat : k = N /\ k >= 1
  OBVIOUS
<1>5. Len(xReset) = 4 * k + 5
  BY <1>4, xResetOrder
(* Which fields are set from a position on. *)
<1>6. ASSUME NEW m \in 1 .. (4 * k + 5), xReset[m].cmd = "Set"
      PROVE  \/ \E l \in Nat : m = 2 * l + 1 /\ FieldOf(xReset[m]) = <<"Tx_Reset", l>>
             \/ \E l \in Nat : m = 2 * k + 2 * l + 1 /\ FieldOf(xReset[m]) = <<"Rx_Reset", l>>
             \/ m = 4 * k + 1 /\ FieldOf(xReset[m]) = <<"Evr_PLL_RST", 0>>
             \/ m = 4 * k + 3 /\ FieldOf(xReset[m]) = <<"Evr_Reset", 0>>
  <2>1. CASE m \in 1 .. 2 * k
    <3> DEFINE l == (m - 1) \div 2
    <3>1. l \in Lane /\ l \in Nat /\ ((m - 1) % 2 = 0 => m = 2 * l + 1)
      BY <1>4, <2>1 DEF Lane
    <3>2. xReset[m] = IF (m - 1) % 2 = 0 THEN pgpcard_setTxReset(l) ELSE pgpcard_clrTxReset(l)
      BY <1>4, <2>1, xResetOrder
    <3> HIDE DEF l
    <3>3. (m - 1) % 2 = 0 /\ FieldOf(xReset[m]) = <<"Tx_Reset", l>>
      BY <1>2, <1>6, <3>1, <3>2
    <3> QED BY <3>1, <3>3
  <2>2. CASE m \in (2 * k + 1) .. 4 * k
    <3>1. PICK i \in 1 .. 2 * k : m = 2 * k + i
      <4>1. m - 2 * k \in 1 .. 2 * k /\ m = 2 * k + (m - 2 * k)
        BY <2>2
      <4> QED BY <4>1
    <3> DEFINE l == (i - 1) \div 2
    <3>2. l \in Lane /\ l \in Nat /\ ((i - 1) % 2 = 0 => i = 2 * l + 1)
      BY <1>4 DEF Lane
    <3>3. xReset[m] = IF (i - 1) % 2 = 0 THEN pgpcard_setRxReset(l) ELSE pgpcard_clrRxReset(l)
      BY <1>4, <3>1, xResetOrder
    <3> HIDE DEF l
    <3>4. (i - 1) % 2 = 0 /\ FieldOf(xReset[m]) = <<"Rx_Reset", l>>
      BY <1>2, <1>6, <3>2, <3>3
    <3>5. m = 2 * k + 2 * l + 1
      BY <3>1, <3>2, <3>4
    <3> QED BY <3>2, <3>4, <3>5
  <2>3. CASE m \in (4 * k + 1) .. (4 * k + 5)
    <3>1. m = 4 * k + 1 \/ m = 4 * k + 2 \/ m = 4 * k + 3 \/ m = 4 * k + 4 \/ m = 4 * k + 5
      BY <2>3
    <3> QED BY <1>3, <1>4, <1>6, <3>1, xResetOrder
  <2> QED BY <2>1, <2>2, <2>3
<1>7. CASE f[1] = "Tx_Reset"
  <2> DEFINE j == 2 * f[2] + 2
  <2>1. j \in 1 .. 2 * k /\ (j - 1) % 2 = 1 /\ (j - 1) \div 2 = f[2]
    BY <1>1, <1>4 DEF Lane
  <2> HIDE DEF j
  <2>2. xReset[j] = pgpcard_clrTxReset(f[2])
    <3>1. xReset[j] = IF (j - 1) % 2 = 0 THEN pgpcard_setTxReset((j - 1) \div 2)
                      ELSE pgpcard_clrTxReset((j - 1) \div 2)
      BY <1>4, <2>1, xResetOrder
    <3> QED BY <2>1, <3>1
  <2>3. xReset[j] \in Modifies /\ xReset[j].cmd = "Clr" /\ FieldOf(xReset[j]) = f
    BY <1>1, <1>2, <1>7, <2>2
  <2>4. ASSUME NEW m \in (j + 1) .. Len(xReset), xReset[m].cmd = "Set", FieldOf(xReset[m]) = f PROVE FALSE
    <3>1. m \in 1 .. (4 * k + 5) /\ m > j
      BY <1>5, <2>1, <2>4
    <3>2. FieldOf(xReset[m])[1] = "Tx_Reset" /\ FieldOf(xReset[m])[2] = f[2]
      BY <1>1, <1>7, <2>4
    <3>3. PICK l \in Nat : m = 2 * l + 1 /\ FieldOf(xReset[m]) = <<"Tx_Reset", l>>
      BY <1>6, <2>4, <3>1, <3>2
    <3>4. l = f[2]
      BY <3>2, <3>3
    <3> QED BY <1>1, <3>1, <3>3, <3>4 DEF j
  <2>5. j \in 1 .. Len(xReset)
    BY <1>5, <2>1
  <2> QED BY <2>3, <2>4, <2>5 DEF LastClr
<1>8. CASE f[1] = "Rx_Reset"
  <2> DEFINE i == 2 * f[2] + 2
             j == 2 * k + i
  <2>1. i \in 1 .. 2 * k /\ (i - 1) % 2 = 1 /\ (i - 1) \div 2 = f[2]
    BY <1>1, <1>4 DEF Lane
  <2> HIDE DEF i
  <2>2. xReset[j] = pgpcard_clrRxReset(f[2])
    <3>1. xReset[2 * N + i] = IF (i - 1) % 2 = 0 THEN pgpcard_setRxReset((i - 1) \div 2)
                              ELSE pgpcard_clrRxReset((i - 1) \div 2)
      BY <1>4, <2>1, xResetOrder
    <3> QED BY <1>4, <2>1, <3>1
  <2>3. xReset[j] \in Modifies /\ xReset[j].cmd = "Clr" /\ FieldOf(xReset[j]) = f
    BY <1>1, <1>2, <1>8, <2>2
  <2>4. ASSUME NEW m \in (j + 1) .. Len(xReset), xReset[m].cmd = "Set", FieldOf(xReset[m]) = f PROVE FALSE
    <3>1. m \in 1 .. (4 * k + 5) /\ m > j
      BY <1>5, <2>1, <2>4
    <3>2. FieldOf(xReset[m])[1] = "Rx_Reset" /\ FieldOf(xReset[m])[2] = f[2]
      BY <1>1, <1>8, <2>4
    <3>3. PICK l \in Nat : m = 2 * k + 2 * l + 1 /\ FieldOf(xReset[m]) = <<"Rx_Reset", l>>
      BY <1>6, <2>4, <3>1, <3>2
    <3>4. l = f[2]
      BY <3>2, <3>3
    <3> QED BY <1>1, <3>1, <3>3, <3>4 DEF i
  <2>5. j \in 1 .. Len(xReset)
    BY <1>5, <2>1
  <2> QED BY <2>3, <2>4, <2>5 DEF LastClr
<1>9. CASE f[1] = "Evr_PLL_RST"
  <2> DEFINE j == 4 * k + 2
  <2>1. xReset[j] \in Modifies /\ xReset[j].cmd = "Clr" /\ FieldOf(xReset[j]) = f
    BY <1>1, <1>3, <1>4, <1>9, xResetOrder DEF EvrWhat
  <2>2. ASSUME NEW m \in (j + 1) .. Len(xReset), xReset[m].cmd = "Set", FieldOf(xReset[m]) = f PROVE FALSE
    <3>1. m \in 1 .. (4 * k + 5) /\ m > j
      BY <1>5, <2>2
    <3>2. FieldOf(xReset[m])[1] = "Evr_PLL_RST"
      BY <1>1, <1>9, <2>2
    <3>3. m = 4 * k + 1
      BY <1>6, <2>2, <3>1, <3>2
    <3> QED BY <3>1, <3>3
  <2> QED BY <1>5, <2>1, <2>2 DEF LastClr
<1>10. CASE f[1] = "Evr_Reset"
  <2> DEFINE j == 4 * k + 4
  <2>1. xReset[j] \in Modifies /\ xReset[j].cmd = "Clr" /\ FieldOf(xReset[j]) = f
    BY <1>1, <1>3, <1>4, <1>10, xResetOrder DEF EvrWhat
  <2>2. ASSUME NEW m \in (j + 1) .. Len(xReset), xReset[m].cmd = "Set", FieldOf(xReset[m]) = f PROVE FALSE
    <3>1. m \in 1 .. (4 * k + 5) /\ m > j
      BY <1>5, <2>2
    <3>2. FieldOf(xReset[m])[1] = "Evr_Reset"
      BY <1>1, <1>10, <2>2
    <3>3. m = 4 * k + 3
      BY <1>6, <2>2, <3>1, <3>2
    <3> QED BY <3>1, <3>3
  <2> QED BY <1>5, <2>1, <2>2 DEF LastClr
<1> QED BY <1>7, <1>8, <1>9, <1>10

(* When xReset is done, no lane and no part of the EVR is in reset and the *)
(* counters run, whatever an earlier program left behind.                  *)
THEOREM IoctlXResetReleases == Spec => []XResetReleases
<1>1. ASSUME IoctlInv PROVE XResetReleases
  <2> SUFFICES ASSUME prog = "xReset", todo = <<>>, Quiet
               PROVE  /\ \A f \in On : f[1] \notin {"Rx_Reset", "Tx_Reset", "Evr_Reset", "Evr_PLL_RST"}
                      /\ bits[CardRst] = {}
    BY DEF XResetReleases
  <2>1. ResetOK /\ ThreadsOK /\ CountOK
    BY <1>1 DEF IoctlInv, ProgOK
  <2>2. \A t \in Threads : thread[t] = Idle
    BY <2>1 DEF ThreadsOK, ThreadOK, Quiet
  <2>3. bits[CardRst] = {}
    BY <2>1, <2>2, IdleFacts DEF CountOK, Releasing
  <2>4. Made = Len(xReset) /\ thread[Main].left = <<>>
    <3>1. Len(xReset) \in Nat /\ Len(todo) = 0
      BY ProgramCommands
    <3> QED BY <2>2, <3>1, MainFact, IdleFacts DEF Made
  <2>5. ASSUME NEW f \in On, f[1] \in {"Rx_Reset", "Tx_Reset", "Evr_Reset", "Evr_PLL_RST"} PROVE FALSE
    <3>1. f \in Fields /\ BitOf(f) \in bits[RegOf(f)]
      <4>1. \/ f \in PgpFields /\ BitOf(f) \in bits[PgpStat]
            \/ f \in EvrFields /\ BitOf(f) \in bits[EvrStat]
        BY OnFields DEF On
      <4> QED BY <4>1, FieldFacts DEF Fields
    <3>2. PICK j \in 1 .. Len(xReset) : LastClr(j) /\ FieldOf(xReset[j]) = f
      BY <2>5, <3>1, xResetClears
    <3> QED BY <2>1, <2>4, <3>1, <3>2 DEF ResetOK
  <2> QED BY <2>3, <2>5
<1> QED BY <1>1, IoctlSafe, PTL
=============================================================================
