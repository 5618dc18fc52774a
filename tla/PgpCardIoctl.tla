---------------------------- MODULE PgpCardIoctl ----------------------------
(***************************************************************************)
(* Control commands.  A program opens the card, calls the wrappers of      *)
(* PgpCardG3Wrap.h, and each wrapper is a write() that PgpCard_Write hands *)
(* to my_Ioctl.  my_Ioctl takes no lock, and threads of one program may    *)
(* share the file descriptor: a command that changes some bits of a        *)
(* register reads the register in one bus access and writes it back in     *)
(* another, and the commands of two threads interleave between the two.    *)
(*                                                                         *)
(* A bit register is the set of its bits that are one.  The firmware has 8 *)
(* lanes; here N, so that field f of a lane l is bit f * N + l.            *)
(***************************************************************************)
EXTENDS Naturals, Sequences, Functions

CONSTANTS Threads,    \* threads of the program that holds the device
          N,          \* lanes (8)
          CodeMod,    \* values of an event or op code (256)
          Args,       \* lane arguments an application passes, existing or not
          Values,     \* the other arguments
          MaxCalls,   \* bound: commands of applications
          MaxProgs    \* bound: programs that are started

ASSUME IoctlAssumption ==
    /\ N \in Nat \ {0} /\ CodeMod \in Nat \ {0}
    /\ Threads # {} /\ Args \subseteq Nat /\ Values \subseteq Nat

VARIABLES bits,      \* registers that are collections of bits
          val,       \* registers that hold one value
          debug,     \* pgpDevice->debug
          prog,      \* the program that has the device open
          todo,      \* calls the program still has to make
          thread,    \* what each thread is doing
          status,    \* the last PgpCardStatus copied to the user
          budget,    \* calls and programs left
          asked,     \* history: fields some command wanted on
          want,      \* history: fields that are on if commands take effect in turn
          put,       \* history: values of val if commands take effect in turn
          raced,     \* history: registers two overlapping commands used
          fresh      \* history: no command since status was read without company

hw      == <<bits, val, debug>>
history == <<asked, want, put, raced, fresh>>
vars    == <<bits, val, debug, prog, todo, thread, status, budget, asked, want, put, raced, fresh>>

Lane     == 0 .. (N - 1)
SPAD     == CodeMod + 1                      \* SPAD_WRITE
PgpStat  == <<"pgpCardStat", 0>>
EvrStat  == <<"evrCardStat", 1>>
CardRst  == <<"cardRstStat", 0>>
EvrMask  == <<"evrCardStat", 2>>
OpCode   == <<"pgpOpCode", 0>>
Scratch  == <<"scratch", 0>>
CodeReg  == {"runCode", "acceptCode"}        \* one register of each kind per lane
DelayReg == {"runDelay", "acceptDelay"}

(* The registers of PgpCardReg that commands use. *)
BitReg == {PgpStat, EvrStat, CardRst}
ValReg == {EvrMask, OpCode, Scratch} \cup ((CodeReg \cup DelayReg) \X Lane)

-----------------------------------------------------------------------------
(* The firmware's view (PciApp): which bit a field is, and what a register *)
(* keeps of the word written to it.                                        *)
PgpFields == {"Loop", "Rx_Reset", "Tx_Reset"} \X Lane
EvrFields == {"Evr_Enable", "Evr_Reset", "Evr_PLL_RST"} \X {0}

loopBack(l) == l
pgpRxRst(l) == N + l
pgpTxRst(l) == 2 * N + l
PgpOn ==
    {<<"Loop", l>> : l \in {k \in Lane : loopBack(k) \in bits[PgpStat]}}
    \cup {<<"Rx_Reset", l>> : l \in {k \in Lane : pgpRxRst(k) \in bits[PgpStat]}}
    \cup {<<"Tx_Reset", l>> : l \in {k \in Lane : pgpTxRst(k) \in bits[PgpStat]}}
EvrOn ==
    {f \in EvrFields : [Evr_Enable |-> 0, Evr_Reset |-> 1, Evr_PLL_RST |-> 2][f[1]] \in bits[EvrStat]}
On == PgpOn \cup EvrOn

Kept(reg, x) == IF reg[1] \in CodeReg \cup {"pgpOpCode"} THEN x % CodeMod ELSE x

-----------------------------------------------------------------------------
(* The wrappers: the command and the arguments each one passes to write(). *)
Tx(cmd, what, idx, arg) == [cmd |-> cmd, what |-> what, idx |-> idx, arg |-> arg]

pgpcard_sendOpCode(opCode)   == Tx("Put", "pgpOpCode", 0, opCode % CodeMod)
pgpcard_status               == Tx("Read_Status", "", 0, 0)
pgpcard_rstCount             == Tx("Count_Reset", "", 0, 0)
pgpcard_setRxReset(lane)     == Tx("Set", "Rx_Reset", 0, lane)
pgpcard_clrRxReset(lane)     == Tx("Clr", "Rx_Reset", 0, lane)
pgpcard_setTxReset(lane)     == Tx("Set", "Tx_Reset", 0, lane)
pgpcard_clrTxReset(lane)     == Tx("Clr", "Tx_Reset", 0, lane)
pgpcard_setLoop(lane)        == Tx("Set", "Loop", 0, lane)
pgpcard_clrLoop(lane)        == Tx("Clr", "Loop", 0, lane)
pgpcard_enableEvr            == Tx("Set", "Evr_Enable", 0, 0)
pgpcard_disableEvr           == Tx("Clr", "Evr_Enable", 0, 0)
pgpcard_setEvrRst            == Tx("Set", "Evr_Reset", 0, 0)
pgpcard_clrEvrRst            == Tx("Clr", "Evr_Reset", 0, 0)
pgpcard_setEvrPllRst         == Tx("Set", "Evr_PLL_RST", 0, 0)
pgpcard_clrEvrPllRst         == Tx("Clr", "Evr_PLL_RST", 0, 0)
pgpcard_evrMask(mask)        == Tx("Put", "evrCardStat", 2, mask)
pgpcard_setDebug(level)      == Tx("Set_Debug", "", 0, level)
pgpcard_dumpDebug            == Tx("Dump_Debug", "", 0, 0)

(* A lane that does not exist becomes a NOP here, while the set and clear  *)
(* wrappers above leave the lane to my_Ioctl, which takes it modulo 8.     *)
PerLane(reg, lane, x) == IF lane \in Lane THEN Tx("Put", reg, lane, x) ELSE Tx("NOP", "", 0, x)
pgpcard_setEvrRunCode(lane, x)     == PerLane("runCode", lane, x)
pgpcard_setEvrAcceptCode(lane, x)  == PerLane("acceptCode", lane, x)
pgpcard_setEvrRunDelay(lane, x)    == PerLane("runDelay", lane, x)
pgpcard_setEvrAcceptDelay(lane, x) == PerLane("acceptDelay", lane, x)

(* Every call an application can make; "Evr_RunCode" is a command that     *)
(* PgpCardG3Mod.h still defines and my_Ioctl no longer knows.              *)
Calls ==
    {pgpcard_status, pgpcard_rstCount, pgpcard_enableEvr, pgpcard_disableEvr, pgpcard_setEvrRst,
     pgpcard_clrEvrRst, pgpcard_setEvrPllRst, pgpcard_clrEvrPllRst, pgpcard_dumpDebug,
     Tx("Evr_RunCode", "", 0, 0)}
    \cup (UNION {{pgpcard_setRxReset(a), pgpcard_clrRxReset(a), pgpcard_setTxReset(a),
                  pgpcard_clrTxReset(a), pgpcard_setLoop(a), pgpcard_clrLoop(a)} : a \in Args})
    \cup (UNION {{pgpcard_sendOpCode(x), pgpcard_evrMask(x), pgpcard_setDebug(x)} : x \in Values})
    \cup (UNION {{pgpcard_setEvrRunCode(a, x), pgpcard_setEvrAcceptCode(a, x),
                  pgpcard_setEvrRunDelay(a, x), pgpcard_setEvrAcceptDelay(a, x)} :
                      a \in Args, x \in Values})

(* The k calls f(0), then the k calls f(1), and so on for every lane. *)
ForEachLane(k, f(_)) == [i \in 1 .. k * N |-> f((i - 1) \div k)[((i - 1) % k) + 1]]

(* The programs that only send commands. *)
(* Mutant: the last EVR command clears the wrong reset. *)
xReset_Slip ==
    LET Tx2(l) == <<pgpcard_setTxReset(l), pgpcard_clrTxReset(l)>>
        Rx2(l) == <<pgpcard_setRxReset(l), pgpcard_clrRxReset(l)>>
    IN  ForEachLane(2, Tx2) \o ForEachLane(2, Rx2)
        \o <<pgpcard_setEvrPllRst, pgpcard_clrEvrPllRst, pgpcard_setEvrRst, pgpcard_clrEvrPllRst,
             pgpcard_rstCount>>

xReset ==
    LET Tx2(l) == <<pgpcard_setTxReset(l), pgpcard_clrTxReset(l)>>
        Rx2(l) == <<pgpcard_setRxReset(l), pgpcard_clrRxReset(l)>>
    IN  ForEachLane(2, Tx2) \o ForEachLane(2, Rx2)
        \o <<pgpcard_setEvrPllRst, pgpcard_clrEvrPllRst, pgpcard_setEvrRst, pgpcard_clrEvrRst,
             pgpcard_rstCount>>
xLoop ==
    LET SetOne(l) == <<pgpcard_setLoop(l)>>
        ClrOne(l) == <<pgpcard_clrLoop(l)>>
    IN  {ForEachLane(1, SetOne), ForEachLane(1, ClrOne)}
        \cup {<<pgpcard_setLoop(a)>> : a \in Args} \cup {<<pgpcard_clrLoop(a)>> : a \in Args}
xStatus == <<pgpcard_setDebug(5), pgpcard_disableEvr, pgpcard_status, pgpcard_dumpDebug,
             pgpcard_setDebug(0)>>

-----------------------------------------------------------------------------
(* my_Ioctl: the bus accesses of a command, in order. *)
Access(op, reg, x) == [op |-> op, reg |-> reg, x |-> x]

(* Mutant: the lane argument is not taken modulo 8. *)
PgpBit_NoMask(what, arg) == [Loop |-> 0, Rx_Reset |-> N, Tx_Reset |-> 2 * N][what] + arg

PgpBit(what, arg) == [Loop |-> 0, Rx_Reset |-> N, Tx_Reset |-> 2 * N][what] + (arg % N)

(* Mutant: the PLL reset commands act on the reset bit. *)
EvrBit_Same(what) == [Evr_Enable |-> 0, Evr_Reset |-> 1, Evr_PLL_RST |-> 1][what]

EvrBit(what) == [Evr_Enable |-> 0, Evr_Reset |-> 1, Evr_PLL_RST |-> 2][what]

Modify(c) ==
    IF c.what \in {"Loop", "Rx_Reset", "Tx_Reset"}
    THEN Access(c.cmd, PgpStat, PgpBit(c.what, c.arg))
    ELSE Access(c.cmd, EvrStat, EvrBit(c.what))

(* Mutant: the counters are released before they are reset. *)
CountReset_Swapped == <<Access("Clr", CardRst, 0), Access("Set", CardRst, 0)>>

CountReset == <<Access("Set", CardRst, 0), Access("Clr", CardRst, 0)>>

(* Mutant: the accept delays are read from the run delays. *)
ReadStatus_Delay ==
    LET OfLane(l) == <<Access("Get", <<"runCode", l>>, 0), Access("Get", <<"acceptCode", l>>, 0),
                       Access("Get", <<"runDelay", l>>, 0), Access("Get", <<"runDelay", l>>, 0)>>
    IN  <<Access("Put", Scratch, SPAD), Access("Get", Scratch, 0), Access("Get", CardRst, 0),
          Access("Get", CardRst, 0), Access("Get", EvrStat, 0), Access("Get", EvrMask, 0)>>
        \o ForEachLane(4, OfLane) \o <<Access("Get", PgpStat, 0)>>

(* The control registers of a status read; counters and link states come  *)
(* from registers no command writes.  cardRstStat is read once per bit.    *)
ReadStatus ==
    LET OfLane(l) == <<Access("Get", <<"runCode", l>>, 0), Access("Get", <<"acceptCode", l>>, 0),
                       Access("Get", <<"runDelay", l>>, 0), Access("Get", <<"acceptDelay", l>>, 0)>>
    IN  <<Access("Put", Scratch, SPAD), Access("Get", Scratch, 0), Access("Get", CardRst, 0),
          Access("Get", CardRst, 0), Access("Get", EvrStat, 0), Access("Get", EvrMask, 0)>>
        \o ForEachLane(4, OfLane) \o <<Access("Get", PgpStat, 0)>>

Accesses(c) ==
    CASE c.cmd \in {"Set", "Clr"}  -> <<Modify(c)>>
      [] c.cmd = "Put"             -> <<Access("Put", <<c.what, c.idx>>, c.arg)>>
      [] c.cmd = "Count_Reset"     -> CountReset
      [] c.cmd = "Read_Status"     -> ReadStatus
      [] OTHER                     -> <<>>    \* NOP, debug commands, unknown commands

RegsOf(c) == {a.reg : a \in Range(Accesses(c))}

-----------------------------------------------------------------------------
Idle == [busy |-> FALSE, call |-> Tx("NOP", "", 0, 0), left |-> <<>>, loaded |-> FALSE,
         word |-> {}, snap |-> <<>>, alone |-> FALSE]

Init ==
    /\ bits = [r \in BitReg |-> {}]
    /\ val = [r \in ValReg |-> 0]
    /\ debug = 0
    /\ prog = "none"
    /\ todo = <<>>
    /\ thread = [t \in Threads |-> Idle]
    /\ status = <<>>
    /\ budget = [calls |-> MaxCalls, progs |-> MaxProgs]
    /\ asked = {} /\ want = {} /\ put = val /\ raced = {} /\ fresh = FALSE

(* open() succeeds for one program at a time, see PgpCard_Open. *)
Start ==
    /\ prog = "none"
    /\ budget.progs > 0
    /\ budget' = [budget EXCEPT !.progs = @ - 1]
    /\ \/ prog' = "app" /\ todo' = <<>>
       \/ prog' = "xReset" /\ todo' = xReset
       \/ prog' = "xStatus" /\ todo' = xStatus
       \/ prog' = "xLoop" /\ todo' \in xLoop
    /\ UNCHANGED <<hw, thread, status, history>>

Quiet == \A t \in Threads : ~thread[t].busy

Exit ==
    /\ prog # "none" /\ todo = <<>> /\ Quiet
    /\ prog' = "none"
    /\ UNCHANGED <<hw, todo, thread, status, budget, history>>

Others(t) == {u \in Threads \ {t} : thread[u].busy}

(* A thread enters my_Ioctl with command c. *)
Enter(t, c) ==
    /\ ~thread[t].busy
    /\ thread' = [u \in Threads |->
                    IF u = t THEN [Idle EXCEPT !.busy = TRUE, !.call = c, !.left = Accesses(c),
                                               !.alone = (Others(t) = {})]
                    ELSE [thread[u] EXCEPT !.alone = FALSE]]
    /\ asked' = IF c.cmd = "Set" THEN asked \cup {<<c.what, c.arg % N>>} ELSE asked
    /\ raced' = raced \cup (RegsOf(c) \cap (UNION {RegsOf(thread[u].call) : u \in Others(t)}))
    /\ fresh' = FALSE
    /\ UNCHANGED <<hw, prog, status, want, put>>

AppCall(t) ==
    /\ prog = "app" /\ budget.calls > 0
    /\ budget' = [budget EXCEPT !.calls = @ - 1]
    /\ \E c \in Calls : Enter(t, c)
    /\ UNCHANGED todo

(* The programs have one thread. *)
ProgramCall ==
    /\ todo # <<>> /\ Quiet
    /\ todo' = Tail(todo)
    /\ Enter(CHOOSE t \in Threads : TRUE, Head(todo))
    /\ UNCHANGED budget

Doing(t, ops) == thread[t].left # <<>> /\ Head(thread[t].left).op \in ops
Step(t, th)   == thread' = [thread EXCEPT ![t] = th]

(* First half of a |= or &= on a register. *)
Load(t) ==
    /\ Doing(t, {"Set", "Clr"}) /\ ~thread[t].loaded
    /\ Step(t, [thread[t] EXCEPT !.loaded = TRUE, !.word = bits[Head(thread[t].left).reg]])
    /\ UNCHANGED <<hw, prog, todo, status, budget, history>>

(* Second half: the word that was read, with one bit changed. *)
Store(t) ==
    /\ Doing(t, {"Set", "Clr"}) /\ thread[t].loaded
    /\ LET a == Head(thread[t].left)
       IN  bits' = [bits EXCEPT ![a.reg] = IF a.op = "Set" THEN thread[t].word \cup {a.x}
                                           ELSE thread[t].word \ {a.x}]
    /\ Step(t, [thread[t] EXCEPT !.loaded = FALSE, !.word = {}, !.left = Tail(@)])
    /\ UNCHANGED <<val, debug, prog, todo, status, budget, history>>

PutReg(t) ==
    /\ Doing(t, {"Put"})
    /\ LET a == Head(thread[t].left) IN val' = [val EXCEPT ![a.reg] = Kept(a.reg, a.x)]
    /\ Step(t, [thread[t] EXCEPT !.left = Tail(@)])
    /\ UNCHANGED <<bits, debug, prog, todo, status, budget, history>>

Contents(reg) == IF reg \in BitReg THEN bits[reg] ELSE val[reg]

GetReg(t) ==
    /\ Doing(t, {"Get"})
    /\ Step(t, [thread[t] EXCEPT !.left = Tail(@), !.snap = Append(@, Contents(Head(thread[t].left).reg))])
    /\ UNCHANGED <<hw, prog, todo, status, budget, history>>

(* The command returns.  copy_to_user of a status may fail, which leaves   *)
(* the user's structure as it was.                                         *)
Return(t) ==
    LET c == thread[t].call
    IN  /\ thread[t].busy /\ thread[t].left = <<>>
        /\ debug' = IF c.cmd = "Set_Debug" THEN c.arg ELSE debug
        /\ Step(t, Idle)
        /\ want' = CASE c.cmd = "Set" -> want \cup {<<c.what, c.arg % N>>}
                     [] c.cmd = "Clr" -> want \ {<<c.what, c.arg % N>>}
                     [] OTHER -> want
        /\ put' = CASE c.cmd = "Put" -> [put EXCEPT ![<<c.what, c.idx>>] =
                                            Kept(<<c.what, c.idx>>, c.arg)]
                    [] c.cmd = "Read_Status" -> [put EXCEPT ![Scratch] = SPAD]
                    [] OTHER -> put
        /\ \/ /\ c.cmd = "Read_Status"
              /\ status' = thread[t].snap
              /\ fresh' = thread[t].alone
           \/ UNCHANGED <<status, fresh>>
        /\ UNCHANGED <<bits, val, prog, todo, budget, asked, raced>>

Next == \/ Start \/ Exit \/ ProgramCall
        \/ \E t \in Threads : AppCall(t) \/ Load(t) \/ Store(t) \/ PutReg(t) \/ GetReg(t) \/ Return(t)

Spec == Init /\ [][Next]_vars

-----------------------------------------------------------------------------
TypeOK ==
    /\ bits \in [BitReg -> SUBSET (0 .. (3 * N - 1))]
    /\ val \in [ValReg -> Nat] /\ put \in [ValReg -> Nat]
    /\ debug \in Nat
    /\ prog \in {"none", "app", "xReset", "xStatus", "xLoop"}
    /\ asked \subseteq PgpFields \cup EvrFields
    /\ want \subseteq PgpFields \cup EvrFields
    /\ raced \subseteq BitReg \cup ValReg

(* Whatever threads interleave, no lane and no part of the EVR is ever put *)
(* into loop-back, reset or enabled unless some command named exactly that *)
(* field: the race between the halves of |= and &= can undo or revive a    *)
(* command, it cannot hit a neighbour's field.                             *)
NoInvention == On \subseteq asked

(* The counters are held in reset only while some thread is inside         *)
(* Count_Reset: however many threads reset the counters at the same time,  *)
(* the last write of all is one that releases them.                        *)
CountReleased ==
    bits[CardRst] # {} => \E t \in Threads : thread[t].busy /\ thread[t].call.cmd = "Count_Reset"

(* Commands on different registers may run at the same time: a register    *)
(* that no two overlapping commands used holds, whenever no command on it  *)
(* is under way, exactly what the commands that returned asked for.        *)
LastCommandWins ==
    LET InUse == UNION {RegsOf(thread[t].call) : t \in {u \in Threads : thread[u].busy}}
        Calm  == (BitReg \cup ValReg) \ (raced \cup InUse)
    IN  /\ PgpStat \in Calm => PgpOn = want \cap PgpFields
        /\ EvrStat \in Calm => EvrOn = want \cap EvrFields
        /\ \A r \in ValReg \cap Calm : val[r] = put[r]

(* xReset leaves no lane and no part of the EVR in reset and the counters  *)
(* running, whatever state racing commands of an earlier program left.     *)
XResetReleases ==
    prog = "xReset" /\ todo = <<>> /\ Quiet =>
        /\ \A f \in On : f[1] \notin {"Rx_Reset", "Tx_Reset", "Evr_Reset", "Evr_PLL_RST"}
        /\ bits[CardRst] = {}

(* A status that was read while no other command ran, and was followed by  *)
(* none, shows every control register as it is, and the scratch pad value. *)
StatusCurrent ==
    LET OfLane(l) == <<val[<<"runCode", l>>], val[<<"acceptCode", l>>],
                       val[<<"runDelay", l>>], val[<<"acceptDelay", l>>]>>
    IN  fresh => status = <<SPAD, bits[CardRst], bits[CardRst], bits[EvrStat], val[EvrMask]>>
                          \o ForEachLane(4, OfLane) \o <<bits[PgpStat]>>
=============================================================================
