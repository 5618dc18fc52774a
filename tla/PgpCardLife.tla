---------------------------- MODULE PgpCardLife ----------------------------
(***************************************************************************)
(* Loading and unloading the driver: PgpCard_Init, _Probe, _Remove, _Exit, *)
(* _Open and _Release, interleaved with the interrupt handler and the card.*)
(* Probe registers the character device and the interrupt long before the  *)
(* queues exist, none of its error paths undoes anything, and Remove frees *)
(* the queues before it releases the interrupt.                            *)
(*                                                                         *)
(* The PCI core (external) calls Probe and Remove one at a time; a card    *)
(* whose Probe failed may be probed again.  rmmod is refused while a file  *)
(* is open.                                                                *)
(*                                                                         *)
(* A Probe that finds no empty slot is not refused: it works on            *)
(* gPgpDevices[-1], the memory in front of the array, where neither the    *)
(* next Probe nor Remove looks.  That memory belongs to the module and is  *)
(* written like any slot; what else it held, and what its loss does, is    *)
(* not modelled.                                                           *)
(***************************************************************************)
EXTENDS Integers, FiniteSets, FiniteSetsExt

CONSTANTS Cards,       \* PCI cards; a card stands for its base address too
          NoCard,      \* baseHdwr = 0
          Users,       \* threads that open the device
          MAX_PCI_DEVICES,
          MaxCalls,    \* bound: calls of PgpCard_Init and PgpCard_Probe
          MaxFaults    \* bound: kernel calls of Probe that fail

ASSUME LifeAssumption == NoCard \notin Cards /\ MAX_PCI_DEVICES \in Nat \ {0}

VARIABLES module,     \* "out", "live" or "going"
          dev,        \* gPgpDevices, and the memory in front of it
          hw,         \* registers of each card
          region,     \* cards whose memory region is requested
          bound,      \* <<card, slot>> that Probe accepted
          op,         \* the Probe or Remove under way
          isr,        \* the handler of each slot
          user,       \* what each user does
          calls, faults,
          failed,     \* history: cards for which a Probe failed
          overflow,   \* history: cards that Probe put in front of the array
          overrun,    \* history: cards removed, or put in another's place, while an interrupt
                      \* was pending or being handled
          overlapped, \* history: slots that two users opened at the same time, or that were
                      \* initialised while open, until all have closed
          dangling    \* cards for which something is registered that nobody will undo

vars == <<module, dev, hw, region, bound, op, isr, user, calls, faults, failed, overflow,
          overrun, overlapped, dangling>>
hist == <<failed, overflow, overrun, overlapped, dangling>>

Slot    == 0 .. (MAX_PCI_DEVICES - 1)
Outside == -1                      \* driver_data = -1: gPgpDevices[-1]
Place   == Slot \cup {Outside}

Cleared == [base |-> NoCard, reg |-> FALSE, cdev |-> FALSE, isOpen |-> FALSE,
            tx |-> "none", rx |-> "none", irq |-> FALSE]
Idle    == [step |-> "idle", card |-> NoCard, slot |-> 0]
Closed  == [at |-> "out", slot |-> 0, ready |-> FALSE]

-----------------------------------------------------------------------------
(* insmod: the array of devices is cleared, the driver is registered; no   *)
(* device is in front of the array yet.                                    *)
PgpCard_Init ==
    /\ module = "out" /\ calls > 0
    /\ module' = "live" /\ calls' = calls - 1
    /\ dev' = [s \in Place |-> Cleared]
    /\ UNCHANGED <<hw, region, bound, op, isr, user, faults, hist>>

IsBound(c) == \E s \in Place : <<c, s>> \in bound

(* The cards of those places of S that something is registered for. *)
Registered(S) == {dev[s].base : s \in {t \in S : dev[t].cdev \/ dev[t].irq \/ dev[t].reg}}

At(step) == op.step = step
Go(step) == op' = [op EXCEPT !.step = step]

(* A kernel call of Probe fails and Probe returns at once. *)
Refused == faults > 0 /\ faults' = faults - 1 /\ op' = Idle /\ failed' = failed \cup {op.card}

Others == <<module, region, bound, isr, user, calls, overflow, overrun, overlapped, dangling>>

(* The first empty slot is taken.  Without one driver_data stays -1, but   *)
(* it is unsigned, the test for too many devices fails, and Probe goes on  *)
(* in front of the array, whatever device is there already.  The device    *)
(* number is allocated and the structure initialised.                      *)
ProbeFind(c) ==
    /\ module = "live" /\ At("idle") /\ ~IsBound(c)
    /\ calls > 0 /\ calls' = calls - 1
    /\ \/ /\ faults > 0 /\ faults' = faults - 1
          /\ failed' = failed \cup {c}
          /\ UNCHANGED <<op, dev, overflow, overlapped, dangling>>
       \/ LET free == {s \in Slot : dev[s].base = NoCard}
              s    == IF free = {} THEN Outside ELSE Min(free)
          IN  /\ op' = [step |-> "cdev", card |-> c, slot |-> s]
              /\ dev' = [dev EXCEPT ![s].isOpen = FALSE]
              /\ overflow' = IF s = Outside THEN overflow \cup {c} ELSE overflow
              /\ overlapped' = IF \E u \in Users : user[u].at = "open" /\ user[u].slot = s
                               THEN overlapped \cup {s} ELSE overlapped
              /\ dangling' = dangling \cup Registered({s})
              /\ UNCHANGED <<failed, faults>>
    /\ UNCHANGED <<module, region, bound, isr, user, overrun, hw>>

(* A failure of cdev_add is reported and otherwise ignored. *)
ProbeCdev ==
    /\ At("cdev") /\ Go("map")
    /\ \/ dev' = [dev EXCEPT ![op.slot].cdev = TRUE] /\ UNCHANGED faults
       \/ faults > 0 /\ faults' = faults - 1 /\ UNCHANGED dev
    /\ UNCHANGED <<Others, hw, failed>>

(* A handler that is at work on the device goes on with the registers of   *)
(* this card.                                                              *)
ProbeMap ==
    /\ At("map")
    /\ \/ /\ dev' = [dev EXCEPT ![op.slot].base = op.card, ![op.slot].reg = TRUE]
          /\ Go("region") /\ UNCHANGED <<faults, failed>>
       \/ dev' = [dev EXCEPT ![op.slot].base = op.card, ![op.slot].reg = FALSE] /\ Refused
    /\ overrun' = IF isr[op.slot] \in {"work", "enable"} THEN overrun \cup {op.card} ELSE overrun
    /\ UNCHANGED <<module, region, bound, isr, user, calls, overflow, overlapped, dangling, hw>>

(* The region must not be taken; then the card leaves its reset. *)
ProbeRegion ==
    /\ At("region")
    /\ \/ /\ op.card \notin region /\ region' = region \cup {op.card}
          /\ hw' = [hw EXCEPT ![op.card].reset = FALSE]
          /\ Go("irq") /\ UNCHANGED failed
       \/ /\ op.card \in region /\ op' = Idle /\ failed' = failed \cup {op.card}
          /\ UNCHANGED <<hw, region>>
    /\ UNCHANGED <<module, dev, bound, isr, user, calls, faults, overflow, overrun, overlapped, dangling>>

(* Mutant: interrupts are enabled as soon as the handler is registered. *)
ProbeIrq_Enable ==
    /\ At("irq") /\ Go("tx")
    /\ dev' = [dev EXCEPT ![op.slot].irq = TRUE, ![op.slot].tx = "none"]
    /\ hw' = [hw EXCEPT ![op.card].en = TRUE]
    /\ UNCHANGED <<Others, faults, failed>>

(* Then txBuffer and txQueue are new arrays that nothing is in yet. *)
ProbeIrq ==
    /\ At("irq")
    /\ \/ /\ dev' = [dev EXCEPT ![op.slot].irq = TRUE, ![op.slot].tx = "none"]
          /\ Go("tx") /\ UNCHANGED <<faults, failed>>
       \/ Refused /\ UNCHANGED dev
    /\ UNCHANGED <<Others, hw>>

ProbeTx ==
    /\ At("tx")
    /\ \/ dev' = [dev EXCEPT ![op.slot].tx = "full"] /\ Go("rx") /\ UNCHANGED <<faults, failed>>
       \/ Refused /\ UNCHANGED dev
    /\ UNCHANGED <<Others, hw>>

(* rxMaxFrame starts the receiver, rxBuffer and rxQueue are new arrays,    *)
(* buffers are allocated and posted.                                       *)
ProbeRx ==
    /\ \/ /\ At("rx") /\ Go("rxFill") /\ hw' = [hw EXCEPT ![op.card].run = TRUE]
          /\ dev' = [dev EXCEPT ![op.slot].rx = "none"] /\ UNCHANGED <<faults, failed>>
       \/ /\ At("rxFill") /\ Go("enable") /\ dev' = [dev EXCEPT ![op.slot].rx = "full"]
          /\ UNCHANGED <<hw, faults, failed>>
       \/ At("rxFill") /\ Refused /\ UNCHANGED <<hw, dev>>
    /\ UNCHANGED Others

(* Mutant: the open flag is cleared at the end, when nodes already exist. *)
ProbeEnable_Clear ==
    /\ At("enable") /\ op' = Idle
    /\ hw' = [hw EXCEPT ![op.card].en = TRUE]
    /\ bound' = bound \cup {<<op.card, op.slot>>}
    /\ dev' = [dev EXCEPT ![op.slot].isOpen = FALSE]
    /\ UNCHANGED <<module, region, isr, user, calls, faults, hist>>

ProbeEnable ==
    /\ At("enable") /\ op' = Idle
    /\ hw' = [hw EXCEPT ![op.card].en = TRUE]
    /\ bound' = bound \cup {<<op.card, op.slot>>}
    /\ UNCHANGED <<module, dev, region, isr, user, calls, faults, hist>>

Probe == (\E c \in Cards : ProbeFind(c)) \/ ProbeCdev \/ ProbeMap \/ ProbeRegion \/ ProbeIrq
         \/ ProbeTx \/ ProbeRx \/ ProbeEnable

-----------------------------------------------------------------------------
(* rmmod *)
PgpCard_Exit ==
    /\ module = "live" /\ At("idle") /\ \A u \in Users : user[u].at = "out"
    /\ module' = "going"
    /\ UNCHANGED <<dev, hw, region, bound, op, isr, user, calls, faults, hist>>

(* The first slot with the card's address; interrupts are disabled through *)
(* its register pointer, which is null if that slot belongs to a Probe     *)
(* that could not map the card.  If no slot has it, because the card is in *)
(* front of the array, Remove prints a message and undoes nothing.         *)
RemoveFind(c) ==
    /\ module = "going" /\ At("idle") /\ IsBound(c)
    /\ LET found == {t \in Slot : dev[t].base = c}
           s     == Min(found)
       IN  \/ /\ found = {}
              /\ bound' = {b \in bound : b[1] # c} /\ UNCHANGED <<op, hw, overrun>>
           \/ /\ found # {} /\ dev[s].reg
              /\ op' = [step |-> "free", card |-> c, slot |-> s]
              /\ hw' = [hw EXCEPT ![c].en = FALSE]
              /\ overrun' = IF hw[c].active \/ isr[s] \in {"work", "enable"}
                            THEN overrun \cup {c} ELSE overrun
              /\ UNCHANGED bound
           \/ /\ found # {} /\ ~dev[s].reg
              /\ op' = [step |-> "oops", card |-> c, slot |-> s]
              /\ UNCHANGED <<bound, hw, overrun>>
    /\ UNCHANGED <<module, dev, region, isr, user, calls, faults, failed, overflow, overlapped, dangling>>

(* rxMaxFrame = 0 empties the free lists; then all buffers are freed. *)
RemoveFree ==
    /\ At("free") /\ Go("reset")
    /\ hw' = [hw EXCEPT ![op.card].run = FALSE]
    /\ dev' = [dev EXCEPT ![op.slot].tx = "freed", ![op.slot].rx = "freed"]
    /\ UNCHANGED <<Others, faults, failed>>

(* Mutant: the registers are unmapped before the interrupt is released. *)
RemoveReset_Unmap ==
    /\ At("reset") /\ Go("irqFree")
    /\ hw' = [hw EXCEPT ![op.card].reset = TRUE, ![op.card].run = FALSE,
                        ![op.card].req = FALSE, ![op.card].sent = FALSE]
    /\ region' = region \ {op.card}
    /\ dev' = [dev EXCEPT ![op.slot].reg = FALSE]
    /\ UNCHANGED <<module, bound, isr, user, calls, faults, hist>>

(* The reset empties the descriptor engines; it does not clear the         *)
(* interrupt enable bit.                                                   *)
RemoveReset ==
    /\ At("reset") /\ Go("irqFree")
    /\ hw' = [hw EXCEPT ![op.card].reset = TRUE, ![op.card].run = FALSE,
                        ![op.card].req = FALSE, ![op.card].sent = FALSE]
    /\ region' = region \ {op.card}
    /\ UNCHANGED <<module, dev, bound, isr, user, calls, faults, hist>>

(* Mutant: the interrupt is not released. *)
RemoveIrq_Keep ==
    /\ At("irqFree") /\ Go("unmap") /\ isr[op.slot] = "idle"
    /\ UNCHANGED <<Others, dev, hw, faults, failed>>

(* free_irq waits for a handler that runs. *)
RemoveIrq ==
    /\ At("irqFree") /\ Go("unmap") /\ isr[op.slot] = "idle"
    /\ dev' = [dev EXCEPT ![op.slot].irq = FALSE]
    /\ UNCHANGED <<Others, hw, faults, failed>>

RemoveUnmap ==
    /\ At("unmap") /\ op' = Idle
    /\ dev' = [dev EXCEPT ![op.slot].reg = FALSE, ![op.slot].cdev = FALSE, ![op.slot].base = NoCard]
    /\ bound' = {b \in bound : b[1] # op.card}
    /\ UNCHANGED <<module, hw, region, isr, user, calls, faults, hist>>

Remove == (\E c \in Cards : RemoveFind(c)) \/ RemoveFree \/ RemoveReset \/ RemoveIrq \/ RemoveUnmap

(* The module goes away with its devices; what is still registered stays   *)
(* in the kernel and points to memory that is gone.                        *)
Unloaded ==
    /\ module = "going" /\ At("idle") /\ bound = {} /\ \A s \in Place : isr[s] = "idle"
    /\ module' = "out"
    /\ dangling' = dangling \cup Registered(Place)
    /\ dev' = [s \in Place |-> Cleared]
    /\ UNCHANGED <<hw, region, bound, op, isr, user, calls, faults, failed, overflow, overrun, overlapped>>

-----------------------------------------------------------------------------
(* The interrupt handler.  The cards share their line with other devices,  *)
(* so it is called at any time; the kernel runs one handler of a line after*)
(* the other.  A handler that finds a null register pointer goes no        *)
(* further.                                                                *)
IrqCall(s) ==
    /\ dev[s].irq /\ \A t \in Place : isr[t] = "idle"
    /\ isr' = [isr EXCEPT ![s] = "enter"]
    /\ UNCHANGED <<module, dev, hw, region, bound, op, user, calls, faults, hist>>

(* Is this card the source?  If it is, interrupts are disabled. *)
IrqStatus(s) ==
    /\ isr[s] = "enter" /\ dev[s].reg
    /\ LET c == dev[s].base
       IN  \/ hw[c].active /\ isr' = [isr EXCEPT ![s] = "work"] /\ hw' = [hw EXCEPT ![c].en = FALSE]
           \/ ~hw[c].active /\ isr' = [isr EXCEPT ![s] = "idle"] /\ UNCHANGED hw
    /\ UNCHANGED <<module, dev, region, bound, op, user, calls, faults, hist>>

(* Both done FIFOs are emptied, the buffers looked up and queued. *)
IrqWork(s) ==
    /\ isr[s] = "work" /\ dev[s].reg
    /\ isr' = [isr EXCEPT ![s] = "enable"]
    /\ hw' = [hw EXCEPT ![dev[s].base].req = FALSE]
    /\ UNCHANGED <<module, dev, region, bound, op, user, calls, faults, hist>>

IrqEnable(s) ==
    /\ isr[s] = "enable" /\ dev[s].reg
    /\ isr' = [isr EXCEPT ![s] = "idle"]
    /\ hw' = [hw EXCEPT ![dev[s].base].en = TRUE]
    /\ UNCHANGED <<module, dev, region, bound, op, user, calls, faults, hist>>

PgpCard_IRQHandler(s) == IrqCall(s) \/ IrqStatus(s) \/ IrqWork(s) \/ IrqEnable(s)

-----------------------------------------------------------------------------
(* The card: a frame arrives or a sent frame is done; the interrupt machine*)
(* raises the line and takes it back.                                      *)
Done(c) ==
    /\ ~hw[c].reset /\ ~hw[c].req
    /\ \/ hw[c].run /\ hw' = [hw EXCEPT ![c].req = TRUE]
       \/ hw[c].sent /\ hw' = [hw EXCEPT ![c].req = TRUE, ![c].sent = FALSE]
    /\ UNCHANGED <<module, dev, region, bound, op, isr, user, calls, faults, hist>>

Interrupt(c) ==
    /\ hw' = [hw EXCEPT ![c].active = hw[c].req /\ hw[c].en]
    /\ hw' # hw
    /\ UNCHANGED <<module, dev, region, bound, op, isr, user, calls, faults, hist>>

-----------------------------------------------------------------------------
(* open(): the test of isOpen and the assignment are two steps.  Nodes of  *)
(* an earlier load exist while the driver is loaded again.                 *)
OpenTest(u, s) ==
    /\ module = "live" /\ user[u].at = "out"
    /\ dev[s].cdev /\ ~dev[s].isOpen
    /\ user' = [user EXCEPT ![u] = [at |-> "tested", slot |-> s, ready |-> <<dev[s].base, s>> \in bound]]
    /\ overlapped' = IF \E v \in Users : user[v].at = "tested" /\ user[v].slot = s
                     THEN overlapped \cup {s} ELSE overlapped
    /\ UNCHANGED <<module, dev, hw, region, bound, op, isr, calls, faults, failed, overflow, overrun, dangling>>

OpenSet(u) ==
    /\ user[u].at = "tested"
    /\ user' = [user EXCEPT ![u].at = "open"]
    /\ dev' = [dev EXCEPT ![user[u].slot].isOpen = TRUE]
    /\ UNCHANGED <<module, hw, region, bound, op, isr, calls, faults, hist>>

PgpCard_Release(u) ==
    /\ user[u].at = "open"
    /\ user' = [user EXCEPT ![u] = Closed]
    /\ dev' = [dev EXCEPT ![user[u].slot].isOpen = FALSE]
    /\ overlapped' = IF \E v \in Users \ {u} : user[v].at # "out" /\ user[v].slot = user[u].slot
                     THEN overlapped ELSE overlapped \ {user[u].slot}
    /\ UNCHANGED <<module, hw, region, bound, op, isr, calls, faults, failed, overflow, overrun, dangling>>

(* A write, reduced to its effect on the card. *)
Send(u) ==
    LET d == dev[user[u].slot]
    IN  /\ user[u].at = "open" /\ d.tx = "full" /\ d.reg
        /\ ~hw[d.base].sent /\ hw' = [hw EXCEPT ![d.base].sent = TRUE]
        /\ UNCHANGED <<module, dev, region, bound, op, isr, user, calls, faults, hist>>

-----------------------------------------------------------------------------
Init ==
    /\ module = "out" /\ dev = [s \in Place |-> Cleared]
    /\ hw = [c \in Cards |-> [en |-> FALSE, run |-> FALSE, req |-> FALSE, sent |-> FALSE,
                              active |-> FALSE, reset |-> TRUE]]
    /\ region = {} /\ bound = {} /\ op = Idle
    /\ isr = [s \in Place |-> "idle"] /\ user = [u \in Users |-> Closed]
    /\ calls = MaxCalls /\ faults = MaxFaults
    /\ failed = {} /\ overflow = {} /\ overrun = {} /\ overlapped = {} /\ dangling = {}

Next == \/ PgpCard_Init \/ Probe \/ PgpCard_Exit \/ Remove \/ Unloaded
        \/ \E s \in Place : PgpCard_IRQHandler(s)
        \/ \E c \in Cards : Done(c) \/ Interrupt(c)
        \/ \E u \in Users : OpenSet(u) \/ PgpCard_Release(u) \/ Send(u) \/ \E s \in Place : OpenTest(u, s)

Spec == Init /\ [][Next]_vars

-----------------------------------------------------------------------------
(* The memory in front of the array holds a device whose Probe is under    *)
(* way, has failed, or was followed by a Remove that did not find it.      *)
Unowned(s) == s = Outside /\ <<dev[s].base, s>> \notin bound

(* The handler never accesses registers that are not mapped: request_irq   *)
(* comes after the mapping, and Remove waits for the handler in free_irq   *)
(* before it unmaps, even if the handler enabled the interrupt again.  Only*)
(* in front of the array can a card that fails take the place of one whose *)
(* handler is registered.                                                  *)
RegistersMapped ==
    \A s \in Place : isr[s] # "idle" => (dev[s].reg /\ dev[s].base # NoCard) \/ Unowned(s)

(* Nobody uses a queue that does not exist: neither a user who opened the  *)
(* device after Probe finished, nor the handler in Probe, in Remove or     *)
(* later, unless Remove ran, or another card took the place in front of    *)
(* the array, while an interrupt was pending or being handled.             *)
BuffersAlive ==
    LET alive(s) == (dev[s].tx = "full" /\ dev[s].rx = "full") \/ Unowned(s)
    IN  /\ \A s \in Place : isr[s] = "work" => alive(s) \/ dev[s].base \in overrun
        /\ \A u \in Users : user[u].at # "out" /\ user[u].ready => alive(user[u].slot)

(* Unloading leaves nothing behind and succeeds, except for cards for      *)
(* which a Probe failed or found no slot: handler, device node and memory  *)
(* region of such a card outlive the module.                               *)
CleanUnload ==
    /\ module = "out" => (dangling \cup region) \subseteq (failed \cup overflow)
    /\ At("oops") => op.card \in failed

(* The device has one user, and isOpen tells whether it has one (the       *)
(* handler drops frames if not), unless two users opened it in the same    *)
(* moment or a Probe took the place of an open device.                     *)
OneUser ==
    \A s \in Place \ overlapped :
        LET files == {u \in Users : user[u].at = "open" /\ user[u].slot = s}
        IN  Cardinality(files) <= 1 /\ (dev[s].isOpen <=> files # {})

(* Probe says "Too Many Devices" and refuses a card that it has no slot    *)
(* for: each card that it accepts has a slot of the array.                 *)
SlotInArray == \A b \in bound : b[2] \in Slot
=============================================================================
