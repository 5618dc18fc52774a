------------------------- MODULE PgpCardLifeProofs -------------------------
(***************************************************************************)
(* Loading and unloading for any number of cards, slots and users, any     *)
(* number of loads and failing kernel calls: the handler finds its         *)
(* registers mapped, nobody uses a queue that does not exist, unloading    *)
(* leaves nothing behind for a card whose Probe never failed and always    *)
(* found a slot, and isOpen means one user.                                *)
(*                                                                         *)
(* The properties lean on each other through the slot.  Remove looks for   *)
(* the first slot with the card's address, and a Probe that failed leaves  *)
(* its address behind, so that Remove may find another slot than the one   *)
(* the card is bound to.  That it never frees the buffers of the wrong one *)
(* comes from the memory region: a second slot with mapped registers would *)
(* hold the region, and Probe would not have got it again.                 *)
(*                                                                         *)
(* A device in front of the array can be taken over while it is in use.    *)
(* That it does no harm to the slots comes from the region again: a card   *)
(* that Remove did not find keeps its region, so no later Probe of that    *)
(* card gets as far as registering a handler.                              *)
(***************************************************************************)
EXTENDS PgpCardLife, WellFoundedInduction, FiniteSetTheorems, TLAPS

(* Probe works on a slot it has found empty; Remove on the slot of a card  *)
(* that is bound.                                                          *)
Probing  == op.step \in {"cdev", "map", "region", "irq", "tx", "rx", "rxFill", "enable"}
Removing == op.step \in {"free", "reset", "irqFree", "unmap"}

Owning   == op.step \in {"irq", "tx", "rx", "rxFill", "enable"}

Dev  == [base : Cards \cup {NoCard}, reg : BOOLEAN, cdev : BOOLEAN, isOpen : BOOLEAN,
         tx : {"none", "full", "freed"}, rx : {"none", "full", "freed"}, irq : BOOLEAN]
Hw   == [en : BOOLEAN, run : BOOLEAN, req : BOOLEAN, sent : BOOLEAN, active : BOOLEAN, reset : BOOLEAN]
Op   == [step : {"idle", "oops", "cdev", "map", "region", "irq", "tx", "rx", "rxFill", "enable",
                 "free", "reset", "irqFree", "unmap"},
         card : Cards \cup {NoCard}, slot : Place]
User == [at : {"out", "tested", "open"}, slot : Place, ready : BOOLEAN]

LifeTypeOK ==
    /\ module \in {"out", "live", "going"}
    /\ dev \in [Place -> Dev] /\ hw \in [Cards -> Hw] /\ op \in Op
    /\ region \subseteq Cards /\ bound \subseteq Cards \X Place
    /\ isr \in [Place -> {"idle", "enter", "work", "enable"}]
    /\ user \in [Users -> User]

Alive(s) == dev[s].tx = "full" /\ dev[s].rx = "full"

(* What each step of Probe and Remove has established. *)
ProbeOK ==
    /\ Probing => module = "live" /\ op.card \in Cards /\ ~IsBound(op.card)
    /\ Probing /\ op.slot = Outside => op.card \in overflow
    /\ op.step \in {"cdev", "map"} /\ op.slot \in Slot => dev[op.slot].base = NoCard
    /\ Probing /\ op.step \notin {"cdev", "map"} => dev[op.slot].base = op.card /\ dev[op.slot].reg
    /\ Owning => op.card \in region /\ \A t \in Slot : dev[t].base = op.card /\ dev[t].reg => t = op.slot
    /\ op.step \in {"rx", "rxFill", "enable"} => dev[op.slot].tx = "full"
    /\ op.step = "enable" => dev[op.slot].rx = "full"
RemoveOK ==
    /\ Removing => /\ module = "going" /\ op.card \in Cards /\ op.slot \in Slot
                   /\ <<op.card, op.slot>> \in bound
    /\ op.step \in {"irqFree", "unmap"} => op.card \notin region
    /\ op.step = "unmap" => ~dev[op.slot].irq
    /\ op.step = "oops" => module = "going" /\ op.card \in failed

(* What is registered for a slot: an interrupt only with registers, and    *)
(* nothing without a card, except for the node of a Probe that is about to *)
(* map the card; and why a card is there.                                  *)
SlotOK(s) ==
    /\ dev[s].irq => dev[s].reg
    /\ dev[s].reg \/ dev[s].cdev => dev[s].base # NoCard \/ (op.step = "map" /\ op.slot = s /\ ~dev[s].reg)
    /\ isr[s] # "idle" => dev[s].irq
    /\ module = "out" => dev[s] = Cleared
    /\ dev[s].base # NoCard => \/ dev[s].base \in failed \/ <<dev[s].base, s>> \in bound
                               \/ Probing /\ op.card = dev[s].base /\ op.slot = s

(* The same in front of the array, where a device of which anything is     *)
(* registered may be taken over, but is complete while its card is bound.  *)
OutsideOK ==
    /\ dev[Outside].irq => dev[Outside].base # NoCard
    /\ dev[Outside].reg \/ dev[Outside].cdev =>
          dev[Outside].base # NoCard \/ (op.step = "map" /\ op.slot = Outside)
    /\ isr[Outside] # "idle" => dev[Outside].irq
    /\ module = "out" => dev[Outside] = Cleared
    /\ dev[Outside].base # NoCard => dev[Outside].base \in overflow
    /\ <<dev[Outside].base, Outside>> \in bound => dev[Outside].reg /\ Alive(Outside)

(* A bound card has one slot, no other slot has its registers, and its     *)
(* buffers exist until Remove frees them.                                  *)
BoundOK(c, s) ==
    <<c, s>> \in bound =>
        /\ module # "out" /\ dev[s].base = c /\ dev[s].reg
        /\ \A t \in Slot : dev[t].base = c /\ dev[t].reg => t = s
        /\ (Removing /\ op.card = c) \/ Alive(s)

(* A card that is bound in front of the array has its registers in no slot.*)
FrontOK(c) ==
    <<c, Outside>> \in bound =>
        /\ module # "out" /\ c \in overflow /\ c \in region
        /\ \A t \in Slot : dev[t].base = c => ~dev[t].reg

(* While the driver is loaded, a device is in front of the array only when *)
(* no slot is empty; so it is not the device of a card that has a slot.    *)
FullOK ==
    /\ module = "live" /\ (dev[Outside].base # NoCard \/ (Probing /\ op.slot = Outside)) =>
          \A s \in Slot : dev[s].base # NoCard
    /\ Probing /\ op.slot \in Slot => dev[Outside].base = NoCard
    /\ \A c \in Cards, s \in Slot : <<c, s>> \in bound => dev[Outside].base # c

(* The memory region of a card is held while its registers are mapped.     *)
RegionOK(s) ==
    dev[s].reg => dev[s].base \in region \/ (op.step \in {"region", "irqFree", "unmap"} /\ op.slot = s)
HeldOK(c) ==
    c \in region => c \in failed \/ c \in overflow \/ IsBound(c) \/ (Probing /\ op.card = c)

(* A card that was not removed with an interrupt under way can interrupt,  *)
(* and its handler go on, only while it is bound and not being removed;    *)
(* or when Remove did not find it, but then no slot has a handler for it.  *)
Serving(c)  == c \in overrun \/ (IsBound(c) /\ ~(Removing /\ op.card = c))
Stray(c)    == /\ c \in region /\ ~IsBound(c) /\ ~(Owning /\ op.card = c)
               /\ \A t \in Slot : dev[t].irq => dev[t].base # c
RaiseOK(c)  == hw[c].en \/ hw[c].active => Serving(c) \/ Stray(c)
Served(s)   == Serving(dev[s].base) \/ (s = Outside /\ Stray(dev[s].base))
HandleOK(s) == isr[s] \in {"work", "enable"} => Served(s)

UserOK(u) ==
    user[u].at # "out" =>
        /\ module = "live" /\ dev[user[u].slot].cdev
        /\ user[u].ready /\ user[u].slot \in Slot => <<dev[user[u].slot].base, user[u].slot>> \in bound

(* A slot that was not opened twice at a time has one user at most, and    *)
(* isOpen tells whether he has it open.                                    *)
Using(u, s) == user[u].at # "out" /\ user[u].slot = s
OpenOK(s) ==
    s \notin overlapped =>
        /\ \A u, v \in Users : Using(u, s) /\ Using(v, s) => u = v
        /\ dev[s].isOpen <=> \E u \in Users : user[u].at = "open" /\ user[u].slot = s

CardInv == /\ \A c \in Cards : HeldOK(c) /\ RaiseOK(c) /\ FrontOK(c)
           /\ \A c \in Cards, s \in Slot : BoundOK(c, s)
SlotInv == /\ \A s \in Slot : SlotOK(s) /\ RegionOK(s)
           /\ \A s \in Place : HandleOK(s)
           /\ OutsideOK
OpenInv == (\A u \in Users : UserOK(u)) /\ (\A s \in Place : OpenOK(s))
LifeInv == /\ LifeTypeOK /\ ProbeOK /\ RemoveOK /\ CardInv /\ SlotInv /\ OpenInv /\ FullOK
           /\ dangling \subseteq (failed \cup overflow)

USE LifeAssumption

-----------------------------------------------------------------------------
(* A set of slots that is not empty has a first one. *)
LEMMA MinSlot ==
    ASSUME NEW S \in SUBSET Slot, S # {}
    PROVE  Min(S) \in S
<1>1. \A t \in S : t \in Nat
  BY DEF Slot
<1>2. PICK m \in S : \A t \in S : ~(<<t, m>> \in OpToRel(<, Nat))
  BY <1>1, NatLessThanWellFounded, WFMin, Zenon
<1>3. ASSUME NEW t \in S PROVE m <= t
  <2>1. ~(t < m)
    <3>1. <<t, m>> \in Nat \X Nat
      BY <1>1
    <3> QED BY <3>1, <1>2, Zenon DEF OpToRel
  <2> QED BY <2>1, <1>1
<1> QED BY <1>3, Zenon DEF Min

(* Changing fields of one slot, or of one card's registers, leaves the     *)
(* others and the remaining fields.                                        *)
LEMMA PutDev ==
    ASSUME dev \in [Place -> Dev], NEW s \in Place, NEW r \in Dev, dev' = [dev EXCEPT ![s] = r]
    PROVE  dev' \in [Place -> Dev] /\ dev'[s] = r /\ \A t \in Place \ {s} : dev'[t] = dev[t]
OBVIOUS

(* Assignments to fields of a slot keep its type. *)
LEMMA DevFields ==
    ASSUME NEW r \in Dev
    PROVE  /\ [r EXCEPT !.cdev = TRUE] \in Dev /\ [r EXCEPT !.irq = FALSE] \in Dev
           /\ [r EXCEPT !.irq = TRUE, !.tx = "none"] \in Dev /\ [r EXCEPT !.rx = "none"] \in Dev
           /\ [r EXCEPT !.tx = "full"] \in Dev /\ [r EXCEPT !.rx = "full"] \in Dev
           /\ [r EXCEPT !.tx = "freed", !.rx = "freed"] \in Dev
BY DEF Dev

(* A change of a card's completions leaves its enable bits alone. *)
LEMMA PutHw ==
    ASSUME hw \in [Cards -> Hw], NEW c \in Cards, NEW r \in Hw, hw' = [hw EXCEPT ![c] = r],
           r.en = hw[c].en, r.active = hw[c].active
    PROVE  hw' \in [Cards -> Hw] /\ \A d \in Cards : hw'[d].en = hw[d].en /\ hw'[d].active = hw[d].active
OBVIOUS

(* Users keep what they have if nodes and bound slots stay. *)
LEMMA UsersKept ==
    ASSUME LifeTypeOK, OpenInv, UNCHANGED <<module, user, overlapped>>, bound \subseteq bound',
           \A s \in Place : /\ dev[s].cdev => dev'[s].cdev
                            /\ dev'[s].isOpen = dev[s].isOpen,
           \A s \in Slot : <<dev[s].base, s>> \in bound => dev'[s].base = dev[s].base
    PROVE  OpenInv'
<1>1. ASSUME NEW u \in Users PROVE UserOK(u)'
  <2>1. user[u].slot \in Place
    BY DEF LifeTypeOK, User
  <2> QED BY <2>1 DEF OpenInv, UserOK
<1>2. ASSUME NEW s \in Place PROVE OpenOK(s)'
  BY DEF OpenInv, OpenOK, Using
<1> QED BY <1>1, <1>2 DEF OpenInv

(* A card that nobody serves stays so: only its Probe could register a     *)
(* handler for it or bind it, and does not get there while the region is   *)
(* held.                                                                   *)
LEMMA StrayKept ==
    ASSUME NEW c \in Cards, Stray(c), region \subseteq region',
           bound' \subseteq bound \/ (Owning /\ bound' \subseteq bound \cup {<<op.card, op.slot>>}),
           Owning' => op'.card # c \/ c \notin region \/ (Owning /\ op.card = c),
           \A t \in Slot : \/ dev'[t].irq => dev[t].irq /\ dev'[t].base = dev[t].base
                           \/ Owning /\ dev'[t].base = op.card
    PROVE  Stray(c)'
BY DEF Stray, IsBound

(* What every step of Probe leaves alone. *)
ProbeEffect ==
    /\ \A s \in Place \ {op.slot} : dev'[s] = dev[s]
    /\ dev'[op.slot].isOpen = dev[op.slot].isOpen
    /\ dev[op.slot].cdev => dev'[op.slot].cdev
    /\ dev'[op.slot].irq => dev[op.slot].irq \/ Owning
    /\ \/ dev'[op.slot].base = dev[op.slot].base
       \/ /\ dev'[op.slot].base = op.card
          /\ op.slot \in Slot => dev[op.slot].base = NoCard /\ ~dev[op.slot].irq
          /\ isr[op.slot] \in {"work", "enable"} => op.card \in overrun'
    /\ \A c \in Cards : hw'[c].en = hw[c].en /\ hw'[c].active = hw[c].active
    /\ region \subseteq region' /\ region' \subseteq region \cup {op.card}
    /\ Owning' => Owning \/ op.card \notin region
    /\ overrun \subseteq overrun'
    /\ UNCHANGED <<module, bound, isr, user, overflow, overlapped, dangling>>
    /\ \/ op'.card = op.card /\ op'.slot = op.slot /\ Probing' /\ failed' = failed
       \/ op'.step = "idle" /\ failed' = failed \cup {op.card}

(* A step of Probe that changes its own slot only keeps LifeInv when that *)
(* slot stays in order.                                                   *)
LEMMA ProbeFrame ==
    ASSUME LifeInv, Probing, ProbeEffect, LifeTypeOK', ProbeOK',
           \A s \in Slot : s = op.slot => SlotOK(s)' /\ RegionOK(s)',
           op.slot = Outside => OutsideOK'
    PROVE  LifeInv'
<1>1. /\ op.slot \in Place /\ op.card \in Cards /\ op.card # NoCard /\ ~IsBound(op.card) /\ module = "live"
      /\ LifeTypeOK /\ ProbeOK /\ SlotInv /\ CardInv /\ OpenInv
  BY DEF LifeInv, LifeTypeOK, ProbeOK, Op
<1>2. ~Removing /\ ~Removing' /\ op'.step # "oops"
  BY DEF Probing, Removing, ProbeEffect
<1>3. RemoveOK'
  BY <1>2 DEF RemoveOK, ProbeEffect, Removing, Probing
<1>a. \A s \in Slot : s \in Place /\ s # Outside
  BY DEF Place, Slot, Outside
<1>b. op.slot \in Slot => dev[op.slot].base \in {NoCard, op.card}
  BY <1>1 DEF ProbeOK, Probing
<1>4. OpenInv'
  <2>1. ASSUME NEW s \in Place
        PROVE  /\ dev[s].cdev => dev'[s].cdev
               /\ dev'[s].isOpen = dev[s].isOpen
    BY <1>1 DEF ProbeEffect
  <2>2. ASSUME NEW s \in Slot, <<dev[s].base, s>> \in bound PROVE dev'[s].base = dev[s].base
    <3>1. CASE s # op.slot
      BY <1>a, <3>1 DEF ProbeEffect
    <3>2. CASE s = op.slot
      <4>1. dev[s].base \in Cards
        BY <1>1, <2>2 DEF LifeTypeOK
      <4> QED BY <1>1, <3>2, <4>1 DEF ProbeEffect
    <3> QED BY <3>1, <3>2
  <2> QED BY <1>1, <2>1, <2>2, UsersKept DEF ProbeEffect
<1>5. ASSUME NEW s \in Slot PROVE SlotOK(s)' /\ RegionOK(s)'
  <2>1. s # op.slot => SlotOK(s)'
    BY <1>1, <1>a DEF SlotInv, SlotOK, ProbeEffect
  <2>2. s # op.slot => RegionOK(s)'
    BY <1>1, <1>a DEF SlotInv, RegionOK, ProbeEffect
  <2> QED BY <2>1, <2>2
<1>c. OutsideOK'
  <2>1. CASE op.slot # Outside
    <3>1. Outside \in Place /\ dev'[Outside] = dev[Outside]
      BY <2>1 DEF Place, ProbeEffect
    <3> QED BY <1>1, <2>1, <3>1 DEF SlotInv, OutsideOK, ProbeEffect, Alive
  <2> QED BY <2>1
<1>d. ASSUME NEW c \in Cards, Stray(c) PROVE Stray(c)'
  <2>1. Owning' => op'.card # c \/ c \notin region \/ (Owning /\ op.card = c)
    BY <1>2 DEF ProbeEffect, Owning
  <2>2. ASSUME NEW t \in Slot PROVE \/ dev'[t].irq => dev[t].irq /\ dev'[t].base = dev[t].base
                                    \/ Owning /\ dev'[t].base = op.card
    <3>1. CASE t # op.slot
      BY <1>a, <3>1 DEF ProbeEffect
    <3>2. CASE t = op.slot
      <4>1. Owning => dev[op.slot].base = op.card
        BY <1>1 DEF ProbeOK, Owning
      <4> QED BY <3>2, <4>1 DEF ProbeEffect
    <3> QED BY <3>1, <3>2
  <2> QED BY <1>d, <2>1, <2>2, StrayKept DEF ProbeEffect
<1>e. ASSUME NEW c, Serving(c) PROVE Serving(c)'
  BY <1>e, <1>2 DEF ProbeEffect, Serving, IsBound
<1>6. ASSUME NEW s \in Place PROVE HandleOK(s)'
  <2> SUFFICES ASSUME isr[s] \in {"work", "enable"} PROVE Served(s)'
    BY DEF HandleOK, ProbeEffect
  <2>1. Served(s)
    BY <1>1 DEF SlotInv, HandleOK
  <2>2. dev[s].irq /\ dev[s].base \in Cards
    <3>1. dev[s].base \in Cards \cup {NoCard}
      BY <1>1 DEF LifeTypeOK, Dev
    <3>2. CASE s \in Slot
      BY <1>1, <3>1, <3>2 DEF SlotInv, SlotOK
    <3>3. CASE s = Outside
      BY <1>1, <3>1, <3>3 DEF SlotInv, OutsideOK
    <3> QED BY <3>2, <3>3 DEF Place
  <2>3. CASE dev'[s].base = dev[s].base
    BY <1>d, <1>e, <2>1, <2>2, <2>3 DEF Served
  <2>4. CASE dev'[s].base # dev[s].base
    <3>1. s = op.slot /\ dev'[s].base = op.card /\ (s \in Slot => ~dev[s].irq)
      BY <2>4 DEF ProbeEffect
    <3>2. op.card \in overrun'
      BY <2>2, <2>4, <3>1 DEF ProbeEffect
    <3> QED BY <3>1, <3>2 DEF Served, Serving
  <2> QED BY <2>3, <2>4
<1>7. ASSUME NEW c \in Cards PROVE HeldOK(c)' /\ RaiseOK(c)' /\ FrontOK(c)'
  <2>1. HeldOK(c) /\ RaiseOK(c) /\ FrontOK(c)
    BY <1>1 DEF CardInv
  <2>2. HeldOK(c)'
    BY <1>1, <1>2, <2>1 DEF HeldOK, ProbeEffect, IsBound
  <2>3. RaiseOK(c)'
    BY <1>d, <1>e, <2>1 DEF RaiseOK, ProbeEffect
  <2>4. FrontOK(c)'
    <3> SUFFICES ASSUME <<c, Outside>> \in bound PROVE FrontOK(c)'
      BY DEF FrontOK, ProbeEffect
    <3>1. c # op.card /\ c # NoCard
      BY <1>1 DEF IsBound, Place, LifeTypeOK
    <3>2. ASSUME NEW t \in Slot, dev'[t].base = c PROVE dev[t].base = c /\ ~dev'[t].reg
      <4>1. t # op.slot
        BY <1>1, <1>b, <3>1, <3>2 DEF ProbeEffect
      <4> QED BY <1>a, <2>1, <3>2, <4>1 DEF ProbeEffect, FrontOK
    <3> QED BY <2>1, <3>2 DEF FrontOK, ProbeEffect
  <2> QED BY <2>2, <2>3, <2>4
<1>8. ASSUME NEW c \in Cards, NEW s \in Slot PROVE BoundOK(c, s)'
  <2> SUFFICES ASSUME <<c, s>> \in bound PROVE BoundOK(c, s)'
    BY DEF BoundOK, ProbeEffect
  <2>1. BoundOK(c, s) /\ c # op.card /\ c # NoCard
    BY <1>1, <1>a DEF CardInv, IsBound
  <2>2. s # op.slot
    BY <1>b, <2>1 DEF BoundOK
  <2>3. \A t \in Slot : dev'[t].base = c => t # op.slot /\ dev'[t] = dev[t]
    BY <1>1, <1>a, <1>b, <2>1 DEF ProbeEffect
  <2> QED BY <1>1, <1>2, <1>a, <2>1, <2>2, <2>3 DEF BoundOK, Alive, ProbeEffect
<1>9. dangling' \subseteq (failed' \cup overflow')
  BY DEF LifeInv, ProbeEffect
<1>f. FullOK'
  <2>1. FullOK /\ Outside \in Place /\ Outside \notin Slot
    BY <1>a DEF LifeInv, Place
  <2>2. \A s \in Slot : dev[s].base # NoCard => dev'[s].base # NoCard
    BY <1>1, <1>a DEF ProbeEffect
  <2>3. op.slot # Outside => dev'[Outside] = dev[Outside]
    BY <2>1 DEF ProbeEffect
  <2>4. \A c \in Cards, s \in Slot : <<c, s>> \in bound => c # op.card
    BY <1>1, <1>a DEF IsBound
  <2>5. Probing' => op'.slot = op.slot
    BY DEF ProbeEffect, Probing
  <2>6. module' = "live" => module = "live"
    BY DEF ProbeEffect
  <2>7. (module = "live" /\ (dev'[Outside].base # NoCard \/ (Probing' /\ op'.slot = Outside))) =>
           \A s \in Slot : dev'[s].base # NoCard
    BY <2>1, <2>2, <2>3, <2>5 DEF FullOK
  <2>8. Probing' /\ op'.slot \in Slot => dev'[Outside].base = NoCard
    BY <2>1, <2>3, <2>5 DEF FullOK
  <2>9. ASSUME NEW c \in Cards, NEW s \in Slot, <<c, s>> \in bound PROVE dev'[Outside].base # c
    BY <2>1, <2>3, <2>4, <2>9 DEF FullOK, ProbeEffect
  <2>10. bound' = bound
    BY DEF ProbeEffect
  <2> QED BY <2>6, <2>7, <2>8, <2>9, <2>10 DEF FullOK
<1> QED BY <1>3, <1>4, <1>5, <1>6, <1>7, <1>8, <1>9, <1>c, <1>f DEF LifeInv, SlotInv, CardInv

(* What a step of Probe knows when it starts. *)
LEMMA ProbeFacts ==
    ASSUME LifeInv, Probing
    PROVE  /\ dev \in [Place -> Dev] /\ hw \in [Cards -> Hw] /\ op \in Op
           /\ op.slot \in Place /\ op.card \in Cards /\ module = "live"
           /\ op.card # NoCard /\ ProbeOK /\ ~IsBound(op.card) /\ OutsideOK
           /\ op.slot = Outside => op.card \in overflow /\ <<op.card, Outside>> \notin bound
           /\ \A s \in Slot : SlotOK(s) /\ RegionOK(s) /\ s \in Place /\ s # Outside
<1>1. /\ dev \in [Place -> Dev] /\ hw \in [Cards -> Hw] /\ op \in Op
      /\ op.slot \in Place /\ op.card \in Cards /\ module = "live"
      /\ op.card # NoCard /\ ProbeOK /\ ~IsBound(op.card) /\ OutsideOK
      /\ \A s \in Slot : SlotOK(s) /\ RegionOK(s)
  BY DEF LifeInv, LifeTypeOK, ProbeOK, Op, SlotInv
<1>2. \A s \in Slot : s \in Place /\ s # Outside
  BY DEF Slot, Place, Outside
<1>3. op.slot = Outside => op.card \in overflow /\ <<op.card, Outside>> \notin bound
  BY <1>1 DEF ProbeOK, IsBound, Place
<1> QED BY <1>1, <1>2, <1>3

(* Probe registers the character device, *)
LEMMA ProbeCdevStep == ASSUME LifeInv, ProbeCdev PROVE LifeInv'
<1>0. Probing /\ op.step = "cdev"
  BY DEF ProbeCdev, At, Probing
<1>1. \/ dev' = [dev EXCEPT ![op.slot].cdev = TRUE]
      \/ dev' = dev
  BY DEF ProbeCdev
<1>2. op' = [op EXCEPT !.step = "map"] /\ UNCHANGED <<Others, hw, failed>>
  BY DEF ProbeCdev, Go
<1>3. op' \in Op /\ op'.step = "map" /\ op'.card = op.card /\ op'.slot = op.slot
  BY <1>0, <1>2, ProbeFacts DEF Op
<1>4. /\ dev' \in [Place -> Dev] /\ \A s \in Place \ {op.slot} : dev'[s] = dev[s]
      /\ dev'[op.slot].base = dev[op.slot].base /\ dev'[op.slot].reg = dev[op.slot].reg
      /\ dev'[op.slot].isOpen = dev[op.slot].isOpen /\ dev'[op.slot].irq = dev[op.slot].irq
      /\ dev'[op.slot].tx = dev[op.slot].tx /\ dev'[op.slot].rx = dev[op.slot].rx
      /\ dev[op.slot].cdev => dev'[op.slot].cdev
  <2>1. CASE dev' = [dev EXCEPT ![op.slot].cdev = TRUE]
    <3> DEFINE new == [dev[op.slot] EXCEPT !.cdev = TRUE]
    <3>1. dev \in [Place -> Dev] /\ op.slot \in Place
      BY <1>0, ProbeFacts
    <3>2. dev' = [dev EXCEPT ![op.slot] = new]
      BY <2>1
    <3>3. dev[op.slot] \in Dev /\ new \in Dev
      <4>1. dev[op.slot] \in Dev
        BY <3>1
      <4> QED BY <4>1, DevFields
    <3>4. dev' \in [Place -> Dev] /\ dev'[op.slot] = new /\ \A s \in Place \ {op.slot} : dev'[s] = dev[s]
      BY <3>1, <3>2, <3>3
    <3> QED BY <3>3, <3>4 DEF Dev
  <2>2. CASE dev' = dev
    BY <1>0, <2>2, ProbeFacts
  <2> QED BY <1>1, <2>1, <2>2
<1>5. ProbeEffect
  BY <1>0, <1>2, <1>3, <1>4 DEF ProbeEffect, Others, Probing, Owning
<1>6. LifeTypeOK'
  BY <1>2, <1>3, <1>4 DEF LifeInv, LifeTypeOK, Others
<1>7. ProbeOK'
  <2>1. ~IsBound(op.card)'
    <3>1. ~IsBound(op.card) /\ bound' = bound /\ op'.card = op.card
      BY <1>0, <1>2, <1>3, ProbeFacts DEF ProbeOK, Others
    <3> QED BY <3>1 DEF IsBound
  <2>2. /\ op'.slot \in Slot => dev'[op'.slot].base = NoCard
        /\ module' = "live" /\ op'.card \in Cards /\ (op'.slot = Outside => op'.card \in overflow')
    BY <1>0, <1>2, <1>3, <1>4, ProbeFacts DEF ProbeOK, Others
  <2> QED BY <1>3, <2>1, <2>2 DEF ProbeOK, Probing, Owning
<1>8. ASSUME NEW s \in Slot, s = op.slot PROVE SlotOK(s)' /\ RegionOK(s)'
  BY <1>0, <1>2, <1>3, <1>4, <1>8, ProbeFacts DEF ProbeOK, SlotOK, RegionOK, Others
<1>9. ASSUME op.slot = Outside PROVE OutsideOK'
  BY <1>0, <1>2, <1>3, <1>4, <1>9, ProbeFacts DEF OutsideOK, Others, Alive
<1> QED BY <1>0, <1>5, <1>6, <1>7, <1>8, <1>9, ProbeFrame

(* maps the registers, *)
LEMMA ProbeMapStep == ASSUME LifeInv, ProbeMap PROVE LifeInv'
<1>0. /\ Probing /\ op.step = "map"
      /\ op.slot \in Slot => dev[op.slot].base = NoCard /\ ~dev[op.slot].reg /\ ~dev[op.slot].irq
  BY ProbeFacts DEF ProbeMap, At, Probing, ProbeOK, SlotOK
<1>1. /\ \A s \in Place \ {op.slot} : dev'[s] = dev[s]
      /\ dev' \in [Place -> Dev] /\ dev'[op.slot].base = op.card
      /\ dev'[op.slot].irq = dev[op.slot].irq /\ dev'[op.slot].cdev = dev[op.slot].cdev
      /\ dev'[op.slot].isOpen = dev[op.slot].isOpen
      /\ dev'[op.slot].tx = dev[op.slot].tx /\ dev'[op.slot].rx = dev[op.slot].rx
  BY <1>0, ProbeFacts DEF ProbeMap, Dev
<1>2. op' \in Op
  BY <1>0, ProbeFacts DEF ProbeMap, Refused, Go, Idle, Op, Slot, Place
<1>3. \/ /\ op'.step = "region" /\ op'.slot = op.slot /\ op'.card = op.card /\ failed' = failed
         /\ dev'[op.slot].reg = TRUE
      \/ op'.step = "idle" /\ failed' = failed \cup {op.card} /\ dev'[op.slot].reg = FALSE
  <2>1. CASE /\ dev' = [dev EXCEPT ![op.slot].base = op.card, ![op.slot].reg = TRUE]
             /\ Go("region") /\ UNCHANGED failed
    BY <1>0, <2>1, ProbeFacts DEF Dev, Go, Op
  <2>2. CASE dev' = [dev EXCEPT ![op.slot].base = op.card, ![op.slot].reg = FALSE] /\ Refused
    BY <1>0, <2>2, ProbeFacts DEF Dev, Refused, Idle
  <2> QED BY <2>1, <2>2 DEF ProbeMap
<1>4. /\ UNCHANGED <<module, region, bound, isr, user, overflow, overlapped, dangling, hw>>
      /\ overrun' = IF isr[op.slot] \in {"work", "enable"} THEN overrun \cup {op.card} ELSE overrun
  BY DEF ProbeMap
<1>5. ProbeEffect
  BY <1>0, <1>1, <1>3, <1>4 DEF ProbeEffect, Probing, Owning
<1>6. LifeTypeOK'
  BY <1>1, <1>2, <1>4 DEF LifeInv, LifeTypeOK
<1>7. ProbeOK'
  BY <1>0, <1>1, <1>3, <1>4, ProbeFacts DEF ProbeOK, Probing, IsBound, Owning
<1>8. ASSUME NEW s \in Slot, s = op.slot PROVE SlotOK(s)' /\ RegionOK(s)'
  <2>1. SlotOK(s)'
    BY <1>0, <1>1, <1>3, <1>4, <1>8, ProbeFacts DEF SlotOK, Probing
  <2>2. RegionOK(s)'
    BY <1>0, <1>1, <1>3, <1>4, <1>8, ProbeFacts DEF RegionOK
  <2> QED BY <2>1, <2>2
<1>9. ASSUME op.slot = Outside PROVE OutsideOK'
  BY <1>0, <1>1, <1>3, <1>4, <1>9, ProbeFacts DEF OutsideOK
<1> QED BY <1>0, <1>5, <1>6, <1>7, <1>8, <1>9, ProbeFrame

(* takes the memory region, *)
LEMMA ProbeRegionStep == ASSUME LifeInv, ProbeRegion PROVE LifeInv'
<1>0. Probing /\ op.step = "region" /\ dev[op.slot].base = op.card /\ dev[op.slot].reg
  BY ProbeFacts DEF ProbeRegion, At, Probing, ProbeOK
<1>1. op' \in Op
  BY <1>0, ProbeFacts DEF ProbeRegion, Go, Idle, Op, Slot, Place
<1>2. \/ /\ op'.step = "irq" /\ op'.slot = op.slot /\ op'.card = op.card /\ failed' = failed
         /\ op.card \notin region /\ region' = region \cup {op.card}
         /\ hw' = [hw EXCEPT ![op.card].reset = FALSE]
      \/ /\ op'.step = "idle" /\ failed' = failed \cup {op.card} /\ op.card \in region
         /\ UNCHANGED <<hw, region>>
  BY <1>0, ProbeFacts DEF ProbeRegion, Go, Idle, Op
<1>3. UNCHANGED <<module, dev, bound, isr, user, overflow, overrun, overlapped, dangling>>
  BY DEF ProbeRegion
<1>4. hw' \in [Cards -> Hw] /\ \A c \in Cards : hw'[c].en = hw[c].en /\ hw'[c].active = hw[c].active
  <2>1. CASE hw' = [hw EXCEPT ![op.card].reset = FALSE]
    <3> DEFINE new == [hw[op.card] EXCEPT !.reset = FALSE]
    <3>1. hw \in [Cards -> Hw] /\ op.card \in Cards
      BY <1>0, ProbeFacts
    <3>2. hw' = [hw EXCEPT ![op.card] = new]
      BY <2>1
    <3>3. hw[op.card] \in Hw /\ new \in Hw /\ new.en = hw[op.card].en /\ new.active = hw[op.card].active
      BY <3>1 DEF Hw
    <3> QED BY <3>1, <3>2, <3>3, PutHw
  <2>2. CASE hw' = hw
    BY <1>0, <2>2, ProbeFacts
  <2> QED BY <1>2, <2>1, <2>2
<1>5. ProbeEffect
  BY <1>0, <1>2, <1>3, <1>4 DEF ProbeEffect, Probing, Owning
<1>6. LifeTypeOK'
  BY <1>0, <1>1, <1>2, <1>3, <1>4, ProbeFacts DEF LifeInv, LifeTypeOK
<1>7. ProbeOK'
  <2>1. ASSUME NEW t \in Slot, op.card \notin region, dev[t].base = op.card, dev[t].reg PROVE t = op.slot
    BY <1>0, <2>1, ProbeFacts DEF RegionOK
  <2> QED BY <1>0, <1>2, <1>3, <2>1, ProbeFacts DEF ProbeOK, Probing, IsBound, Owning
<1>8. ASSUME NEW s \in Slot, s = op.slot PROVE SlotOK(s)' /\ RegionOK(s)'
  BY <1>0, <1>2, <1>3, <1>8, ProbeFacts DEF SlotOK, RegionOK, Probing
<1>9. ASSUME op.slot = Outside PROVE OutsideOK'
  BY <1>0, <1>2, <1>3, <1>9, ProbeFacts DEF OutsideOK
<1> QED BY <1>0, <1>5, <1>6, <1>7, <1>8, <1>9, ProbeFrame

(* ProbeIrq, ProbeTx and ProbeRx register something more for the slot. *)
LEMMA ProbeGrow ==
    ASSUME LifeInv, op.step \in {"irq", "tx", "rx", "rxFill"}, op' \in Op, hw' \in [Cards -> Hw],
           \A c \in Cards : hw'[c].en = hw[c].en /\ hw'[c].active = hw[c].active,
           \/ dev' = dev \/ dev' = [dev EXCEPT ![op.slot].tx = "full"]
           \/ dev' = [dev EXCEPT ![op.slot].rx = "none"] \/ dev' = [dev EXCEPT ![op.slot].rx = "full"]
           \/ op.step = "irq" /\ dev' = [dev EXCEPT ![op.slot].irq = TRUE, ![op.slot].tx = "none"],
           UNCHANGED Others,
           \/ op'.step = "idle" /\ failed' = failed \cup {op.card}
           \/ /\ op'.card = op.card /\ op'.slot = op.slot /\ failed' = failed
              /\ \/ op.step = "irq" /\ op'.step = "tx"
                 \/ op.step = "tx" /\ op'.step = "rx" /\ dev'[op.slot].tx = "full"
                 \/ op.step = "rx" /\ op'.step = "rxFill"
                 \/ op.step = "rxFill" /\ op'.step = "enable" /\ dev'[op.slot].rx = "full"
    PROVE  LifeInv'
<1>0. Probing /\ Owning /\ dev[op.slot].base = op.card /\ dev[op.slot].reg /\ op.card \in region
  BY ProbeFacts DEF Probing, ProbeOK, Owning
<1>1. /\ dev' \in [Place -> Dev] /\ \A s \in Place \ {op.slot} : dev'[s] = dev[s]
      /\ dev'[op.slot].base = dev[op.slot].base /\ dev'[op.slot].reg = dev[op.slot].reg
      /\ dev'[op.slot].isOpen = dev[op.slot].isOpen /\ dev'[op.slot].cdev = dev[op.slot].cdev
      /\ dev[op.slot].irq => dev'[op.slot].irq
      /\ op.step # "irq" /\ dev[op.slot].tx = "full" => dev'[op.slot].tx = "full"
  <2> DEFINE old == dev[op.slot]
  <2>a. dev \in [Place -> Dev] /\ op.slot \in Place /\ old \in Dev
    <3>1. dev \in [Place -> Dev] /\ op.slot \in Place
      BY <1>0, ProbeFacts
    <3> QED BY <3>1
  <2>b. ASSUME NEW new \in Dev, dev' = [dev EXCEPT ![op.slot] = new]
        PROVE  dev' \in [Place -> Dev] /\ dev'[op.slot] = new /\ \A s \in Place \ {op.slot} : dev'[s] = dev[s]
    BY <2>a, <2>b
  <2>0. CASE dev' = dev
    BY <2>a, <2>0
  <2>1. CASE op.step = "irq" /\ dev' = [dev EXCEPT ![op.slot].irq = TRUE, ![op.slot].tx = "none"]
    <3> DEFINE new == [old EXCEPT !.irq = TRUE, !.tx = "none"]
    <3>1. dev' = [dev EXCEPT ![op.slot] = new]
      BY <2>a, <2>1
    <3>2. new \in Dev
      BY <2>a, DevFields
    <3>3. dev' \in [Place -> Dev] /\ dev'[op.slot] = new /\ \A s \in Place \ {op.slot} : dev'[s] = dev[s]
      BY <2>b, <3>1, <3>2
    <3> QED BY <2>a, <2>1, <3>3 DEF Dev
  <2>2. CASE dev' = [dev EXCEPT ![op.slot].tx = "full"]
    <3> DEFINE new == [old EXCEPT !.tx = "full"]
    <3>1. dev' = [dev EXCEPT ![op.slot] = new]
      BY <2>2
    <3>2. new \in Dev
      BY <2>a, DevFields
    <3>3. dev' \in [Place -> Dev] /\ dev'[op.slot] = new /\ \A s \in Place \ {op.slot} : dev'[s] = dev[s]
      BY <2>b, <3>1, <3>2
    <3> QED BY <2>a, <3>3 DEF Dev
  <2>3. ASSUME NEW v \in {"none", "full"}, dev' = [dev EXCEPT ![op.slot].rx = v]
        PROVE  <1>1!:
    <3> DEFINE new == [old EXCEPT !.rx = v]
    <3>1. dev' = [dev EXCEPT ![op.slot] = new]
      BY <2>3
    <3>2. new \in Dev
      BY <2>a, DevFields
    <3>3. dev' \in [Place -> Dev] /\ dev'[op.slot] = new /\ \A s \in Place \ {op.slot} : dev'[s] = dev[s]
      BY <2>b, <3>1, <3>2
    <3> QED BY <2>a, <3>3 DEF Dev
  <2> QED BY <2>0, <2>1, <2>2, <2>3
<1>5. ProbeEffect
  BY <1>0, <1>1 DEF ProbeEffect, Others, Probing, Owning
<1>6. LifeTypeOK'
  BY <1>1 DEF LifeInv, LifeTypeOK, Others
<1>2. /\ ~IsBound(op.card) /\ module = "live" /\ op.card \in Cards /\ op.slot \in Place
      /\ \A t \in Slot : dev[t].base = op.card /\ dev[t].reg => t = op.slot
      /\ op.step \in {"rx", "rxFill"} => dev[op.slot].tx = "full"
      /\ op.slot = Outside => op.card \in overflow
  BY <1>0, ProbeFacts DEF ProbeOK, Owning
<1>3. UNCHANGED <<module, region, bound, overflow>>
  BY DEF Others
<1>4. \A t \in Slot : dev'[t].base = dev[t].base /\ dev'[t].reg = dev[t].reg
  BY <1>0, <1>1, ProbeFacts
<1>7. ProbeOK'
  <2>1. CASE op'.step = "idle"
    BY <2>1 DEF ProbeOK, Probing, Owning
  <2>2. CASE op'.card = op.card /\ op'.slot = op.slot
    <3>1. ~IsBound(op.card)' /\ module' = "live" /\ op'.card \in Cards
      BY <1>2, <1>3, <2>2 DEF IsBound
    <3>2. dev'[op'.slot].base = op'.card /\ dev'[op'.slot].reg /\ op'.card \in region'
      BY <1>0, <1>1, <1>3, <2>2
    <3>3. \A t \in Slot : dev'[t].base = op'.card /\ dev'[t].reg => t = op'.slot
      BY <1>2, <1>4, <2>2
    <3>4. CASE op'.step = "idle"
      BY <3>4 DEF ProbeOK, Probing, Owning
    <3>5. CASE op'.step \in {"tx", "rx", "rxFill", "enable"}
      <4>1. op'.step \in {"rx", "rxFill", "enable"} => dev'[op'.slot].tx = "full"
        BY <1>1, <1>2, <2>2
      <4>2. op'.step = "enable" => dev'[op'.slot].rx = "full"
        BY <2>2
      <4>3. op'.slot = Outside => op'.card \in overflow'
        BY <1>2, <1>3, <2>2
      <4> QED BY <2>2, <3>1, <3>2, <3>3, <3>5, <4>1, <4>2, <4>3 DEF ProbeOK
    <3> QED BY <3>4, <3>5
  <2> QED BY <2>1, <2>2
<1>8. ASSUME NEW s \in Slot, s = op.slot PROVE SlotOK(s)' /\ RegionOK(s)'
  BY <1>0, <1>1, <1>8, ProbeFacts DEF SlotOK, RegionOK, Others, Probing
<1>9. ASSUME op.slot = Outside PROVE OutsideOK'
  BY <1>0, <1>1, <1>9, ProbeFacts DEF OutsideOK, Others
<1> QED BY <1>0, <1>5, <1>6, <1>7, <1>8, <1>9, ProbeFrame

(* registers the interrupt, *)
LEMMA ProbeIrqStep == ASSUME LifeInv, ProbeIrq PROVE LifeInv'
<1>1. op.step = "irq" /\ Probing /\ UNCHANGED <<Others, hw>>
  BY DEF ProbeIrq, At, Probing
<1>2. op' \in Op /\ hw' \in [Cards -> Hw]
  BY <1>1, ProbeFacts DEF ProbeIrq, Refused, Go, Idle, Op, Slot, Place
<1>3. \/ op'.step = "idle" /\ failed' = failed \cup {op.card}
      \/ op'.card = op.card /\ op'.slot = op.slot /\ failed' = failed /\ op'.step = "tx"
  BY <1>1, ProbeFacts DEF ProbeIrq, Refused, Go, Idle, Op
<1>4. dev' = dev \/ dev' = [dev EXCEPT ![op.slot].irq = TRUE, ![op.slot].tx = "none"]
  BY DEF ProbeIrq
<1> QED BY <1>1, <1>2, <1>3, <1>4, ProbeGrow

(* allocates the TX queue *)
LEMMA ProbeTxStep == ASSUME LifeInv, ProbeTx PROVE LifeInv'
<1>1. op.step = "tx" /\ Probing /\ UNCHANGED <<Others, hw>>
  BY DEF ProbeTx, At, Probing
<1>2. op' \in Op /\ hw' \in [Cards -> Hw]
  BY <1>1, ProbeFacts DEF ProbeTx, Refused, Go, Idle, Op, Slot, Place
<1>3. CASE dev' = [dev EXCEPT ![op.slot].tx = "full"] /\ Go("rx") /\ UNCHANGED failed
  <2>1. op'.card = op.card /\ op'.slot = op.slot /\ op'.step = "rx" /\ dev'[op.slot].tx = "full"
    BY <1>1, <1>3, ProbeFacts DEF Go, Op, Dev
  <2> QED BY <1>1, <1>2, <1>3, <2>1, ProbeGrow
<1>4. CASE Refused /\ UNCHANGED dev
  <2>1. op'.step = "idle" /\ failed' = failed \cup {op.card}
    BY <1>4 DEF Refused, Idle
  <2> QED BY <1>1, <1>2, <1>4, <2>1, ProbeGrow
<1> QED BY <1>3, <1>4 DEF ProbeTx

(* and the RX queue. *)
LEMMA ProbeRxStep == ASSUME LifeInv, ProbeRx PROVE LifeInv'
<1>0. UNCHANGED Others
  BY DEF ProbeRx
<1>1. CASE /\ At("rx") /\ Go("rxFill") /\ hw' = [hw EXCEPT ![op.card].run = TRUE]
           /\ dev' = [dev EXCEPT ![op.slot].rx = "none"] /\ UNCHANGED <<faults, failed>>
  <2>1. op.step = "rx" /\ Probing
    BY <1>1 DEF At, Probing
  <2>2. op' \in Op /\ op'.card = op.card /\ op'.slot = op.slot /\ op'.step = "rxFill"
    BY <1>1, <2>1, ProbeFacts DEF Go, Op
  <2>3. hw' \in [Cards -> Hw] /\ \A c \in Cards : hw'[c].en = hw[c].en /\ hw'[c].active = hw[c].active
    <3> DEFINE new == [hw[op.card] EXCEPT !.run = TRUE]
    <3>1. hw \in [Cards -> Hw] /\ op.card \in Cards
      BY <2>1, ProbeFacts
    <3>2. hw' = [hw EXCEPT ![op.card] = new]
      BY <1>1
    <3>3. hw[op.card] \in Hw /\ new \in Hw /\ new.en = hw[op.card].en /\ new.active = hw[op.card].active
      BY <3>1 DEF Hw
    <3> QED BY <3>1, <3>2, <3>3, PutHw
  <2> QED BY <1>0, <1>1, <2>1, <2>2, <2>3, ProbeGrow
<1>2. CASE /\ At("rxFill") /\ Go("enable") /\ dev' = [dev EXCEPT ![op.slot].rx = "full"]
           /\ UNCHANGED <<hw, faults, failed>>
  <2>1. op.step = "rxFill" /\ Probing
    BY <1>2 DEF At, Probing
  <2>2. op' \in Op /\ op'.card = op.card /\ op'.slot = op.slot /\ op'.step = "enable"
    BY <1>2, <2>1, ProbeFacts DEF Go, Op
  <2>3. dev'[op.slot].rx = "full" /\ hw' \in [Cards -> Hw]
    BY <1>2, <2>1, ProbeFacts DEF Dev
  <2> QED BY <1>0, <1>2, <2>1, <2>2, <2>3, ProbeGrow
<1>3. CASE At("rxFill") /\ Refused /\ UNCHANGED <<hw, dev>>
  <2>1. op.step = "rxFill" /\ Probing
    BY <1>3 DEF At, Probing
  <2>2. op' \in Op /\ op'.step = "idle" /\ failed' = failed \cup {op.card} /\ hw' \in [Cards -> Hw]
    BY <1>3, <2>1, ProbeFacts DEF Refused, Idle, Op, Slot, Place
  <2> QED BY <1>0, <1>3, <2>1, <2>2, ProbeGrow
<1> QED BY <1>1, <1>2, <1>3 DEF ProbeRx

(* Probe is done: the card is bound and may interrupt. *)
LEMMA ProbeEnableStep == ASSUME LifeInv, ProbeEnable PROVE LifeInv'
<1>0. /\ op.step = "enable" /\ Probing /\ Owning /\ dev[op.slot].base = op.card /\ dev[op.slot].reg
      /\ Alive(op.slot) /\ op.card \in region /\ ~IsBound(op.card)
      /\ \A t \in Slot : dev[t].base = op.card /\ dev[t].reg => t = op.slot
  BY ProbeFacts DEF ProbeEnable, At, Probing, ProbeOK, Alive, Owning
<1>1. /\ op'.step = "idle" /\ op' \in Op /\ bound' = bound \cup {<<op.card, op.slot>>}
      /\ UNCHANGED <<module, dev, region, isr, user, failed, overflow, overrun, overlapped, dangling>>
  BY DEF ProbeEnable, Idle, hist, Op, Slot, Place
<1>2. /\ hw' \in [Cards -> Hw]
      /\ \A c \in Cards : c # op.card => hw'[c] = hw[c]
  BY <1>0, ProbeFacts DEF ProbeEnable, Hw
<1>3. ~Removing /\ ~Removing' /\ ~Probing' /\ ~Owning'
  BY <1>0, <1>1 DEF Removing, Probing, Owning
<1>4. \A c : IsBound(c) \/ c = op.card => IsBound(c)'
  BY <1>0, <1>1, ProbeFacts DEF IsBound
<1>a. ASSUME NEW c \in Cards, Stray(c) PROVE Stray(c)'
  BY <1>a, <1>0, <1>1, <1>3, StrayKept
<1>b. ASSUME NEW c, Serving(c) PROVE Serving(c)'
  BY <1>b, <1>1, <1>3, <1>4 DEF Serving
<1>5. LifeTypeOK'
  BY <1>0, <1>1, <1>2, ProbeFacts DEF LifeInv, LifeTypeOK
<1>6. ProbeOK' /\ RemoveOK'
  BY <1>1, <1>3 DEF ProbeOK, RemoveOK, Owning
<1>7. ASSUME NEW s \in Slot PROVE SlotOK(s)' /\ RegionOK(s)'
  <2>1. SlotOK(s) /\ RegionOK(s)
    BY DEF LifeInv, SlotInv
  <2>2. SlotOK(s)'
    BY <1>0, <1>1, <2>1 DEF SlotOK
  <2>3. RegionOK(s)'
    BY <1>0, <1>1, <2>1 DEF RegionOK
  <2> QED BY <2>2, <2>3
<1>c. OutsideOK'
  BY <1>0, <1>1, ProbeFacts DEF OutsideOK, Alive
<1>d. ASSUME NEW s \in Place PROVE HandleOK(s)'
  <2> SUFFICES ASSUME isr[s] \in {"work", "enable"} PROVE Served(s)'
    BY <1>1 DEF HandleOK
  <2>1. Served(s) /\ dev[s].base \in Cards
    <3>1. dev[s].base \in Cards \cup {NoCard}
      BY DEF LifeInv, LifeTypeOK, Dev
    <3>2. s \in Slot => dev[s].base # NoCard
      BY DEF LifeInv, SlotInv, SlotOK
    <3>3. s = Outside => dev[s].base # NoCard
      BY DEF LifeInv, SlotInv, OutsideOK
    <3> QED BY <3>1, <3>2, <3>3 DEF LifeInv, SlotInv, HandleOK, Place
  <2> QED BY <1>1, <1>a, <1>b, <2>1 DEF Served
<1>8. ASSUME NEW c \in Cards PROVE HeldOK(c)' /\ RaiseOK(c)' /\ FrontOK(c)'
  <2>1. HeldOK(c) /\ RaiseOK(c) /\ FrontOK(c)
    BY DEF LifeInv, CardInv
  <2>2. CASE c = op.card
    <3>1. HeldOK(c)' /\ RaiseOK(c)'
      BY <1>4, <1>3, <2>2, ProbeFacts, <1>0 DEF HeldOK, RaiseOK, Serving
    <3>2. FrontOK(c)'
      <4> SUFFICES ASSUME <<c, Outside>> \in bound' PROVE FrontOK(c)'
        BY DEF FrontOK
      <4>1. op.slot = Outside
        BY <1>0, <1>1, <2>2 DEF IsBound, Place
      <4> QED BY <1>0, <1>1, <2>2, <4>1, ProbeFacts DEF FrontOK
    <3> QED BY <3>1, <3>2
  <2>3. CASE c # op.card
    <3>1. HeldOK(c)'
      BY <1>0, <1>1, <1>4, <2>1, <2>3 DEF HeldOK
    <3>2. RaiseOK(c)'
      BY <1>2, <1>a, <1>b, <2>1, <2>3 DEF RaiseOK
    <3>3. FrontOK(c)'
      BY <1>1, <2>1, <2>3 DEF FrontOK
    <3> QED BY <3>1, <3>2, <3>3
  <2> QED BY <2>2, <2>3
<1>9. ASSUME NEW c \in Cards, NEW s \in Slot PROVE BoundOK(c, s)'
  <2>1. CASE c = op.card /\ s = op.slot
    BY <1>0, <1>1, <2>1, ProbeFacts DEF BoundOK, Alive
  <2>2. CASE ~(c = op.card /\ s = op.slot)
    <3>1. BoundOK(c, s)
      BY DEF LifeInv, CardInv
    <3> QED BY <1>1, <1>3, <2>2, <3>1 DEF BoundOK, Alive
  <2> QED BY <2>1, <2>2
<1>10. OpenInv'
  BY <1>1, UsersKept DEF LifeInv
<1>11. FullOK'
  <2>1. FullOK /\ module' = module /\ dev' = dev
    BY <1>1 DEF LifeInv
  <2>2. ASSUME NEW c \in Cards, NEW s \in Slot, <<c, s>> \in bound' PROVE dev[Outside].base # c
    <3>1. CASE <<c, s>> \in bound
      BY <2>1, <2>2, <3>1 DEF FullOK
    <3>2. CASE c = op.card /\ s = op.slot
      BY <1>0, <2>1, <2>2, <3>2, ProbeFacts DEF FullOK
    <3> QED BY <1>1, <2>2, <3>1, <3>2
  <2> QED BY <1>3, <2>1, <2>2 DEF FullOK
<1> QED BY <1>1, <1>5, <1>6, <1>7, <1>8, <1>9, <1>10, <1>11, <1>c, <1>d DEF LifeInv, SlotInv, CardInv

(* Handler and interrupt stay accounted for when a step only disables      *)
(* interrupts, leaves the devices that are being handled alone, and every  *)
(* card that is served stays so or is one that nobody serves.              *)
LEMMA ServedKept ==
    ASSUME LifeInv, UNCHANGED isr, \A s \in Slot : SlotOK(s)',
           \A s \in Place : isr[s] \in {"work", "enable"} => dev'[s].base = dev[s].base,
           \A c \in Cards : (hw'[c].en => hw[c].en) /\ hw'[c].active = hw[c].active,
           \A c \in Cards : Serving(c) => Serving(c)' \/ Stray(c)',
           \A c \in Cards : Stray(c) => Stray(c)'
    PROVE  (\A s \in Place : HandleOK(s)') /\ (\A c \in Cards : RaiseOK(c)')
<1>1. ASSUME NEW s \in Place, isr[s] \in {"work", "enable"} PROVE Served(s)'
  <2>1. Served(s) /\ dev[s].base \in Cards
    <3>1. dev[s].base \in Cards \cup {NoCard}
      BY DEF LifeInv, LifeTypeOK, Dev
    <3>2. s \in Slot => dev[s].base # NoCard
      BY <1>1 DEF LifeInv, SlotInv, SlotOK
    <3>3. s = Outside => dev[s].base # NoCard
      BY <1>1 DEF LifeInv, SlotInv, OutsideOK
    <3> QED BY <1>1, <3>1, <3>2, <3>3 DEF LifeInv, SlotInv, HandleOK, Place
  <2>2. dev'[s].base = dev[s].base /\ (Serving(dev[s].base)' \/ Stray(dev[s].base)')
    BY <1>1, <2>1 DEF Served
  <2>3. s \in Slot => ~Stray(dev[s].base)'
    BY <1>1, <2>2 DEF SlotOK, Stray
  <2> QED BY <2>2, <2>3 DEF Served, Place
<1>2. ASSUME NEW c \in Cards PROVE RaiseOK(c)'
  BY DEF LifeInv, CardInv, RaiseOK
<1> QED BY <1>1, <1>2 DEF HandleOK

-----------------------------------------------------------------------------
(* Probe is called: it fails at once, takes an empty slot, or goes in      *)
(* front of the array.  Nobody has the node of an empty slot open.         *)
LEMMA ProbeFindStep == ASSUME LifeInv, NEW k \in Cards, ProbeFind(k) PROVE LifeInv'
<1>0. /\ module = "live" /\ op.step = "idle" /\ ~IsBound(k) /\ k # NoCard
      /\ dev \in [Place -> Dev] /\ op \in Op /\ hw \in [Cards -> Hw]
      /\ ~Removing /\ ~Probing /\ ~Owning
  BY DEF LifeInv, LifeTypeOK, ProbeFind, At, Removing, Probing, Owning
<1>1. UNCHANGED <<module, region, bound, isr, user, overrun, hw>>
  BY DEF ProbeFind
<1>a. \A s \in Slot : s \in Place /\ s # Outside
  BY DEF Slot, Place, Outside
<1>2. CASE UNCHANGED <<op, dev, overflow, overlapped, dangling>> /\ failed' = failed \cup {k}
  <2>1. LifeTypeOK' /\ ProbeOK' /\ RemoveOK'
    BY <1>1, <1>2 DEF LifeInv, LifeTypeOK, ProbeOK, RemoveOK, Probing, Removing, IsBound, Owning
  <2>2. \A s \in Slot : SlotOK(s)' /\ RegionOK(s)'
    BY <1>1, <1>2 DEF LifeInv, SlotInv, SlotOK, RegionOK, Probing
  <2>3. OutsideOK'
    BY <1>1, <1>2 DEF LifeInv, SlotInv, OutsideOK, Alive
  <2>4. \A c : (Serving(c)' <=> Serving(c)) /\ (Stray(c)' <=> Stray(c))
    BY <1>1, <1>2 DEF Serving, Stray, IsBound, Removing, Owning
  <2>5. (\A s \in Place : HandleOK(s)') /\ (\A c \in Cards : RaiseOK(c)')
    BY <1>1, <1>2, <2>2, <2>4, ServedKept
  <2>6. ASSUME NEW c \in Cards PROVE HeldOK(c)' /\ FrontOK(c)'
    BY <1>1, <1>2 DEF LifeInv, CardInv, HeldOK, FrontOK, Probing, IsBound
  <2>7. ASSUME NEW c \in Cards, NEW s \in Slot PROVE BoundOK(c, s)'
    BY <1>1, <1>2 DEF LifeInv, CardInv, BoundOK, Alive, Removing
  <2>8. OpenInv'
    BY <1>1, <1>2, UsersKept DEF LifeInv
  <2>9. FullOK'
    BY <1>1, <1>2 DEF LifeInv, FullOK, Probing
  <2> QED BY <1>1, <1>2, <2>1, <2>2, <2>3, <2>5, <2>6, <2>7, <2>8, <2>9 DEF LifeInv, SlotInv, CardInv
<1>3. ASSUME NEW i \in Place,
             i \in Slot => dev[i].base = NoCard,
             i = Outside => \A s \in Slot : dev[s].base # NoCard,
             op' = [step |-> "cdev", card |-> k, slot |-> i],
             dev' = [dev EXCEPT ![i].isOpen = FALSE], failed' = failed,
             overflow' = IF i = Outside THEN overflow \cup {k} ELSE overflow,
             overlapped' = IF \E u \in Users : user[u].at = "open" /\ user[u].slot = i
                           THEN overlapped \cup {i} ELSE overlapped,
             dangling' = dangling \cup Registered({i})
      PROVE  LifeInv'
  <2>1. /\ dev' \in [Place -> Dev] /\ \A s \in Place \ {i} : dev'[s] = dev[s]
        /\ \A s \in Place : /\ dev'[s].base = dev[s].base /\ dev'[s].reg = dev[s].reg
                            /\ dev'[s].cdev = dev[s].cdev /\ dev'[s].irq = dev[s].irq
                            /\ dev'[s].tx = dev[s].tx /\ dev'[s].rx = dev[s].rx
        /\ dev'[i].isOpen = FALSE
    BY <1>0, <1>3 DEF Dev
  <2>2. /\ op' \in Op /\ Probing' /\ ~Removing' /\ ~Owning' /\ op'.step = "cdev"
        /\ op'.slot = i /\ op'.card = k
    BY <1>3 DEF Op, Probing, Removing, Owning
  <2>3. LifeTypeOK'
    BY <1>1, <2>1, <2>2 DEF LifeInv, LifeTypeOK
  <2>4. ProbeOK' /\ RemoveOK'
    <3>1. ~IsBound(k)'
      BY <1>0, <1>1 DEF IsBound
    <3>2. i = Outside => k \in overflow'
      BY <1>3
    <3>3. ProbeOK'
      BY <1>0, <1>1, <1>3, <2>1, <2>2, <3>1, <3>2 DEF ProbeOK
    <3> QED BY <2>2, <3>3 DEF RemoveOK
  <2>5. ASSUME NEW s \in Slot PROVE SlotOK(s)' /\ RegionOK(s)'
    <3>1. SlotOK(s) /\ RegionOK(s)
      BY DEF LifeInv, SlotInv
    <3>2. SlotOK(s)'
      BY <1>0, <1>1, <1>3, <1>a, <2>1, <2>2, <3>1 DEF SlotOK
    <3>3. RegionOK(s)'
      BY <1>0, <1>1, <1>a, <2>1, <2>2, <3>1 DEF RegionOK
    <3> QED BY <3>2, <3>3
  <2>6. OutsideOK'
    <3>1. OutsideOK /\ Outside \in Place /\ overflow \subseteq overflow'
      BY <1>3 DEF LifeInv, SlotInv, Place
    <3> QED BY <1>0, <1>1, <2>1, <2>2, <3>1 DEF OutsideOK, Alive
  <2>7. \A c : (Serving(c) => Serving(c)') /\ (Stray(c) => Stray(c)')
    <3>1. \A c : IsBound(c)' <=> IsBound(c)
      BY <1>1 DEF IsBound
    <3> QED BY <1>1, <1>a, <2>1, <2>2, <3>1 DEF Serving, Stray
  <2>8. (\A s \in Place : HandleOK(s)') /\ (\A c \in Cards : RaiseOK(c)')
    BY <1>1, <2>1, <2>5, <2>7, ServedKept
  <2>9. ASSUME NEW c \in Cards PROVE HeldOK(c)' /\ FrontOK(c)'
    <3>1. HeldOK(c) /\ FrontOK(c) /\ overflow \subseteq overflow' /\ (IsBound(c)' <=> IsBound(c))
      BY <1>1, <1>3 DEF LifeInv, CardInv, IsBound
    <3>2. HeldOK(c)'
      BY <1>0, <1>1, <1>3, <3>1 DEF HeldOK
    <3>3. FrontOK(c)'
      BY <1>1, <1>a, <2>1, <3>1 DEF FrontOK
    <3> QED BY <3>2, <3>3
  <2>10. ASSUME NEW c \in Cards, NEW s \in Slot PROVE BoundOK(c, s)'
    <3>1. BoundOK(c, s)
      BY DEF LifeInv, CardInv
    <3> QED BY <1>0, <1>1, <1>a, <2>1, <2>2, <3>1 DEF BoundOK, Alive
  <2>11. OpenInv'
    <3>1. ASSUME NEW u \in Users PROVE UserOK(u)'
      <4>1. user[u].slot \in Place /\ UserOK(u)
        BY DEF LifeInv, LifeTypeOK, User, OpenInv
      <4> QED BY <1>1, <2>1, <4>1 DEF UserOK
    <3>2. ASSUME NEW s \in Place PROVE OpenOK(s)'
      <4> SUFFICES ASSUME s \notin overlapped' PROVE OpenOK(s)'
        BY DEF OpenOK
      <4>1. OpenOK(s) /\ s \notin overlapped
        BY <1>3 DEF LifeInv, OpenInv
      <4>2. CASE s = i
        <5>1. ~\E u \in Users : user[u].at = "open" /\ user[u].slot = s
          BY <1>3, <4>2
        <5> QED BY <1>1, <2>1, <4>1, <4>2, <5>1 DEF OpenOK, Using
      <4>3. CASE s # i
        BY <1>1, <2>1, <4>1, <4>3 DEF OpenOK, Using
      <4> QED BY <4>2, <4>3
    <3> QED BY <3>1, <3>2 DEF OpenInv
  <2>12. dangling' \subseteq (failed' \cup overflow')
    <3>1. ASSUME dev[i].cdev \/ dev[i].irq \/ dev[i].reg PROVE i = Outside /\ dev[i].base \in overflow
      <4>1. ASSUME i \in Slot PROVE FALSE
        BY <1>0, <1>3, <3>1, <4>1 DEF LifeInv, SlotInv, SlotOK
      <4>2. CASE i = Outside
        BY <1>0, <3>1, <4>2 DEF LifeInv, SlotInv, OutsideOK
      <4> QED BY <4>1, <4>2 DEF Place
    <3>2. Registered({i}) \subseteq overflow
      BY <3>1 DEF Registered
    <3>3. overflow \subseteq overflow' /\ failed' = failed /\ dangling \subseteq (failed \cup overflow)
      BY <1>3 DEF LifeInv
    <3> QED BY <1>3, <3>2, <3>3
  <2>13. FullOK'
    <3>1. FullOK /\ Outside \in Place
      BY DEF LifeInv, Place
    <3>2. \A s \in Place : dev'[s].base = dev[s].base
      BY <2>1
    <3>3. i \in Slot => dev[Outside].base = NoCard
      BY <1>0, <1>3, <3>1 DEF FullOK
    <3> QED BY <1>0, <1>1, <1>3, <1>a, <2>2, <3>1, <3>2, <3>3 DEF FullOK
  <2> QED BY <2>3, <2>4, <2>5, <2>6, <2>8, <2>9, <2>10, <2>11, <2>12, <2>13 DEF LifeInv, SlotInv, CardInv
<1> QED
  <2> DEFINE free == {s \in Slot : dev[s].base = NoCard}
             i    == IF free = {} THEN Outside ELSE Min(free)
  <2>1. free # {} => Min(free) \in free
    BY MinSlot
  <2>2. i \in Place /\ (i \in Slot => dev[i].base = NoCard)
        /\ (i = Outside => \A s \in Slot : dev[s].base # NoCard)
    BY <1>a, <2>1 DEF Place
  <2>3. CASE UNCHANGED <<op, dev, overflow, overlapped, dangling>> /\ failed' = failed \cup {k}
    BY <1>2, <2>3
  <2>4. CASE /\ op' = [step |-> "cdev", card |-> k, slot |-> i]
             /\ dev' = [dev EXCEPT ![i].isOpen = FALSE]
             /\ overflow' = IF i = Outside THEN overflow \cup {k} ELSE overflow
             /\ overlapped' = IF \E u \in Users : user[u].at = "open" /\ user[u].slot = i
                              THEN overlapped \cup {i} ELSE overlapped
             /\ dangling' = dangling \cup Registered({i})
             /\ UNCHANGED failed
    <3> HIDE DEF i, free
    <3> QED BY <1>3, <2>2, <2>4
  <2> QED BY <2>3, <2>4 DEF ProbeFind

-----------------------------------------------------------------------------
(* What a step of Remove knows when it starts. *)
LEMMA RemoveFacts ==
    ASSUME LifeInv, Removing
    PROVE  /\ dev \in [Place -> Dev] /\ hw \in [Cards -> Hw] /\ op \in Op
           /\ op.slot \in Slot /\ op.card \in Cards /\ module = "going" /\ op.card # NoCard
           /\ ~Probing /\ RemoveOK /\ <<op.card, op.slot>> \in bound /\ IsBound(op.card)
           /\ dev[op.slot].base = op.card /\ dev[op.slot].reg
           /\ \A t \in Slot : dev[t].base = op.card /\ dev[t].reg => t = op.slot
           /\ \A u \in Users : user[u].at = "out"
           /\ \A s \in Slot : s \in Place /\ s # Outside
           /\ Outside \in Place /\ ~Owning /\ dev[Outside].base # op.card
<1>1. /\ op.slot \in Slot /\ op.card \in Cards /\ module = "going" /\ <<op.card, op.slot>> \in bound
      /\ RemoveOK /\ ~Probing /\ dev \in [Place -> Dev] /\ hw \in [Cards -> Hw] /\ op \in Op
  BY DEF LifeInv, LifeTypeOK, RemoveOK, Op, Probing, Removing
<1>a. (\A s \in Slot : s \in Place /\ s # Outside) /\ Outside \in Place
  BY DEF Slot, Place, Outside
<1>b. ~Owning /\ dev[Outside].base # op.card
  BY <1>1 DEF Removing, Owning, LifeInv, FullOK
<1>2. BoundOK(op.card, op.slot) /\ IsBound(op.card)
  BY <1>1, <1>a DEF LifeInv, CardInv, IsBound
<1>3. \A u \in Users : user[u].at = "out"
  BY <1>1 DEF LifeInv, LifeTypeOK, OpenInv, UserOK
<1> QED BY <1>1, <1>2, <1>3, <1>a, <1>b DEF BoundOK

(* While nobody has the device open, users have nothing to lose. *)
LEMMA NoUsers ==
    ASSUME LifeInv, \A u \in Users : user[u].at = "out", UNCHANGED <<user, overlapped>>,
           \A s \in Place : s \notin overlapped => ~dev'[s].isOpen
    PROVE  OpenInv'
BY DEF OpenInv, UserOK, OpenOK, Using

(* What the steps of Remove before the last one leave alone. *)
RemoveEffect ==
    /\ \A s \in Place \ {op.slot} : dev'[s] = dev[s]
    /\ dev'[op.slot].base = dev[op.slot].base /\ dev'[op.slot].reg = dev[op.slot].reg
    /\ dev'[op.slot].isOpen = dev[op.slot].isOpen /\ dev'[op.slot].cdev = dev[op.slot].cdev
    /\ dev'[op.slot].irq \in {dev[op.slot].irq, FALSE}
    /\ dev'[op.slot].irq \/ isr[op.slot] = "idle"
    /\ \A c \in Cards : hw'[c].en = hw[c].en /\ hw'[c].active = hw[c].active
    /\ region' = IF op.step = "reset" THEN region \ {op.card} ELSE region
    /\ UNCHANGED <<module, bound, isr, user, failed, overflow, overrun, overlapped, dangling>>
    /\ op'.card = op.card /\ op'.slot = op.slot
    /\ \/ op.step = "free" /\ op'.step = "reset"
       \/ op.step = "reset" /\ op'.step = "irqFree"
       \/ op.step = "irqFree" /\ op'.step = "unmap" /\ ~dev'[op.slot].irq

(* A step of Remove that only takes things away from its slot keeps *)
(* LifeInv.                                                         *)
LEMMA RemoveFrame ==
    ASSUME LifeInv, Removing, RemoveEffect, LifeTypeOK'
    PROVE  LifeInv'
<1>1. Removing' /\ ~Probing' /\ ~Owning' /\ \A c : IsBound(c)' <=> IsBound(c)
  BY DEF RemoveEffect, Removing, Probing, IsBound, Owning
<1>2. ProbeOK' /\ RemoveOK'
  <2>1. RemoveOK'
    BY <1>1, RemoveFacts DEF RemoveOK, RemoveEffect
  <2>2. ProbeOK'
    BY <1>1 DEF ProbeOK, Probing
  <2> QED BY <2>1, <2>2
<1>a. /\ dev'[Outside] = dev[Outside]
      /\ \A s \in Place : /\ dev'[s].base = dev[s].base /\ dev'[s].reg = dev[s].reg
                          /\ dev'[s].isOpen = dev[s].isOpen
      /\ \A s \in Slot : dev'[s].irq => dev[s].irq
  BY RemoveFacts DEF RemoveEffect
<1>3. ASSUME NEW s \in Slot PROVE SlotOK(s)' /\ RegionOK(s)'
  <2>1. SlotOK(s) /\ RegionOK(s)
    BY DEF LifeInv, SlotInv
  <2>2. SlotOK(s)'
    <3>1. CASE s = op.slot
      BY <1>1, <2>1, <3>1, RemoveFacts DEF SlotOK, RemoveEffect
    <3>2. CASE s # op.slot
      BY <1>1, <2>1, <3>2, RemoveFacts DEF SlotOK, RemoveEffect
    <3> QED BY <3>1, <3>2
  <2>3. RegionOK(s)'
    <3>1. CASE s = op.slot
      BY <2>1, <3>1, RemoveFacts DEF RegionOK, RemoveEffect
    <3>2. CASE s # op.slot
      BY <2>1, <3>2, RemoveFacts DEF RegionOK, RemoveEffect
    <3> QED BY <3>1, <3>2
  <2> QED BY <2>2, <2>3
<1>b. OutsideOK'
  BY <1>a, <1>1, RemoveFacts DEF LifeInv, SlotInv, OutsideOK, RemoveEffect, Alive, Removing
<1>c. \A c : Serving(c) => Serving(c)'
  BY <1>1 DEF Serving, RemoveEffect
<1>d. ASSUME NEW c, Stray(c) PROVE Stray(c)'
  <2>1. c # op.card
    BY <1>d, RemoveFacts DEF Stray
  <2> QED BY <1>1, <1>a, <1>d, <2>1, RemoveFacts DEF Stray, RemoveEffect
<1>e. (\A s \in Place : HandleOK(s)') /\ (\A c \in Cards : RaiseOK(c)')
  BY <1>3, <1>a, <1>c, <1>d, ServedKept DEF RemoveEffect
<1>4. ASSUME NEW c \in Cards PROVE HeldOK(c)' /\ FrontOK(c)'
  <2>1. HeldOK(c) /\ FrontOK(c)
    BY DEF LifeInv, CardInv
  <2>2. HeldOK(c)'
    BY <1>1, <2>1, RemoveFacts DEF HeldOK, RemoveEffect
  <2>3. FrontOK(c)'
    <3>1. <<c, Outside>> \in bound => c # op.card
      BY <2>1, RemoveFacts DEF FrontOK
    <3> QED BY <1>a, <2>1, <3>1, RemoveFacts DEF FrontOK, RemoveEffect
  <2> QED BY <2>2, <2>3
<1>5. ASSUME NEW c \in Cards, NEW s \in Slot PROVE BoundOK(c, s)'
  <2>1. BoundOK(c, s)
    BY DEF LifeInv, CardInv
  <2>2. CASE c = op.card
    BY <1>1, <1>a, <2>1, <2>2, RemoveFacts DEF BoundOK, RemoveEffect
  <2>3. CASE c # op.card
    BY <1>1, <2>1, <2>3, RemoveFacts DEF BoundOK, RemoveEffect, Alive
  <2> QED BY <2>2, <2>3
<1>6. OpenInv'
  <2>1. ASSUME NEW s \in Place, s \notin overlapped PROVE ~dev'[s].isOpen
    BY <1>a, <2>1, RemoveFacts DEF LifeInv, OpenInv, OpenOK
  <2> QED BY <2>1, RemoveFacts, NoUsers DEF RemoveEffect
<1>7. FullOK'
  BY <1>1, <1>a, RemoveFacts DEF LifeInv, FullOK, RemoveEffect
<1> QED BY <1>2, <1>3, <1>4, <1>5, <1>6, <1>7, <1>b, <1>e DEF LifeInv, SlotInv, CardInv, RemoveEffect

(* Remove frees the buffers, *)
LEMMA RemoveFreeStep == ASSUME LifeInv, RemoveFree PROVE LifeInv'
<1>1. Removing /\ op.step = "free"
  BY DEF RemoveFree, At, Removing
<1>2. op' \in Op /\ op'.step = "reset" /\ op'.card = op.card /\ op'.slot = op.slot
  BY <1>1, RemoveFacts DEF RemoveFree, Go, Op
<1>3. /\ dev' \in [Place -> Dev] /\ \A s \in Place \ {op.slot} : dev'[s] = dev[s]
      /\ dev'[op.slot].base = dev[op.slot].base /\ dev'[op.slot].reg = dev[op.slot].reg
      /\ dev'[op.slot].isOpen = dev[op.slot].isOpen /\ dev'[op.slot].cdev = dev[op.slot].cdev
      /\ dev'[op.slot].irq = dev[op.slot].irq
  <2> DEFINE new == [dev[op.slot] EXCEPT !.tx = "freed", !.rx = "freed"]
  <2>1. dev \in [Place -> Dev] /\ op.slot \in Place
    BY <1>1, RemoveFacts
  <2>2. dev' = [dev EXCEPT ![op.slot] = new]
    BY <2>1 DEF RemoveFree
  <2>3. dev[op.slot] \in Dev /\ new \in Dev
    <3>1. dev[op.slot] \in Dev
      BY <2>1
    <3> QED BY <3>1, DevFields
  <2>4. dev' \in [Place -> Dev] /\ dev'[op.slot] = new /\ \A s \in Place \ {op.slot} : dev'[s] = dev[s]
    BY <2>1, <2>2, <2>3
  <2> QED BY <2>3, <2>4 DEF Dev
<1>4. hw' \in [Cards -> Hw] /\ \A c \in Cards : hw'[c].en = hw[c].en /\ hw'[c].active = hw[c].active
  <2> DEFINE new == [hw[op.card] EXCEPT !.run = FALSE]
  <2>1. hw \in [Cards -> Hw] /\ op.card \in Cards
    BY <1>1, RemoveFacts
  <2>2. hw' = [hw EXCEPT ![op.card] = new]
    BY DEF RemoveFree
  <2>3. hw[op.card] \in Hw /\ new \in Hw /\ new.en = hw[op.card].en /\ new.active = hw[op.card].active
    BY <2>1 DEF Hw
  <2> QED BY <2>1, <2>2, <2>3, PutHw
<1>5. UNCHANGED <<Others, failed>>
  BY DEF RemoveFree
<1>6. dev[op.slot].irq \/ isr[op.slot] = "idle"
  BY <1>1, RemoveFacts DEF LifeInv, SlotInv, SlotOK
<1>7. RemoveEffect
  BY <1>1, <1>2, <1>3, <1>4, <1>5, <1>6 DEF RemoveEffect, Others
<1>8. LifeTypeOK'
  BY <1>2, <1>3, <1>4, <1>5 DEF LifeInv, LifeTypeOK, Others
<1> QED BY <1>1, <1>7, <1>8, RemoveFrame

(* resets the card *)
LEMMA RemoveResetStep == ASSUME LifeInv, RemoveReset PROVE LifeInv'
<1>1. Removing /\ op.step = "reset"
  BY DEF RemoveReset, At, Removing
<1>2. op' \in Op /\ op'.step = "irqFree" /\ op'.card = op.card /\ op'.slot = op.slot
  BY <1>1, RemoveFacts DEF RemoveReset, Go, Op
<1>4. hw' \in [Cards -> Hw] /\ \A c \in Cards : hw'[c].en = hw[c].en /\ hw'[c].active = hw[c].active
  <2>1. hw \in [Cards -> Hw] /\ op.card \in Cards
    BY <1>1, RemoveFacts
  <2>2. hw' = [hw EXCEPT ![op.card].reset = TRUE, ![op.card].run = FALSE,
                         ![op.card].req = FALSE, ![op.card].sent = FALSE]
    BY DEF RemoveReset
  <2>3. \A c \in Cards \ {op.card} : hw'[c] = hw[c]
    BY <2>1, <2>2
  <2>4. hw'[op.card] = [hw[op.card] EXCEPT !.reset = TRUE, !.run = FALSE, !.req = FALSE, !.sent = FALSE]
    BY <2>1, <2>2 DEF Hw
  <2>5. hw'[op.card] \in Hw /\ hw'[op.card].en = hw[op.card].en /\ hw'[op.card].active = hw[op.card].active
    <3> DEFINE h == hw[op.card]
               g == hw'[op.card]
    <3>1. h \in Hw /\ g = [h EXCEPT !.reset = TRUE, !.run = FALSE, !.req = FALSE, !.sent = FALSE]
      BY <2>1, <2>4
    <3> HIDE DEF h, g
    <3>2. g.en = h.en /\ g.active = h.active
      BY <3>1 DEF Hw
    <3>3. g \in Hw
      BY <3>1 DEF Hw
    <3> QED BY <3>2, <3>3 DEF h, g
  <2>6. hw' \in [Cards -> Hw]
    BY <2>1, <2>2, <2>3, <2>5
  <2> QED BY <2>3, <2>5, <2>6
<1>5. /\ region' = region \ {op.card}
      /\ UNCHANGED <<module, dev, bound, isr, user, failed, overflow, overrun, overlapped, dangling>>
  BY DEF RemoveReset, hist
<1>6. dev[op.slot].irq \/ isr[op.slot] = "idle"
  BY <1>1, RemoveFacts DEF LifeInv, SlotInv, SlotOK
<1>7. RemoveEffect
  BY <1>1, <1>2, <1>4, <1>5, <1>6 DEF RemoveEffect
<1>8. LifeTypeOK'
  BY <1>2, <1>4, <1>5 DEF LifeInv, LifeTypeOK
<1> QED BY <1>1, <1>7, <1>8, RemoveFrame

(* and releases the interrupt. *)
LEMMA RemoveIrqStep == ASSUME LifeInv, RemoveIrq PROVE LifeInv'
<1>1. Removing /\ op.step = "irqFree" /\ isr[op.slot] = "idle"
  BY DEF RemoveIrq, At, Removing
<1>2. op' \in Op /\ op'.step = "unmap" /\ op'.card = op.card /\ op'.slot = op.slot
  BY <1>1, RemoveFacts DEF RemoveIrq, Go, Op
<1>3. /\ dev' \in [Place -> Dev] /\ \A s \in Place \ {op.slot} : dev'[s] = dev[s]
      /\ dev'[op.slot].base = dev[op.slot].base /\ dev'[op.slot].reg = dev[op.slot].reg
      /\ dev'[op.slot].isOpen = dev[op.slot].isOpen /\ dev'[op.slot].cdev = dev[op.slot].cdev
      /\ dev'[op.slot].irq = FALSE
  <2> DEFINE new == [dev[op.slot] EXCEPT !.irq = FALSE]
  <2>1. dev \in [Place -> Dev] /\ op.slot \in Place
    BY <1>1, RemoveFacts
  <2>2. dev' = [dev EXCEPT ![op.slot] = new]
    BY DEF RemoveIrq
  <2>3. dev[op.slot] \in Dev /\ new \in Dev
    <3>1. dev[op.slot] \in Dev
      BY <2>1
    <3> QED BY <3>1, DevFields
  <2>4. dev' \in [Place -> Dev] /\ dev'[op.slot] = new /\ \A s \in Place \ {op.slot} : dev'[s] = dev[s]
    BY <2>1, <2>2, <2>3
  <2> QED BY <2>3, <2>4 DEF Dev
<1>5. UNCHANGED <<Others, hw, failed>>
  BY DEF RemoveIrq
<1>7. RemoveEffect
  BY <1>1, <1>2, <1>3, <1>5 DEF RemoveEffect, Others
<1>8. LifeTypeOK'
  BY <1>2, <1>3, <1>5 DEF LifeInv, LifeTypeOK, Others
<1> QED BY <1>1, <1>7, <1>8, RemoveFrame

(* Remove finds the slot the card is bound to, or one that a Probe which   *)
(* could not map the card left behind, or none.                            *)
LEMMA RemoveFindStep == ASSUME LifeInv, NEW k \in Cards, RemoveFind(k) PROVE LifeInv'
<1> DEFINE found == {t \in Slot : dev[t].base = k}
           i     == Min(found)
<1>0. /\ module = "going" /\ op.step = "idle" /\ IsBound(k) /\ ~Removing /\ ~Probing /\ ~Owning
      /\ dev \in [Place -> Dev] /\ hw \in [Cards -> Hw] /\ k # NoCard
      /\ \A s \in Slot : s \in Place /\ s # Outside
  BY DEF LifeInv, LifeTypeOK, RemoveFind, At, Removing, Probing, Owning, Slot, Place, Outside
<1>1. PICK b \in Place : <<k, b>> \in bound
  BY <1>0 DEF IsBound
<1>2. (b \in Slot => BoundOK(k, b)) /\ (b \in Slot \/ b = Outside) /\ FrontOK(k)
  BY DEF LifeInv, CardInv, Place
<1>3. found # {} => i \in Slot /\ dev[i].base = k
  BY MinSlot
<1>5. UNCHANGED <<module, dev, region, isr, user, failed, overflow, overlapped, dangling>>
  BY DEF RemoveFind
<1>6. \A u \in Users : user[u].at = "out"
  BY <1>0 DEF LifeInv, OpenInv, UserOK
<1>7. OpenInv'
  <2>1. ASSUME NEW s \in Place, s \notin overlapped PROVE ~dev'[s].isOpen
    BY <1>5, <1>6, <2>1 DEF LifeInv, OpenInv, OpenOK
  <2> QED BY <1>5, <1>6, <2>1, NoUsers
<1>8. CASE /\ found # {} /\ dev[i].reg /\ op' = [step |-> "free", card |-> k, slot |-> i]
           /\ hw' = [hw EXCEPT ![k].en = FALSE] /\ bound' = bound
           /\ overrun' = IF hw[k].active \/ isr[i] \in {"work", "enable"} THEN overrun \cup {k} ELSE overrun
  <2>a. i \in Slot /\ dev[i].base = k /\ dev[i].reg
    BY <1>3, <1>8
  <2> HIDE DEF i, found
  <2>b. b = i
    BY <1>1, <1>2, <2>a DEF BoundOK, FrontOK
  <2>1. op' \in Op /\ op'.step = "free" /\ op'.card = k /\ op'.slot = i /\ Removing' /\ ~Probing' /\ ~Owning'
    BY <1>0, <1>8, <2>a DEF Op, Removing, Probing, Owning
  <2>2. hw' \in [Cards -> Hw] /\ hw'[k].en = FALSE /\ hw'[k].active = hw[k].active
    BY <1>0, <1>8 DEF Hw
  <2>3. \A c \in Cards : c # k => hw'[c] = hw[c]
    BY <1>0, <1>8
  <2>4. LifeTypeOK' /\ ProbeOK' /\ RemoveOK'
    <3>1. LifeTypeOK'
      BY <1>5, <1>8, <2>1, <2>2 DEF LifeInv, LifeTypeOK
    <3>2. ProbeOK'
      BY <2>1 DEF ProbeOK
    <3>3. RemoveOK'
      BY <1>0, <1>1, <1>5, <1>8, <2>1, <2>a, <2>b DEF RemoveOK
    <3> QED BY <3>1, <3>2, <3>3
  <2>5. ASSUME NEW s \in Slot PROVE SlotOK(s)' /\ RegionOK(s)'
    <3>1. SlotOK(s) /\ RegionOK(s)
      BY DEF LifeInv, SlotInv
    <3> QED BY <1>0, <1>5, <1>8, <2>1, <3>1 DEF SlotOK, RegionOK
  <2>6. OutsideOK'
    BY <1>0, <1>5, <1>8, <2>1 DEF LifeInv, SlotInv, OutsideOK, Alive
  <2>7. /\ \A c : c # k /\ Serving(c) => Serving(c)'
        /\ \A c : Stray(c) => c # k /\ Stray(c)'
    BY <1>0, <1>5, <1>8, <2>1 DEF Serving, Stray, IsBound
  <2>8. ASSUME NEW s \in Place PROVE HandleOK(s)'
    <3> SUFFICES ASSUME isr[s] \in {"work", "enable"} PROVE Served(s)'
      BY <1>5 DEF HandleOK
    <3>1. Served(s) /\ (s \in Slot \/ s = Outside) /\ (s \in Slot => SlotOK(s))
      BY DEF LifeInv, SlotInv, HandleOK, Place
    <3>2. CASE dev[s].base # k
      BY <1>5, <2>7, <3>1, <3>2 DEF Served
    <3>3. CASE dev[s].base = k
      <4>1. s \in Slot
        BY <1>1, <2>a, <2>b, <3>1, <3>3 DEF LifeInv, FullOK
      <4>2. s = i
        BY <1>1, <1>2, <2>a, <2>b, <3>1, <3>3, <4>1 DEF SlotOK, BoundOK
      <4>3. k \in overrun'
        BY <1>8, <4>2
      <4> QED BY <1>5, <3>3, <4>3 DEF Served, Serving
    <3> QED BY <3>2, <3>3
  <2>9. ASSUME NEW c \in Cards PROVE HeldOK(c)' /\ RaiseOK(c)' /\ FrontOK(c)'
    <3>1. HeldOK(c) /\ RaiseOK(c) /\ FrontOK(c)
      BY DEF LifeInv, CardInv
    <3>2. HeldOK(c)'
      BY <1>0, <1>5, <1>8, <3>1 DEF HeldOK, IsBound
    <3>3. FrontOK(c)'
      BY <1>5, <1>8, <3>1 DEF FrontOK
    <3>4. CASE c = k
      BY <1>8, <2>2, <3>2, <3>3, <3>4 DEF RaiseOK, Serving
    <3>5. CASE c # k
      BY <2>3, <2>7, <3>1, <3>2, <3>3, <3>5 DEF RaiseOK
    <3> QED BY <3>4, <3>5
  <2>10. ASSUME NEW c \in Cards, NEW s \in Slot PROVE BoundOK(c, s)'
    BY <1>0, <1>5, <1>8 DEF LifeInv, CardInv, BoundOK, Alive
  <2>11. FullOK'
    BY <1>0, <1>5, <1>8, <2>1 DEF LifeInv, FullOK
  <2> QED BY <1>5, <1>7, <2>4, <2>5, <2>6, <2>8, <2>9, <2>10, <2>11 DEF LifeInv, SlotInv, CardInv
<1>9. CASE \/ found = {} /\ bound' = {p \in bound : p[1] # k} /\ UNCHANGED <<op, hw, overrun>>
           \/ /\ found # {} /\ ~dev[i].reg /\ op' = [step |-> "oops", card |-> k, slot |-> i]
              /\ UNCHANGED <<bound, hw, overrun>>
  <2>1. /\ op' \in Op /\ op'.step \in {"idle", "oops"} /\ ~Removing' /\ ~Probing' /\ ~Owning'
        /\ op'.step = "oops" => op'.card = k /\ bound' = bound /\ found # {} /\ ~dev[i].reg
        /\ op'.step = "idle" => found = {}
        /\ UNCHANGED <<hw, overrun>>
    <3>1. CASE found = {} /\ UNCHANGED <<op, hw, overrun>>
      BY <1>0, <3>1 DEF LifeInv, LifeTypeOK, Removing, Probing, Owning
    <3>2. CASE /\ found # {} /\ ~dev[i].reg /\ op' = [step |-> "oops", card |-> k, slot |-> i]
               /\ UNCHANGED <<bound, hw, overrun>>
      <4>1. i \in Slot /\ i \in Place
        BY <1>0, <1>3, <3>2
      <4> HIDE DEF i, found
      <4> QED BY <3>2, <4>1 DEF Op, Removing, Probing, Owning
    <3> QED BY <1>9, <3>1, <3>2
  <2>2. op'.step = "oops" => k \in failed
    <3> SUFFICES ASSUME op'.step = "oops" PROVE k \in failed
      OBVIOUS
    <3>1. i \in Slot /\ dev[i].base = k /\ ~dev[i].reg
      BY <1>3, <2>1
    <3> HIDE DEF i, found
    <3>2. SlotOK(i) /\ BoundOK(k, i)
      BY <3>1 DEF LifeInv, SlotInv, CardInv
    <3> QED BY <1>0, <3>1, <3>2 DEF SlotOK, BoundOK
  <2>3. /\ bound' \subseteq bound
        /\ \A c \in Cards : c # k \/ op'.step = "oops" => (IsBound(c)' <=> IsBound(c))
        /\ \A c \in Cards, s \in Place : c # k /\ <<c, s>> \in bound => <<c, s>> \in bound'
    BY <1>9, <2>1 DEF IsBound
  <2>4. op'.step = "idle" => Stray(k)' /\ k \in overflow /\ \A s \in Slot : <<k, s>> \notin bound
    <3> SUFFICES ASSUME op'.step = "idle"
                 PROVE  Stray(k)' /\ k \in overflow /\ \A s \in Slot : <<k, s>> \notin bound
      OBVIOUS
    <3>1. \A t \in Slot : dev[t].base # k
      BY <2>1
    <3>2. \A s \in Slot : <<k, s>> \notin bound
      BY <3>1 DEF LifeInv, CardInv, BoundOK
    <3>3. b = Outside /\ k \in overflow /\ k \in region
      BY <1>1, <1>2, <3>2 DEF FrontOK
    <3>4. bound' = {p \in bound : p[1] # k}
      BY <1>9, <2>1
    <3>5. ~IsBound(k)'
      BY <3>4 DEF IsBound
    <3> QED BY <1>5, <2>1, <3>1, <3>2, <3>3, <3>5 DEF Stray
  <2> HIDE DEF i, found
  <2>5. LifeTypeOK' /\ ProbeOK' /\ RemoveOK'
    <3>1. LifeTypeOK'
      BY <1>5, <2>1, <2>3 DEF LifeInv, LifeTypeOK
    <3>2. ProbeOK' /\ RemoveOK'
      BY <1>0, <1>5, <2>1, <2>2 DEF ProbeOK, RemoveOK
    <3> QED BY <3>1, <3>2
  <2>6. ASSUME NEW s \in Slot PROVE SlotOK(s)' /\ RegionOK(s)'
    <3>1. SlotOK(s) /\ RegionOK(s) /\ dev[s].base \in Cards \cup {NoCard}
      BY <1>0 DEF LifeInv, SlotInv, LifeTypeOK, Dev
    <3>2. <<dev[s].base, s>> \in bound => <<dev[s].base, s>> \in bound'
      <4>1. <<dev[s].base, s>> \in bound => dev[s].base \in Cards
        BY DEF LifeInv, LifeTypeOK
      <4> QED BY <1>0, <1>9, <2>1, <2>3, <2>4, <4>1
    <3> QED BY <1>0, <1>5, <2>1, <3>1, <3>2 DEF SlotOK, RegionOK
  <2>7. OutsideOK'
    BY <1>0, <1>5, <2>1, <2>3 DEF LifeInv, SlotInv, OutsideOK, Alive
  <2>8. \A c \in Cards : (Serving(c) => Serving(c)' \/ Stray(c)') /\ (Stray(c) => Stray(c)')
    <3>1. ASSUME NEW c \in Cards, Stray(c) PROVE Stray(c)'
      BY <1>5, <2>1, <2>3, <3>1, StrayKept
    <3>2. ASSUME NEW c \in Cards, Serving(c) PROVE Serving(c)' \/ Stray(c)'
      BY <2>1, <2>3, <2>4, <3>2 DEF Serving
    <3> QED BY <3>1, <3>2
  <2>9. (\A s \in Place : HandleOK(s)') /\ (\A c \in Cards : RaiseOK(c)')
    BY <1>5, <2>1, <2>6, <2>8, ServedKept
  <2>10. ASSUME NEW c \in Cards PROVE HeldOK(c)' /\ FrontOK(c)'
    <3>1. HeldOK(c) /\ FrontOK(c)
      BY DEF LifeInv, CardInv
    <3>2. HeldOK(c)'
      BY <1>0, <1>5, <2>1, <2>3, <2>4, <3>1 DEF HeldOK
    <3>3. FrontOK(c)'
      BY <1>5, <2>3, <3>1 DEF FrontOK
    <3> QED BY <3>2, <3>3
  <2>11. ASSUME NEW c \in Cards, NEW s \in Slot PROVE BoundOK(c, s)'
    BY <1>0, <1>5, <2>3 DEF LifeInv, CardInv, BoundOK, Alive
  <2>12. FullOK'
    BY <1>0, <1>5, <2>1, <2>3 DEF LifeInv, FullOK
  <2> QED BY <1>5, <1>7, <2>5, <2>6, <2>7, <2>9, <2>10, <2>11, <2>12 DEF LifeInv, SlotInv, CardInv
<1> QED BY <1>5, <1>8, <1>9 DEF RemoveFind

(* The slot is empty again. *)
LEMMA RemoveUnmapStep == ASSUME LifeInv, RemoveUnmap PROVE LifeInv'
<1>0. /\ Removing /\ op.step = "unmap" /\ ~dev[op.slot].irq /\ op.card \notin region
      /\ isr[op.slot] = "idle"
  <2>1. Removing /\ op.step = "unmap"
    BY DEF RemoveUnmap, At, Removing
  <2>2. ~dev[op.slot].irq /\ op.card \notin region /\ SlotOK(op.slot)
    BY <2>1, RemoveFacts DEF RemoveOK, LifeInv, SlotInv
  <2> QED BY <2>1, <2>2 DEF SlotOK
<1>1. /\ dev' \in [Place -> Dev] /\ \A s \in Place \ {op.slot} : dev'[s] = dev[s]
      /\ dev'[op.slot].base = NoCard /\ dev'[op.slot].reg = FALSE /\ dev'[op.slot].cdev = FALSE
      /\ dev'[op.slot].isOpen = dev[op.slot].isOpen /\ dev'[op.slot].irq = dev[op.slot].irq
  BY <1>0, RemoveFacts DEF RemoveUnmap, Dev
<1>2. /\ op' \in Op /\ op'.step = "idle" /\ ~Removing' /\ ~Probing' /\ ~Owning'
      /\ UNCHANGED <<module, hw, region, isr, user, failed, overflow, overrun, overlapped, dangling>>
  BY DEF RemoveUnmap, Idle, hist, Op, Slot, Place, Removing, Probing, Owning
<1>3. /\ bound' \subseteq bound
      /\ \A c \in Cards, s \in Place : <<c, s>> \in bound' <=> (<<c, s>> \in bound /\ c # op.card)
      /\ \A c \in Cards : IsBound(c)' <=> (IsBound(c) /\ c # op.card)
  BY DEF RemoveUnmap, IsBound
<1>a. dev'[Outside] = dev[Outside]
  BY <1>0, <1>1, RemoveFacts
<1>4. LifeTypeOK' /\ ProbeOK' /\ RemoveOK'
  <2>1. LifeTypeOK'
    BY <1>1, <1>2, <1>3 DEF LifeInv, LifeTypeOK
  <2> QED BY <1>2, <2>1 DEF ProbeOK, RemoveOK
<1>5. ASSUME NEW s \in Slot PROVE SlotOK(s)' /\ RegionOK(s)'
  <2>1. SlotOK(s) /\ RegionOK(s)
    BY DEF LifeInv, SlotInv
  <2>2. CASE s = op.slot
    BY <1>0, <1>1, <1>2, <2>1, <2>2, RemoveFacts DEF SlotOK, RegionOK
  <2>3. CASE s # op.slot
    <3>0. /\ dev[s].base \in Cards \cup {NoCard} /\ <<NoCard, s>> \notin bound /\ s \in Place
          /\ dev'[s] = dev[s]
      BY <1>0, <1>1, <2>3, RemoveFacts DEF LifeInv, LifeTypeOK, Dev
    <3>1. SlotOK(s)'
      <4>1. <<dev[s].base, s>> \in bound => dev[s].base # op.card
        BY <2>3, <3>0, RemoveFacts, <1>0 DEF LifeInv, CardInv, BoundOK
      <4> QED BY <1>0, <1>2, <1>3, <2>1, <2>3, <3>0, <4>1, RemoveFacts DEF SlotOK
    <3>2. RegionOK(s)'
      BY <1>0, <1>2, <2>1, <2>3, <3>0, RemoveFacts DEF RegionOK
    <3> QED BY <3>1, <3>2
  <2> QED BY <2>2, <2>3
<1>b. OutsideOK'
  BY <1>0, <1>2, <1>3, <1>a, RemoveFacts DEF LifeInv, SlotInv, OutsideOK, Alive
<1>c. \A c \in Cards : (Serving(c) => Serving(c)') /\ (Stray(c) => Stray(c)')
  <2>1. ASSUME NEW c \in Cards, Stray(c) PROVE Stray(c)'
    <3>1. ASSUME NEW t \in Slot, dev'[t].irq PROVE dev[t].irq /\ dev'[t].base = dev[t].base
      BY <1>0, <1>1, <3>1, RemoveFacts
    <3> QED BY <1>2, <1>3, <2>1, <3>1, StrayKept
  <2>2. ASSUME NEW c \in Cards, Serving(c) PROVE Serving(c)'
    BY <1>0, <1>2, <1>3, <2>2 DEF Serving
  <2> QED BY <2>1, <2>2
<1>d. (\A s \in Place : HandleOK(s)') /\ (\A c \in Cards : RaiseOK(c)')
  BY <1>0, <1>1, <1>2, <1>5, <1>c, ServedKept
<1>6. ASSUME NEW c \in Cards PROVE HeldOK(c)' /\ FrontOK(c)'
  <2>1. HeldOK(c) /\ FrontOK(c)
    BY DEF LifeInv, CardInv
  <2>2. HeldOK(c)'
    BY <1>0, <1>2, <1>3, <2>1, RemoveFacts DEF HeldOK
  <2>3. FrontOK(c)'
    BY <1>0, <1>1, <1>2, <1>3, <2>1, RemoveFacts DEF FrontOK
  <2> QED BY <2>2, <2>3
<1>7. ASSUME NEW c \in Cards, NEW s \in Slot PROVE BoundOK(c, s)'
  BY <1>0, <1>1, <1>2, <1>3, RemoveFacts DEF LifeInv, CardInv, BoundOK, Alive
<1>8. OpenInv'
  <2>1. ASSUME NEW s \in Place, s \notin overlapped PROVE ~dev'[s].isOpen
    BY <1>1, <2>1, RemoveFacts, <1>0 DEF LifeInv, OpenInv, OpenOK
  <2> QED BY <1>0, <1>2, <2>1, RemoveFacts, NoUsers
<1>9. FullOK'
  BY <1>0, <1>2, <1>3, <1>a, RemoveFacts DEF LifeInv, FullOK
<1> QED BY <1>2, <1>4, <1>5, <1>6, <1>7, <1>8, <1>9, <1>b, <1>d DEF LifeInv, SlotInv, CardInv

-----------------------------------------------------------------------------
(* insmod, rmmod, and the end of the module. *)
LEMMA Empty ==
    ASSUME NEW s \in Place, NEW d, d = [t \in Place |-> Cleared]
    PROVE  /\ d \in [Place -> Dev] /\ d[s] = Cleared /\ d[s].base = NoCard /\ ~d[s].reg /\ ~d[s].cdev
           /\ ~d[s].isOpen /\ ~d[s].irq
BY DEF Cleared, Dev

(* insmod clears the slots, *)
LEMMA InitStep == ASSUME LifeInv, PgpCard_Init PROVE LifeInv'
<1>1. /\ module = "out" /\ module' = "live" /\ dev' = [s \in Place |-> Cleared]
      /\ UNCHANGED <<hw, region, bound, op, isr, user, failed, overflow, overrun, overlapped, dangling>>
  BY DEF PgpCard_Init, hist
<1>2. /\ ~Probing /\ ~Removing /\ ~Owning /\ op.step # "oops"
      /\ ~Probing' /\ ~Removing' /\ ~Owning' /\ op'.step # "oops"
  BY <1>1 DEF LifeInv, ProbeOK, RemoveOK, Probing, Removing, Owning
<1>3. \A u \in Users : user[u].at = "out"
  BY <1>1 DEF LifeInv, LifeTypeOK, OpenInv, UserOK
<1>a. Outside \in Place /\ \A s \in Slot : s \in Place
  BY DEF Place
<1>4. \A s \in Place : dev[s] = Cleared /\ isr[s] = "idle"
  <2> SUFFICES ASSUME NEW s \in Place PROVE dev[s] = Cleared /\ isr[s] = "idle"
    OBVIOUS
  <2>1. dev[s] = Cleared /\ (isr[s] # "idle" => dev[s].irq)
    BY <1>1 DEF LifeInv, SlotInv, SlotOK, OutsideOK, Place
  <2> QED BY <2>1 DEF Cleared
<1>5. dev' = dev
  BY <1>1, <1>4 DEF LifeInv, LifeTypeOK
<1>6. /\ \A c \in Cards, s \in Slot : <<c, s>> \notin bound
      /\ \A c \in Cards : <<c, Outside>> \notin bound
  BY <1>1 DEF LifeInv, CardInv, BoundOK, FrontOK
<1>7. LifeTypeOK' /\ ProbeOK' /\ RemoveOK'
  BY <1>1, <1>2, <1>5 DEF LifeInv, LifeTypeOK, ProbeOK, RemoveOK
<1>8. ASSUME NEW s \in Slot PROVE SlotOK(s)' /\ RegionOK(s)'
  BY <1>1, <1>2, <1>4, <1>a, Empty DEF SlotOK, RegionOK
<1>b. OutsideOK'
  <2>1. <<NoCard, Outside>> \notin bound
    BY DEF LifeInv, LifeTypeOK
  <2> QED BY <1>1, <1>2, <1>4, <1>a, <2>1, Empty DEF OutsideOK
<1>c. (\A s \in Place : HandleOK(s)') /\ (\A c \in Cards : RaiseOK(c)')
  <2>1. \A c \in Cards : (Serving(c) => Serving(c)') /\ (Stray(c) => Stray(c)')
    BY <1>1, <1>2, <1>5 DEF Serving, Stray, IsBound
  <2> QED BY <1>1, <1>5, <1>8, <2>1, ServedKept
<1>9. ASSUME NEW c \in Cards PROVE HeldOK(c)' /\ FrontOK(c)'
  BY <1>1, <1>2, <1>6 DEF LifeInv, CardInv, HeldOK, FrontOK, IsBound
<1>10. ASSUME NEW c \in Cards, NEW s \in Slot PROVE BoundOK(c, s)'
  BY <1>1, <1>6 DEF BoundOK
<1>11. OpenInv'
  BY <1>1, <1>3, Empty, NoUsers
<1>12. FullOK'
  BY <1>1, <1>2, <1>6, <1>a, Empty DEF FullOK
<1> QED BY <1>1, <1>7, <1>8, <1>9, <1>10, <1>11, <1>12, <1>b, <1>c DEF LifeInv, SlotInv, CardInv

(* rmmod starts to remove the cards, *)
LEMMA ExitStep == ASSUME LifeInv, PgpCard_Exit PROVE LifeInv'
<1>1. /\ module = "live" /\ op.step = "idle" /\ module' = "going" /\ \A u \in Users : user[u].at = "out"
      /\ UNCHANGED <<dev, hw, region, bound, op, isr, user, failed, overflow, overrun, overlapped, dangling>>
  BY DEF PgpCard_Exit, hist, At
<1>2. ~Probing /\ ~Removing /\ ~Owning /\ ~Probing' /\ ~Removing' /\ ~Owning'
  BY <1>1 DEF Probing, Removing, Owning
<1>3. LifeTypeOK' /\ ProbeOK' /\ RemoveOK'
  BY <1>1, <1>2 DEF LifeInv, LifeTypeOK, ProbeOK, RemoveOK
<1>4. ASSUME NEW s \in Slot PROVE SlotOK(s)' /\ RegionOK(s)'
  BY <1>1, <1>2 DEF LifeInv, SlotInv, SlotOK, RegionOK
<1>5. OutsideOK'
  BY <1>1, <1>2 DEF LifeInv, SlotInv, OutsideOK, Alive
<1>6. (\A s \in Place : HandleOK(s)') /\ (\A c \in Cards : RaiseOK(c)')
  <2>1. \A c \in Cards : (Serving(c) => Serving(c)') /\ (Stray(c) => Stray(c)')
    BY <1>1, <1>2 DEF Serving, Stray, IsBound
  <2> QED BY <1>1, <1>4, <2>1, ServedKept
<1>7. ASSUME NEW c \in Cards PROVE HeldOK(c)' /\ FrontOK(c)'
  BY <1>1, <1>2 DEF LifeInv, CardInv, HeldOK, FrontOK, IsBound
<1>8. ASSUME NEW c \in Cards, NEW s \in Slot PROVE BoundOK(c, s)'
  BY <1>1, <1>2 DEF LifeInv, CardInv, BoundOK, Alive
<1>9. OpenInv'
  BY <1>1 DEF LifeInv, OpenInv, UserOK, OpenOK, Using
<1>10. FullOK'
  BY <1>1, <1>2 DEF LifeInv, FullOK
<1> QED BY <1>1, <1>3, <1>4, <1>5, <1>6, <1>7, <1>8, <1>9, <1>10 DEF LifeInv, SlotInv, CardInv

(* and ends when no card is bound. *)
LEMMA UnloadedStep == ASSUME LifeInv, Unloaded PROVE LifeInv'
<1>1. /\ module = "going" /\ op.step = "idle" /\ bound = {} /\ \A s \in Place : isr[s] = "idle"
      /\ module' = "out" /\ dev' = [s \in Place |-> Cleared]
      /\ UNCHANGED <<hw, region, bound, op, isr, user, failed, overflow, overrun, overlapped>>
  BY DEF Unloaded, At
<1>2. ~Probing /\ ~Removing /\ ~Owning /\ ~Probing' /\ ~Removing' /\ ~Owning'
  BY <1>1 DEF Probing, Removing, Owning
<1>a. Outside \in Place /\ \A s \in Slot : s \in Place
  BY DEF Place
<1>3. dev' \in [Place -> Dev]
  BY <1>1, <1>a, Empty
<1>4. LifeTypeOK' /\ ProbeOK' /\ RemoveOK'
  BY <1>1, <1>2, <1>3 DEF LifeInv, LifeTypeOK, ProbeOK, RemoveOK
<1>5. ASSUME NEW s \in Slot PROVE SlotOK(s)' /\ RegionOK(s)'
  BY <1>1, <1>2, <1>a, Empty DEF SlotOK, RegionOK
<1>b. OutsideOK'
  BY <1>1, <1>2, <1>a, Empty DEF OutsideOK
<1>c. (\A s \in Place : HandleOK(s)') /\ (\A c \in Cards : RaiseOK(c)')
  <2>1. \A c \in Cards : (Serving(c) => Serving(c)') /\ (Stray(c) => Stray(c)')
    BY <1>1, <1>2, <1>a, Empty DEF Serving, Stray, IsBound
  <2> QED BY <1>1, <1>5, <2>1, ServedKept
<1>6. ASSUME NEW c \in Cards PROVE HeldOK(c)' /\ FrontOK(c)'
  BY <1>1, <1>2 DEF LifeInv, CardInv, HeldOK, FrontOK, IsBound
<1>7. ASSUME NEW c \in Cards, NEW s \in Slot PROVE BoundOK(c, s)'
  BY <1>1 DEF BoundOK
<1>8. OpenInv'
  <2>1. \A u \in Users : user[u].at = "out"
    BY <1>1 DEF LifeInv, LifeTypeOK, OpenInv, UserOK
  <2> QED BY <1>1, <2>1, Empty, NoUsers
<1>9. dangling' \subseteq (failed' \cup overflow')
  <2>1. ASSUME NEW s \in Place, dev[s].cdev \/ dev[s].irq \/ dev[s].reg
        PROVE  dev[s].base \in failed \cup overflow
    BY <1>1, <1>2, <2>1 DEF LifeInv, SlotInv, SlotOK, OutsideOK, Place
  <2>2. dangling' = dangling \cup Registered(Place)
    BY DEF Unloaded
  <2>3. Registered(Place) \subseteq (failed \cup overflow)
    BY <2>1 DEF Registered
  <2> QED BY <1>1, <2>2, <2>3 DEF LifeInv
<1>10. FullOK'
  BY <1>1, <1>2, <1>a, Empty DEF FullOK
<1> QED BY <1>4, <1>5, <1>6, <1>7, <1>8, <1>9, <1>10, <1>b, <1>c DEF LifeInv, SlotInv, CardInv

-----------------------------------------------------------------------------
(* The handler and the card change registers and the handler's place only. *)
LEMMA HandlerFrame ==
    ASSUME LifeInv,
           UNCHANGED <<module, dev, region, bound, op, user, failed, overflow, overrun, overlapped, dangling>>,
           isr' \in [Place -> {"idle", "enter", "work", "enable"}], hw' \in [Cards -> Hw],
           \A s \in Place : isr'[s] # "idle" => dev[s].irq,
           \A s \in Place : isr'[s] \in {"work", "enable"} => Served(s),
           \A c \in Cards : hw'[c].en \/ hw'[c].active => Serving(c) \/ Stray(c)
    PROVE  LifeInv'
<1>a. Outside \in Place /\ \A s \in Slot : s \in Place
  BY DEF Place
<1>1. LifeTypeOK' /\ ProbeOK' /\ RemoveOK'
  BY DEF LifeInv, LifeTypeOK, ProbeOK, RemoveOK, Probing, Removing, Owning, IsBound
<1>2. ASSUME NEW s \in Slot PROVE SlotOK(s)' /\ RegionOK(s)'
  BY <1>a DEF LifeInv, SlotInv, SlotOK, RegionOK, Probing
<1>3. OutsideOK'
  BY <1>a DEF LifeInv, SlotInv, OutsideOK, Alive
<1>4. ASSUME NEW c PROVE (Serving(c)' <=> Serving(c)) /\ (Stray(c)' <=> Stray(c))
  BY DEF Serving, Stray, IsBound, Removing, Owning
<1>5. ASSUME NEW s \in Place PROVE HandleOK(s)'
  BY <1>4 DEF HandleOK, Served
<1>6. ASSUME NEW c \in Cards PROVE HeldOK(c)' /\ RaiseOK(c)' /\ FrontOK(c)'
  <2>1. RaiseOK(c)'
    BY <1>4 DEF RaiseOK
  <2> QED BY <2>1 DEF LifeInv, CardInv, HeldOK, FrontOK, IsBound, Probing
<1>7. ASSUME NEW c \in Cards, NEW s \in Slot PROVE BoundOK(c, s)'
  BY DEF LifeInv, CardInv, BoundOK, Alive, Removing
<1>8. OpenInv'
  BY DEF LifeInv, OpenInv, UserOK, OpenOK, Using
<1>9. FullOK'
  BY DEF LifeInv, FullOK, Probing
<1> QED BY <1>1, <1>2, <1>3, <1>5, <1>6, <1>7, <1>8, <1>9 DEF LifeInv, SlotInv, CardInv

(* What a step of the handler knows when it starts: its card is served.    *)
LEMMA HandlerFacts ==
    ASSUME LifeInv
    PROVE  /\ isr \in [Place -> {"idle", "enter", "work", "enable"}] /\ hw \in [Cards -> Hw]
           /\ \A s \in Place : isr[s] # "idle" => dev[s].irq /\ dev[s].base \in Cards
           /\ \A s \in Place : isr[s] \in {"work", "enable"} => Served(s)
           /\ \A c \in Cards : hw[c].en \/ hw[c].active => Serving(c) \/ Stray(c)
<1>1. \A s \in Place : dev[s].base \in Cards \cup {NoCard}
  BY DEF LifeInv, LifeTypeOK, Dev
<1>2. \A s \in Place : isr[s] # "idle" => dev[s].irq /\ dev[s].base \in Cards
  BY <1>1 DEF LifeInv, SlotInv, SlotOK, OutsideOK, Place
<1> QED BY <1>2 DEF LifeInv, LifeTypeOK, SlotInv, HandleOK, CardInv, RaiseOK

(* A step of the handler on any slot, or in front of the array. *)
LEMMA HandlerStep == ASSUME LifeInv, NEW i \in Place, PgpCard_IRQHandler(i) PROVE LifeInv'
<1>0. UNCHANGED <<module, dev, region, bound, op, user, failed, overflow, overrun, overlapped, dangling>>
  BY DEF PgpCard_IRQHandler, IrqCall, IrqStatus, IrqWork, IrqEnable, hist
<1>1. CASE IrqCall(i)
  BY <1>0, <1>1, HandlerFacts, HandlerFrame DEF IrqCall
<1>2. CASE IrqStatus(i)
  <2>1. CASE /\ hw[dev[i].base].active /\ isr' = [isr EXCEPT ![i] = "work"]
             /\ hw' = [hw EXCEPT ![dev[i].base].en = FALSE]
    <3>1. dev[i].irq /\ dev[i].base \in Cards /\ Served(i)
      <4>1. dev[i].irq /\ dev[i].base \in Cards
        BY <1>2, HandlerFacts DEF IrqStatus
      <4>2. Serving(dev[i].base) \/ Stray(dev[i].base)
        BY <2>1, <4>1, HandlerFacts
      <4> QED BY <4>1, <4>2 DEF Served, Stray, Place
    <3>2. isr' \in [Place -> {"idle", "enter", "work", "enable"}] /\ \A s \in Place \ {i} : isr'[s] = isr[s]
      BY <2>1, HandlerFacts
    <3>3. hw' \in [Cards -> Hw] /\ \A c \in Cards : (hw'[c].en => hw[c].en) /\ hw'[c].active = hw[c].active
      BY <2>1, <3>1, HandlerFacts DEF Hw
    <3> QED BY <1>0, <3>1, <3>2, <3>3, HandlerFacts, HandlerFrame
  <2>2. CASE isr' = [isr EXCEPT ![i] = "idle"] /\ UNCHANGED hw
    BY <1>0, <2>2, HandlerFacts, HandlerFrame
  <2> QED BY <1>2, <2>1, <2>2 DEF IrqStatus
<1>3. CASE IrqWork(i)
  <2>1. dev[i].irq /\ dev[i].base \in Cards /\ Served(i)
    BY <1>3, HandlerFacts DEF IrqWork
  <2>2. isr' \in [Place -> {"idle", "enter", "work", "enable"}] /\ \A s \in Place \ {i} : isr'[s] = isr[s]
    BY <1>3, HandlerFacts DEF IrqWork
  <2>3. hw' \in [Cards -> Hw] /\ \A c \in Cards : hw'[c].en = hw[c].en /\ hw'[c].active = hw[c].active
    <3> DEFINE c == dev[i].base
               new == [hw[c] EXCEPT !.req = FALSE]
    <3>1. hw \in [Cards -> Hw] /\ c \in Cards
      BY <2>1, HandlerFacts
    <3>2. hw' = [hw EXCEPT ![c] = new]
      BY <1>3 DEF IrqWork
    <3>3. hw[c] \in Hw /\ new \in Hw /\ new.en = hw[c].en /\ new.active = hw[c].active
      BY <3>1 DEF Hw
    <3> HIDE DEF c, new
    <3> QED BY <3>1, <3>2, <3>3, PutHw
  <2> QED BY <1>0, <2>1, <2>2, <2>3, HandlerFacts, HandlerFrame
<1>4. CASE IrqEnable(i)
  <2>1. dev[i].base \in Cards /\ (Serving(dev[i].base) \/ Stray(dev[i].base))
    BY <1>4, HandlerFacts DEF IrqEnable, Served
  <2>2. /\ isr' \in [Place -> {"idle", "enter", "work", "enable"}]
        /\ isr'[i] = "idle" /\ \A s \in Place \ {i} : isr'[s] = isr[s]
    BY <1>4, HandlerFacts DEF IrqEnable
  <2>3. /\ hw' \in [Cards -> Hw]
        /\ \A c \in Cards : c # dev[i].base => hw'[c] = hw[c]
    BY <1>4, <2>1, HandlerFacts DEF IrqEnable, Hw
  <2> QED BY <1>0, <2>1, <2>2, <2>3, HandlerFacts, HandlerFrame
<1> QED BY <1>1, <1>2, <1>3, <1>4 DEF PgpCard_IRQHandler

(* The card; a write, which changes the card only. *)
LEMMA CardStep ==
    ASSUME LifeInv, (\E c \in Cards : Done(c) \/ Interrupt(c)) \/ (\E u \in Users : Send(u))
    PROVE  LifeInv'
<1>0. UNCHANGED <<module, dev, region, bound, op, isr, user, failed, overflow, overrun, overlapped, dangling>>
  BY DEF Done, Interrupt, Send, hist
<1>1. hw' \in [Cards -> Hw] /\ \A c \in Cards : hw'[c].en = hw[c].en /\ (hw'[c].active => hw[c].active \/ hw[c].en)
  <2>1. ASSUME NEW k \in Cards, Done(k)
        PROVE  hw' \in [Cards -> Hw] /\ \A c \in Cards : hw'[c].en = hw[c].en /\ hw'[c].active = hw[c].active
    <3>0. hw \in [Cards -> Hw] /\ hw[k] \in Hw
      <4>1. hw \in [Cards -> Hw]
        BY HandlerFacts
      <4> QED BY <4>1
    <3> DEFINE one == [hw[k] EXCEPT !.req = TRUE]
               two == [hw[k] EXCEPT !.req = TRUE, !.sent = FALSE]
    <3>1. CASE hw' = [hw EXCEPT ![k].req = TRUE]
      <4>1. hw' = [hw EXCEPT ![k] = one]
        BY <3>1
      <4>2. one \in Hw /\ one.en = hw[k].en /\ one.active = hw[k].active
        BY <3>0 DEF Hw
      <4> QED BY <3>0, <4>1, <4>2, PutHw
    <3>2. CASE hw' = [hw EXCEPT ![k].req = TRUE, ![k].sent = FALSE]
      <4>1. hw' = [hw EXCEPT ![k] = two]
        BY <3>0, <3>2
      <4>2. two \in Hw /\ two.en = hw[k].en /\ two.active = hw[k].active
        BY <3>0 DEF Hw
      <4> QED BY <3>0, <4>1, <4>2, PutHw
    <3> QED BY <2>1, <3>1, <3>2 DEF Done
  <2>2. ASSUME NEW k \in Cards, Interrupt(k)
        PROVE  /\ hw' \in [Cards -> Hw]
               /\ \A c \in Cards : hw'[c].en = hw[c].en /\ (hw'[c].active => hw[c].active \/ hw[c].en)
    BY <2>2, HandlerFacts DEF Interrupt, Hw
  <2>3. ASSUME NEW u \in Users, Send(u)
        PROVE  hw' \in [Cards -> Hw] /\ \A c \in Cards : hw'[c].en = hw[c].en /\ hw'[c].active = hw[c].active
    <3> DEFINE b == dev[user[u].slot].base
    <3>1. hw' = [hw EXCEPT ![b].sent = TRUE]
      BY <2>3 DEF Send
    <3> HIDE DEF b
    <3>2. CASE b \in Cards
      BY <3>1, <3>2, HandlerFacts DEF Hw
    <3>3. CASE b \notin Cards
      BY <3>1, <3>3, HandlerFacts
    <3> QED BY <3>2, <3>3
  <2> QED BY <2>1, <2>2, <2>3
<1> QED BY <1>0, <1>1, HandlerFacts, HandlerFrame

-----------------------------------------------------------------------------
(* open() and close() change users and open flags only. *)
LEMMA UserFrame ==
    ASSUME LifeInv, OpenInv', dev' \in [Place -> Dev], user' \in [Users -> User], module = "live",
           UNCHANGED <<module, hw, region, bound, op, isr, failed, overflow, overrun, dangling>>,
           \A s \in Place : /\ dev'[s].base = dev[s].base /\ dev'[s].reg = dev[s].reg
                            /\ dev'[s].cdev = dev[s].cdev /\ dev'[s].irq = dev[s].irq
                            /\ dev'[s].tx = dev[s].tx /\ dev'[s].rx = dev[s].rx
    PROVE  LifeInv'
<1>0. op.slot \in Place /\ Outside \in Place /\ \A s \in Slot : s \in Place
  BY DEF LifeInv, LifeTypeOK, Op, Place
<1>1. LifeTypeOK'
  BY DEF LifeInv, LifeTypeOK
<1>2. ProbeOK' /\ RemoveOK'
  <2>1. ProbeOK'
    BY <1>0 DEF LifeInv, ProbeOK, Probing, Owning, IsBound
  <2>2. RemoveOK'
    BY <1>0 DEF LifeInv, RemoveOK, Removing
  <2> QED BY <2>1, <2>2
<1>3. ASSUME NEW s \in Slot PROVE SlotOK(s)' /\ RegionOK(s)'
  <2>1. SlotOK(s)'
    BY <1>0 DEF LifeInv, SlotInv, SlotOK, Probing
  <2>2. RegionOK(s)'
    BY <1>0 DEF LifeInv, SlotInv, RegionOK
  <2> QED BY <2>1, <2>2
<1>a. OutsideOK'
  BY <1>0 DEF LifeInv, SlotInv, OutsideOK, Alive
<1>b. (\A s \in Place : HandleOK(s)') /\ (\A c \in Cards : RaiseOK(c)')
  <2>1. \A c \in Cards : (Serving(c) => Serving(c)') /\ (Stray(c) => Stray(c)')
    BY <1>0 DEF Serving, Stray, IsBound, Removing, Owning
  <2> QED BY <1>3, <2>1, ServedKept
<1>4. ASSUME NEW c \in Cards PROVE HeldOK(c)' /\ FrontOK(c)'
  BY <1>0 DEF LifeInv, CardInv, HeldOK, FrontOK, IsBound, Probing
<1>5. ASSUME NEW c \in Cards, NEW s \in Slot PROVE BoundOK(c, s)'
  BY <1>0 DEF LifeInv, CardInv, BoundOK, Alive, Removing
<1>6. FullOK'
  BY <1>0 DEF LifeInv, FullOK, Probing
<1> QED BY <1>1, <1>2, <1>3, <1>4, <1>5, <1>6, <1>a, <1>b DEF LifeInv, SlotInv, CardInv

(* The test passes: nobody has the slot open, or two users opened it in    *)
(* the same moment; who else is between test and set is recorded.          *)
LEMMA OpenTestStep == ASSUME LifeInv, NEW w \in Users, NEW i \in Place, OpenTest(w, i) PROVE LifeInv'
<1> DEFINE r == [at |-> "tested", slot |-> i, ready |-> <<dev[i].base, i>> \in bound]
<1>0. /\ module = "live" /\ user[w].at = "out" /\ dev[i].cdev /\ ~dev[i].isOpen
      /\ user \in [Users -> User] /\ dev \in [Place -> Dev] /\ user' = [user EXCEPT ![w] = r]
      /\ UNCHANGED <<module, dev, hw, region, bound, op, isr, failed, overflow, overrun, dangling>>
      /\ overlapped' = IF \E v \in Users : user[v].at = "tested" /\ user[v].slot = i
                       THEN overlapped \cup {i} ELSE overlapped
  BY DEF OpenTest, LifeInv, LifeTypeOK
<1>1. r.at = "tested" /\ r.slot = i /\ r \in User /\ (r.ready <=> <<dev[i].base, i>> \in bound)
  <2> DEFINE q == <<dev[i].base, i>> \in bound
  <2>1. q \in BOOLEAN
    OBVIOUS
  <2>2. r = [at |-> "tested", slot |-> i, ready |-> q]
    OBVIOUS
  <2> HIDE DEF q, r
  <2>3. r \in User /\ r.at = "tested" /\ r.slot = i /\ r.ready = q
    BY <2>1, <2>2 DEF User
  <2> QED BY <2>3 DEF q
<1> HIDE DEF r
<1>2. user' \in [Users -> User] /\ user'[w] = r /\ \A u \in Users \ {w} : user'[u] = user[u]
  BY <1>0, <1>1
<1>3. ASSUME NEW u \in Users PROVE UserOK(u)'
  <2>1. CASE u = w
    BY <1>0, <1>1, <1>2, <2>1 DEF UserOK
  <2>2. CASE u # w
    BY <1>0, <1>2, <2>2 DEF LifeInv, OpenInv, UserOK
  <2> QED BY <2>1, <2>2
<1>4. ASSUME NEW s \in Place PROVE OpenOK(s)'
  <2> SUFFICES ASSUME s \notin overlapped' PROVE OpenOK(s)'
    BY DEF OpenOK
  <2>1. OpenOK(s) /\ s \notin overlapped
    BY <1>0 DEF LifeInv, OpenInv
  <2>2. CASE s = i
    <3>1. \A v \in Users : user[v].at # "tested" \/ user[v].slot # i
      BY <1>0, <2>2
    <3>2. \A v \in Users : ~Using(v, i)
      BY <1>0, <2>1, <2>2, <3>1 DEF OpenOK, Using, User
    <3> QED BY <1>0, <1>1, <1>2, <2>2, <3>2 DEF OpenOK, Using
  <2>3. CASE s # i
    BY <1>0, <1>1, <1>2, <2>1, <2>3 DEF OpenOK, Using
  <2> QED BY <2>2, <2>3
<1> QED BY <1>0, <1>2, <1>3, <1>4, UserFrame DEF OpenInv

(* The assignment in PgpCard_Open. *)
LEMMA OpenSetStep == ASSUME LifeInv, NEW w \in Users, OpenSet(w) PROVE LifeInv'
<1> DEFINE i == user[w].slot
<1>0. /\ user[w].at = "tested" /\ user' = [user EXCEPT ![w].at = "open"]
      /\ dev' = [dev EXCEPT ![i].isOpen = TRUE] /\ module = "live"
      /\ user \in [Users -> User] /\ dev \in [Place -> Dev] /\ i \in Place
      /\ UNCHANGED <<module, hw, region, bound, op, isr, failed, overflow, overrun, dangling, overlapped>>
  BY DEF OpenSet, LifeInv, LifeTypeOK, User, hist, OpenInv, UserOK
<1>1. /\ user' \in [Users -> User] /\ user'[w].at = "open" /\ user'[w].slot = i /\ user'[w].ready = user[w].ready
      /\ \A u \in Users \ {w} : user'[u] = user[u]
  BY <1>0 DEF User
<1> HIDE DEF i
<1>2. /\ dev' \in [Place -> Dev] /\ dev'[i].isOpen = TRUE /\ \A s \in Place \ {i} : dev'[s] = dev[s]
      /\ \A s \in Place : /\ dev'[s].base = dev[s].base /\ dev'[s].reg = dev[s].reg
                          /\ dev'[s].cdev = dev[s].cdev /\ dev'[s].irq = dev[s].irq
                          /\ dev'[s].tx = dev[s].tx /\ dev'[s].rx = dev[s].rx
  BY <1>0 DEF Dev
<1>3. ASSUME NEW u \in Users PROVE UserOK(u)'
  <2>1. UserOK(u) /\ user[u].slot \in Place /\ user'[u].slot = user[u].slot /\ user'[u].ready = user[u].ready
    BY <1>0, <1>1 DEF LifeInv, OpenInv, User, i
  <2>2. user'[u].at # "out" => user[u].at # "out"
    BY <1>0, <1>1
  <2> QED BY <1>0, <1>2, <2>1, <2>2 DEF UserOK
<1>4. ASSUME NEW s \in Place PROVE OpenOK(s)'
  <2>1. OpenOK(s) /\ \A u \in Users : Using(u, s)' <=> Using(u, s)
    BY <1>0, <1>1 DEF LifeInv, OpenInv, Using, i
  <2>2. CASE s = i
    BY <1>0, <1>1, <1>2, <2>1, <2>2 DEF OpenOK
  <2>3. CASE s # i
    BY <1>0, <1>1, <1>2, <2>1, <2>3 DEF OpenOK, i
  <2> QED BY <2>2, <2>3
<1> QED BY <1>0, <1>1, <1>2, <1>3, <1>4, UserFrame DEF OpenInv

(* PgpCard_Release. *)
LEMMA ReleaseStep == ASSUME LifeInv, NEW w \in Users, PgpCard_Release(w) PROVE LifeInv'
<1> DEFINE i == user[w].slot
<1>0. /\ user[w].at = "open" /\ user' = [user EXCEPT ![w] = Closed]
      /\ dev' = [dev EXCEPT ![i].isOpen = FALSE] /\ module = "live"
      /\ user \in [Users -> User] /\ dev \in [Place -> Dev] /\ i \in Place
      /\ UNCHANGED <<module, hw, region, bound, op, isr, failed, overflow, overrun, dangling>>
      /\ overlapped' = IF \E v \in Users \ {w} : user[v].at # "out" /\ user[v].slot = i
                       THEN overlapped ELSE overlapped \ {i}
  BY DEF PgpCard_Release, LifeInv, LifeTypeOK, User, OpenInv, UserOK
<1>1. /\ user' \in [Users -> User] /\ user'[w].at = "out"
      /\ \A u \in Users \ {w} : user'[u] = user[u]
  BY <1>0 DEF User, Closed, Slot, Place
<1> HIDE DEF i
<1>2. /\ dev' \in [Place -> Dev] /\ dev'[i].isOpen = FALSE /\ \A s \in Place \ {i} : dev'[s] = dev[s]
      /\ \A s \in Place : /\ dev'[s].base = dev[s].base /\ dev'[s].reg = dev[s].reg
                          /\ dev'[s].cdev = dev[s].cdev /\ dev'[s].irq = dev[s].irq
                          /\ dev'[s].tx = dev[s].tx /\ dev'[s].rx = dev[s].rx
  BY <1>0 DEF Dev
<1>3. ASSUME NEW u \in Users PROVE UserOK(u)'
  <2>1. UserOK(u) /\ user[u].slot \in Place
    BY <1>0 DEF LifeInv, OpenInv, User
  <2> QED BY <1>0, <1>1, <1>2, <2>1 DEF UserOK
<1>4. ASSUME NEW s \in Place PROVE OpenOK(s)'
  <2>1. OpenOK(s)
    BY DEF LifeInv, OpenInv
  <2>2. CASE s = i
    <3> SUFFICES ASSUME s \notin overlapped' PROVE OpenOK(s)'
      BY DEF OpenOK
    <3>1. ASSUME NEW v \in Users \ {w}, Using(v, s) PROVE FALSE
      <4>1. s \notin overlapped
        BY <1>0, <2>2, <3>1 DEF Using
      <4>2. Using(w, s)
        BY <1>0, <2>2 DEF Using, i
      <4> QED BY <2>1, <3>1, <4>1, <4>2 DEF OpenOK
    <3>2. \A v \in Users : ~Using(v, s)' /\ ~(user'[v].at = "open" /\ user'[v].slot = s)
      BY <1>1, <3>1 DEF Using
    <3> QED BY <1>2, <2>2, <3>2 DEF OpenOK
  <2>3. CASE s # i
    BY <1>0, <1>1, <1>2, <2>1, <2>3 DEF OpenOK, Using, i
  <2> QED BY <2>2, <2>3
<1> QED BY <1>0, <1>1, <1>2, <1>3, <1>4, UserFrame DEF OpenInv

-----------------------------------------------------------------------------
(* LifeInv holds at first, *)
LEMMA LifeInitInv == Init => LifeInv
<1> SUFFICES ASSUME Init PROVE LifeInv
  OBVIOUS
<1>1. ~Probing /\ ~Removing /\ ~Owning /\ op.step = "idle" /\ op \in Op
  BY DEF Init, Idle, Probing, Removing, Owning, Op, Slot, Place
<1>a. Outside \in Place /\ \A s \in Slot : s \in Place
  BY DEF Place
<1>2. LifeTypeOK /\ ProbeOK /\ RemoveOK
  <2>1. dev \in [Place -> Dev] /\ hw \in [Cards -> Hw]
    BY DEF Init, Cleared, Dev, Hw
  <2>2. user \in [Users -> User] /\ isr \in [Place -> {"idle", "enter", "work", "enable"}]
    BY DEF Init, Closed, User, Slot, Place
  <2>3. LifeTypeOK
    BY <1>1, <2>1, <2>2 DEF LifeTypeOK, Init
  <2> QED BY <1>1, <2>3 DEF ProbeOK, RemoveOK
<1>3. SlotInv
  <2>1. ASSUME NEW s \in Place PROVE dev[s] = Cleared /\ isr[s] = "idle"
    BY DEF Init
  <2>2. OutsideOK
    BY <1>1, <1>a, Empty DEF Init, OutsideOK
  <2>3. ASSUME NEW s \in Slot PROVE SlotOK(s) /\ RegionOK(s)
    BY <1>1, <1>a, Empty DEF Init, SlotOK, RegionOK
  <2> QED BY <2>1, <2>2, <2>3 DEF SlotInv, HandleOK
<1>4. CardInv
  BY DEF Init, CardInv, HeldOK, RaiseOK, FrontOK, BoundOK
<1>5. OpenInv
  BY Empty DEF Init, OpenInv, UserOK, OpenOK, Using, Closed
<1>6. FullOK
  BY <1>1 DEF Init, FullOK
<1> QED BY <1>2, <1>3, <1>4, <1>5, <1>6 DEF LifeInv, Init

(* and every step keeps it. *)
LEMMA LifeNextInv == LifeInv /\ [Next]_vars => LifeInv'
<1> SUFFICES ASSUME LifeInv, [Next]_vars PROVE LifeInv'
  OBVIOUS
<1>1. CASE Probe
  BY <1>1, ProbeFindStep, ProbeCdevStep, ProbeMapStep, ProbeRegionStep, ProbeIrqStep, ProbeTxStep,
     ProbeRxStep, ProbeEnableStep DEF Probe
<1>2. CASE Remove
  BY <1>2, RemoveFindStep, RemoveFreeStep, RemoveResetStep, RemoveIrqStep, RemoveUnmapStep DEF Remove
<1>3. CASE UNCHANGED vars
  BY <1>3, HandlerFacts, HandlerFrame DEF vars
<1> QED
  BY <1>1, <1>2, <1>3, InitStep, ExitStep, UnloadedStep, HandlerStep, CardStep, OpenTestStep, OpenSetStep,
     ReleaseStep DEF Next

(* What Probe, Remove, the handler and the users may assume of each other  *)
(* holds in every reachable state, for any number of cards, slots, loads   *)
(* and failures.                                                           *)
THEOREM LifeSafe == Spec => []LifeInv
BY LifeInitInv, LifeNextInv, PTL DEF Spec

(* The handler runs only while the registers of its card are mapped and    *)
(* its slot has a card: Probe maps before request_irq, and Remove unmaps   *)
(* after free_irq, for any number of cards and slots.  It holds in front of*)
(* the array as well while the card there is bound.                        *)
THEOREM LifeRegistersMapped == Spec => []RegistersMapped
<1>1. ASSUME LifeInv PROVE RegistersMapped
  <2> SUFFICES ASSUME NEW s \in Place, isr[s] # "idle", ~Unowned(s)
               PROVE  dev[s].reg /\ dev[s].base # NoCard
    BY DEF RegistersMapped
  <2>1. CASE s \in Slot
    BY <1>1, <2>1 DEF LifeInv, SlotInv, SlotOK
  <2>2. CASE s = Outside
    BY <1>1, <2>2 DEF LifeInv, SlotInv, OutsideOK, Unowned
  <2> QED BY <2>1, <2>2 DEF Place
<1> QED BY <1>1, LifeSafe, PTL

(* The handler and the callers use the queues only while they exist,       *)
(* unless Remove ran, or another card took the place in front of the array,*)
(* while an interrupt of the card was pending or being handled, for any    *)
(* number of cards, slots and users.                                       *)
THEOREM LifeBuffersAlive == Spec => []BuffersAlive
<1>1. ASSUME LifeInv PROVE BuffersAlive
  <2>0. ASSUME ~Unowned(Outside) PROVE Alive(Outside)
    BY <1>1, <2>0 DEF LifeInv, SlotInv, OutsideOK, Unowned
  <2>1. ASSUME NEW s \in Place, isr[s] = "work", ~Unowned(s), dev[s].base \notin overrun PROVE Alive(s)
    <3>1. CASE s = Outside
      BY <2>0, <2>1, <3>1
    <3>2. CASE s \in Slot
      <4>1. dev[s].irq /\ dev[s].reg /\ dev[s].base \in Cards /\ Served(s) /\ s # Outside
        <5>1. dev[s].irq /\ dev[s].base \in Cards /\ Served(s)
          BY <1>1, <2>1, HandlerFacts
        <5>2. dev[s].irq => dev[s].reg
          BY <1>1, <3>2 DEF LifeInv, SlotInv, SlotOK
        <5> QED BY <3>2, <5>1, <5>2 DEF Slot, Outside
      <4>2. IsBound(dev[s].base) /\ ~(Removing /\ op.card = dev[s].base)
        BY <2>1, <4>1 DEF Served, Serving
      <4>3. PICK t \in Place : <<dev[s].base, t>> \in bound
        BY <4>2 DEF IsBound
      <4>4. t # Outside
        BY <1>1, <3>2, <4>1, <4>3 DEF LifeInv, CardInv, FrontOK
      <4>5. BoundOK(dev[s].base, t)
        BY <1>1, <4>1, <4>4 DEF LifeInv, CardInv, Place
      <4> QED BY <3>2, <4>1, <4>2, <4>3, <4>5 DEF BoundOK
    <3> QED BY <3>1, <3>2 DEF Place
  <2>2. ASSUME NEW u \in Users, user[u].at # "out", user[u].ready, ~Unowned(user[u].slot)
        PROVE  Alive(user[u].slot)
    <3>1. UserOK(u) /\ user[u].slot \in Place
      BY <1>1 DEF LifeInv, OpenInv, LifeTypeOK, User
    <3>2. CASE user[u].slot = Outside
      BY <2>0, <2>2, <3>2
    <3>3. CASE user[u].slot \in Slot
      <4> DEFINE s == user[u].slot
      <4>1. module = "live" /\ <<dev[s].base, s>> \in bound
        BY <2>2, <3>1, <3>3 DEF UserOK
      <4>2. dev[s].base \in Cards /\ ~Removing
        BY <1>1, <4>1 DEF LifeInv, LifeTypeOK, RemoveOK
      <4>3. BoundOK(dev[s].base, s)
        BY <1>1, <3>3, <4>2 DEF LifeInv, CardInv
      <4> QED BY <4>1, <4>2, <4>3 DEF BoundOK
    <3> QED BY <3>1, <3>2, <3>3 DEF Place
  <2> QED BY <2>1, <2>2 DEF BuffersAlive, Alive
<1> QED BY <1>1, LifeSafe, PTL

(* What an unloaded module leaves behind belongs to a card for which Probe *)
(* failed or found no slot, and only the Remove of a card whose Probe has  *)
(* failed uses a null register pointer, for any number of cards and slots. *)
THEOREM LifeCleanUnload == Spec => []CleanUnload
<1>1. ASSUME LifeInv PROVE CleanUnload
  <2>1. ASSUME module = "out", NEW c \in region PROVE c \in failed \cup overflow
    <3>1. c \in Cards /\ HeldOK(c) /\ FrontOK(c) /\ ~Probing /\ \A s \in Slot : BoundOK(c, s)
      BY <1>1, <2>1 DEF LifeInv, LifeTypeOK, CardInv, ProbeOK
    <3>2. ~IsBound(c)
      BY <2>1, <3>1 DEF IsBound, BoundOK, FrontOK, Place
    <3> QED BY <2>1, <3>1, <3>2 DEF HeldOK
  <2> QED BY <1>1, <2>1 DEF CleanUnload, LifeInv, RemoveOK, At
<1> QED BY <1>1, LifeSafe, PTL

(* A device has at most one open file and isOpen tells whether it has one, *)
(* unless two users opened it in the same moment or a Probe took its place *)
(* while it was open, for any number of users and slots.                   *)
THEOREM LifeOneUser == Spec => []OneUser
<1>1. ASSUME LifeInv PROVE OneUser
  <2> SUFFICES ASSUME NEW s \in Place \ overlapped
               PROVE  LET files == {u \in Users : user[u].at = "open" /\ user[u].slot = s}
                      IN  Cardinality(files) <= 1 /\ (dev[s].isOpen <=> files # {})
    BY DEF OneUser
  <2> DEFINE files == {u \in Users : user[u].at = "open" /\ user[u].slot = s}
  <2>1. OpenOK(s)
    BY <1>1 DEF LifeInv, OpenInv
  <2>2. files = {} \/ \E u \in files : files = {u}
    BY <2>1 DEF OpenOK, Using
  <2>3. Cardinality(files) <= 1
    <3>1. CASE files = {}
      BY <3>1, FS_EmptySet
    <3>2. CASE \E u \in files : files = {u}
      <4>1. PICK u : files = {u}
        BY <3>2
      <4>2. Cardinality({u}) = 1
        BY FS_Singleton
      <4> QED BY <4>1, <4>2
    <3> QED BY <2>2, <3>1, <3>2
  <2>4. dev[s].isOpen <=> files # {}
    BY <2>1 DEF OpenOK
  <2> QED BY <2>3, <2>4
<1> QED BY <1>1, LifeSafe, PTL
=============================================================================
