# TLA+ models of the PGP Gen3 PCIe card

This directory holds TLA+ specifications of the PGP Gen3 PCIe card: the Linux
driver (`software/hw_devel/driver`), the firmware it talks to
(`firmware/common`) and the tools beside them. The modules are checked with TLC
on small instances, and the safety properties are proved with TLAPS for every
value of the constants.

Contents: [1 Inventory](#1-inventory), [2 Modules](#2-modules-and-the-code),
[3 Runs](#3-runs), [4 Fairness](#4-fairness), [5 Proofs](#5-proofs),
[6 Assumptions and limits](#6-assumptions-and-limits), [7 Plan](#7-plan).

## 1 Inventory

The card moves frames between up to eight PGP links and buffers in host memory.
The driver owns 32 transmit and 32 receive DMA buffers (`DEF_TX_BUF_CNT`,
`DEF_RX_BUF_CNT`). An application calls `write()` and `read()` on the device;
the interrupt handler moves completed buffers back.

| Component | State | Operations | Talks to |
|---|---|---|---|
| Driver data path (`PgpCardG3.c`) | `isOpen`, `txQueue`/`rxQueue` with read and write pointers, per-buffer descriptor fields | `Open`, `Release`, `Write`, `Read`, `Poll`, `IRQHandler` | application by system calls, card by register reads and writes; `Write`, `Read` and the handler share the queues without a lock |
| Driver control (`my_Ioctl`) | card registers | about 40 register commands, most read-modify-write; debug dump | application, card |
| Driver load/unload (`Probe`, `Remove`) | device table, mappings, buffers | set up and tear down | kernel, card |
| Descriptor engines (`PciTxDesc`, `PciTxDescFifo`, `PciRxDesc`) | descriptor FIFO and free list per lane, latches of two-word registers, done FIFOs, round-robin pollers | register writes and reads, hand a descriptor to a DMA channel, collect completions | driver by registers, DMA channels by `newReq/newAck` and `doneReq/doneAck` |
| Interrupt machine (`PciFrontEnd`) | `irqState`, 1 ms timer | assert, wait, clear, retry | done FIFOs, `irqEnable`, PCIe core |
| DMA engines (`PciRxDma`, `PciRxTransFifo`, `PciTxDma`, `PciTxDmaMemReq`) | transfer state, lengths, transaction FIFO | split frames into memory transactions, length check | descriptor engines, TLP layer, PGP lanes |
| TLP layer (`PciTlpInbound`, `PciTlpOutbound`, `PciTlpCtrl`, `PciRegCtrl`) | arbiter and register request state | route, arbitrate, complete register reads | PCIe core, everything behind it |
| PGP lanes (`PgpDmaLane`, `PgpVcRxBuffer`, `PgpOpCode`, link monitor and watchdog) | per-VC buffers, trigger look-up table | gate frames by trigger, restart a link | links, DMA, EVR |
| EVR receiver, CameraLink grabber | op-code delays, trigger masks, line/frame assembly | decode, delay, trigger | PGP lanes |
| Flash controller and PROM programmer (`PciFlashBpi`, `PgpCardG3Prom.cpp`, `McsRead.cpp`) | flash status, block buffer | erase, program, verify, reload | card registers |
| Applications (`xRate`, `xRead`, `xWrite`, ...) | none that lasts | system calls | driver |

What is hard here: the driver takes no lock, so every pair of accesses by a
system call and by the handler can interleave; buffers change hands before the
pointers that account for them move; descriptors are written and read as two
register words through latches shared by all lanes; the interrupt is withdrawn
by a timer while the handler may be running; the device can be closed between
the completion of a frame and the handler's look at `isOpen`; copies to and
from user space can fail at any point of a call; the done pollers work on
request lines that are one clock old; control commands read and write back a
register in two bus accesses; `Probe` registers the interrupt before its queues
exist, undoes nothing when it fails and goes on when no slot is free, `Remove` frees the queues before it
releases the interrupt; the receive DMA keeps two FIFOs in step by counting; the
PROM programmer can be killed while the flash waits for data. `PROJECT.json` lists each of these
hazards at its line with the properties that address it.

What makes the system correct: a DMA buffer has one owner at any time and never
disappears; the queue pointers never collide; a lane sends what was written to
it, in order, header and payload of the same call; every received frame is
delivered once, with its own payload, in the order of its lane, or is counted
as dropped; a buffer returns to the lane it belongs to; no waiting caller and
no completed frame is forgotten; a control command changes the field it names
and no other; nobody uses a queue or a register mapping that does not exist; a
frame stays within its buffer; a flash load that reports success left the file
in the flash.

## 2 Modules and the code

```
BufferRing            what txQueue and rxQueue promise (abstract)
  BufferRingProofs      its invariant, for any number of buffers
PciDescriptors        the card as the driver sees it
  PgpCardG3             driver on top of the card; implements BufferRing twice
    PgpCardQueueProofs    who has which buffer, both directions, and the type invariant
      PgpCardDataProofs     what is in the buffers, both directions
PciDonePoll           the done pollers clock by clock
  PciDonePollProofs     their invariant, for any number of channels
PciRxDma              the receive DMA of one lane, word by word
  PciRxDmaProofs        its FIFOs and buffers, for all lengths and depths
PgpCardIoctl          control commands, their wrappers and three programs
  PgpCardIoctlProofs    their invariant, for any number of threads and lanes
PgpCardLife           loading, unloading, opening
  PgpCardLifeProofs     their invariant, for any number of cards and users
  MCPgpCardLife         symmetry for model checking
McsRead               the reader of .mcs files, as functions
  PgpCardProm           the PROM programmer, the flash controller and a flash
    PgpCardPromProofs     its invariants, for all files, flash sizes, failures and kills
    MCPgpCardProm         the files for model checking
```

**BufferRing** is the contract of one queue: `Fill` and `Publish` are the two
statements by which the handler queues a buffer, `Release` is the register
write that hands the buffer at the read pointer to the card, `Advance` the
pointer increment after it. `out` is the set of buffers that are not queued.
Both initial states of `PgpCard_Probe` are covered (TX ring full, RX ring
empty). The code's rings have *two* entries more than buffers; the model shows
why one would not do.

**PciDescriptors** models the registers the driver uses and the hardware behind
them. `WriteTxA`/`WriteTxB`, `ReadTx`, `WriteRxFree`, `ReadRxA`/`ReadRxB` are the
register accesses (with the latches `tFifoDin` and `descData`); `TxNew`,
`TxDone`, `RxNew`, `RxDone` are the steps of the DMA channels; `IrqSet`,
`IrqAck`, `IrqServ` are the legacy-interrupt state machine. A frame is a number:
the descriptor (`hdr`) and the buffer content (`data`) carry it separately, so
that a mix-up is visible. The length, virtual channel and error bits travel
with `hdr`.

**PgpCardG3** gives `PgpCard_Write`, `PgpCard_Read` and `PgpCard_IRQHandler` a
program counter each. One action is one access to shared memory or one register
access, with the computation around it.

| Code | Actions |
|---|---|
| `PgpCard_Open`, `PgpCard_Release` | `Open`, `Release` (frames stay queued; the kernel calls release only when no call is in progress) |
| `PgpCard_Write` | `WriteStart`, `WriteSleep`, `WriteReturn` (`-EAGAIN`, `-ERESTARTSYS`, failed copy), `WriteCopy`, `WriteDescA`, `WriteDescB`, `WriteBadLane`, `WriteAdvance` |
| `PgpCard_Read` | `ReadStart`, `ReadSleep`, `ReadReturn` (early returns and the failed copy of the command structure), `ReadCopy` (short user buffer, failed copy), `ReadFree`, `ReadAdvance` |
| `PgpCard_IRQHandler` | `IsrEnter`, `IsrDisable`, `IsrTxStat`, `IsrTxPop`, `IsrTxFill`, `IsrTxPublish`, `IsrRxStat`, `IsrRxReadA`, `IsrRxReadB`, `IsrRxFill`, `IsrRxPublish`, `IsrRxDrop`, `IsrEnable` |
| `PgpCard_Probe` | `Init` |
| `PgpCard_Poll` | compares the pointers; `BufferRing!StaysReadable` is what its answer relies on |

`submitted`, `acked`, `delivered`, `dropped` and `sent` are history variables.
The constant `Faults` selects which failures a run includes.

**PciDonePoll** is the round-robin poll of the `doneReq` lines in `PciTxDesc`
(`kind = "tx"`, which pauses while it writes its FIFO) and `PciRxDesc`
(`kind = "rx"`, which does not). One action, `Clock`, is one rising edge of the
PCI clock; registers take effect one clock later, as in the VHDL.

**PciRxDma** follows one lane from the word stream to the buffer. `DropWord`,
`FirstWord` and `SendWord` are the states `IDLE_S` and `SEND_S` of
`PciRxTransFifo`, which packs words into beats of four and writes one entry per
transaction; `Idle`, `AckWait`, `ReadTrans`, `SendHdr`, `Collect` and `TrDone` are the
states of `PciRxDma`. A word is its frame and its index, so that `buffer` shows
what was written where. Frames may lack their start mark, contain a second one,
and end with an error mark. The transaction FIFO and the descriptor handshake
do not block here; the data FIFO does (`Depth`).

**PgpCardIoctl** expands a command into its bus accesses (`Accesses`): a
read-modify-write is `Load` and `Store`, a plain write `PutReg`, a status read a
long sequence of `GetReg`. `PgpBit` and `EvrBit` are the bit positions of the
driver, `PgpOn` and `EvrOn` those of the firmware (`PciApp`), written down
separately. The calls of an application are the wrappers of `PgpCardG3Wrap.h`
with every argument, existing lanes or not; `xReset`, `xLoop` and `xStatus` are the
call sequences of those programs. One program has the device open; its threads
share the file descriptor. `want`, `put`, `asked`, `raced` and `fresh` are history.

**PgpCardLife** has one action per kernel call or register access of
`PgpCard_Probe` and `PgpCard_Remove` that others can observe, each call of Probe
with its failure. The handler is reduced to four steps (called, status read and
interrupt disabled, queues used, interrupt enabled), the card to whether it has
a completion to report, may interrupt, and runs. `OpenTest` and `OpenSet` are the
test and the assignment in `PgpCard_Open`. `dev` is indexed by `Place`: the slots of
`gPgpDevices` and `Outside`, the memory in front of it, where Probe works when every
slot is taken (`driver_data` stays -1 and the test for that compares an unsigned
number with zero). The next Probe without a slot takes that memory over as it is, and
Remove, which searches the array, undoes nothing for such a card (`RemoveFind`).
`failed`, `overflow`, `overrun`, `overlapped` and `dangling` are history. The kernel
calls handlers of a shared line at any time, calls Probe and Remove one at a time, may probe a card again
after a failure, and refuses `rmmod` while a file is open.

| Code | Actions |
|---|---|
| `PgpCard_Init`, `PgpCard_Exit` | `PgpCard_Init`, `PgpCard_Exit`, `Unloaded` |
| `PgpCard_Probe` | `ProbeFind`, `ProbeCdev`, `ProbeMap`, `ProbeRegion`, `ProbeIrq`, `ProbeTx`, `ProbeRx`, `ProbeEnable` |
| `PgpCard_Remove` | `RemoveFind`, `RemoveFree`, `RemoveReset`, `RemoveIrq`, `RemoveUnmap` |
| `PgpCard_IRQHandler` | `IrqCall`, `IrqStatus`, `IrqWork`, `IrqEnable` |
| `PgpCard_Open`, `PgpCard_Release`, a `PgpCard_Write` | `OpenTest`, `OpenSet`, `PgpCard_Release`, `Send` |

**McsRead** gives `next` and `read` of `McsRead.cpp` as functions of a file and a
reader, and beside them a reference: which files are good (`IsGood`) and which
bytes they stand for (`ImageBytes`). Lines are records of their fields; the
hexadecimal digits are left out.

**PgpCardProm** runs `xPromLoad` or `xPromVerify`: `eraseBootProm`/`eraseCommand`,
`writeWord`/`writeError`/`writeRest`/`bufferedProgramCommand`, `verifyWord`/
`verifyStop`. Every `writeToFlash` and `readFlash` is a step of its own (`Flash`),
which `Transfer` turns into the one or two bus cycles of `PciFlashBpi`. The flash
(`Cycle`, `First`, `Second`, `Fill`, `FlashFinish`, `Result`) is external: a command interface with
status register, block locks and a write buffer whose operations take time,
only turn ones into zeros, and may fail `MaxFail` times. A byte is one bit (erased
or not). `Kill` ends the program between any two accesses.

Definitions whose name has a suffix such as `TxSucc_Short` and that are
commented "Mutant" are not part of the model. Each is a plausible bug in the
definition it is named after; substituting it makes TLC report a violation of
one property, which shows that the property depends on that piece of code.

## 3 Runs

| Run | Configuration | Properties | What it shows |
|---|---|---|---|
| `buffer_ring` | `BufferRing.cfg`: 3 buffers | `TypeOK`, `NoCollision`, `NoAliasing`, `NoLeak`, `StaysReadable` | the ring contract in all interleavings of producer and consumer |
| `tx_path` | `TxPath.cfg`: 2 lanes, 2 TX buffers, 4 frames | `TxExclusive`, `TxConserved`, `TxIntegrity`, `TxRingSpec` | sending with buffer reuse, early returns and interrupt retries; `txQueue` implements the ring |
| `rx_path` | `RxPath.cfg`: 2 lanes, 2 RX buffers, 4 frames | `RxConserved`, `RxHomeLane`, `RxFrameOnce`, `RxIntegrity`, `RxRingSpec` | receiving while the device is opened and closed, calls return early and copies fail; what `Read` returns is intact and in order; `rxQueue` implements the ring |
| `duplex` | `Duplex.cfg`: both directions, retry timer, short reads, an invalid lane | `TypeOK`, `RxIntegrity`, `WriterServed`, `FrameSettled` | one handler serves both directions: what `Read` returns is intact, no completion is stranded, no sleeper forgotten |
| `done_poll` | `DonePoll.cfg`: 3 channels, threshold 2, 2 transfers each | `TypeOK`, `DoneOnce`, `NoOvertake`, `FifoBound`, `DoneServed` | each completion is reported once, in turn, within the FIFO |
| `rx_dma` | `RxDma.cfg`: 2 frames, 8 lengths, transactions of 6 words, limit 12 | `FrameIntact`, `WithinBuffer`, `EveryFrame` | frames keep their words, length and error mark through both FIFOs; with a limit in words nothing is written behind a buffer; every good frame is reported |
| `ioctl` | `Ioctl.cfg`: 2 threads, 2 lanes, 3 commands, 2 programs | `TypeOK`, `NoInvention`, `CountReleased`, `LastCommandWins`, `XResetReleases`, `StatusCurrent` | what races on a register can do and cannot do |
| `lifecycle` | `Life.cfg`: 2 cards, 2 users, 1 slot, 1 failure, 5 calls of `Init` and `Probe` | `RegistersMapped`, `BuffersAlive`, `CleanUnload`, `OneUser` | load, use, unload and load again, with interrupts at any moment and opens that race; the second card, or the retry of one that failed, is set up in front of the array |
| `prom_load` | `Prom.cfg`: 15 files, buffer and block of 10 words, 2 blocks, 1 failure, 2 kills | `LoadedImage`, `RunRecovers`, `NoOverwrite`, `Finishes` | success means that the file is in the flash; a rerun repairs what a killed run left; the retry loops end |
| `bad_lane` | `BadLane.cfg` | `AckedIsSubmitted` (violated) | see below |
| `rx_maxframe` | `RxMaxFrame.cfg`: the limit `Probe` writes | `WithinBuffer` (violated) | see below |
| `too_many_devices` | `TooMany.cfg`: 2 cards, 1 slot | `SlotInArray` (violated) | see below |

Bounds. `TxBuffCnt`/`RxBuffCnt` are 1 to 3 instead of 32, `DMA_SIZE` 1 to 3
instead of 8. Two lanes are needed for cross-lane mix-ups, two buffers for
aliasing. `MaxTx` and `MaxRx` bound the number of frames; with twice as many
frames as buffers every buffer is reused and both pointers of a ring of four
entries wrap. `DoneThresh` is the almost-full level of the done FIFOs; 1 and 2
make the channels wait for the handler, which 32 buffers and the real depth
never do. `MaxDone` bounds the transfers of a channel; with two of them it
requests again after an acknowledge. The proofs of section 5 remove these
bounds for the safety properties they cover.

In `rx_dma` a transaction has 6 words instead of 32, which gives a header word, a
full beat and a partial one; the lengths are 1, 2, and those around one
transaction, around the limit and beyond it, and two frames show what one
leaves for the next; `Mids` is where a frame may have a second start mark
(nowhere, or on word 7, the first word of its second transaction). In `ioctl` two lanes give the bit registers neighbours to
damage, argument 3 is a lane that does not exist, and three commands by two
threads followed by a program contain every lost update. In `lifecycle`
`MaxCalls` bounds the calls of `PgpCard_Init` and `PgpCard_Probe` together; five of
them load the driver, probe both cards, unload, and load and probe again, which is
needed for what an unload leaves to the next Probe, or probe three times while the
driver is loaded: a card that fails keeps the only slot, is set up in front of the
array when it is probed again, and gives way there to the other card. In `prom_load` the flash has two blocks of one buffer
each; the files end inside a word, on a word, at the end of a buffer and behind
it, are empty or shorter than a buffer, and each kind of bad record occurs. A run that
ends, or is killed, may be followed by two more (`MaxKills = 2`): a complete load, a
load that is killed while the flash works, and a verify or load on top of it.

`CHECK_DEADLOCK FALSE` is used in the runs in which the application may stop
for good after the last frame: reading and writing are optional, and in
`duplex` an invalid lane consumes the TX buffer, after which a writer waits for ever. The same holds for the control,
load, PROM and DMA runs: the last frame, command, unload or run may be the last step.

Findings. `PgpCard_Write` only logs a `pgpLane` of 8 or more
(`PgpCardG3.c:175-177`), then advances `txRead` and returns the size as for a
frame that was sent. `bad_lane` shows a call that "returns write count on
success" (comment, `PgpCardG3.c:82`) without its frame having been handed to the
card. The buffer is in no queue afterwards, so 32 such calls leave the driver
without TX buffers.

`PgpCard_Probe` writes the size of a receive buffer *in bytes* into `rxMaxFrame`
(`PgpCardG3.c:1174`); the firmware documents "Max Frame Length, dwords, 1 based"
(`PciPkg.vhd:107`) and compares it with a count of words. `rx_maxframe` shows a
frame that is longer than its buffer and is written past the end of it without a
length error. `rx_dma` shows that with a limit in words the same engine stays
within the buffer.

`PgpCard_Probe` means to refuse a card when no slot is free: under the comment
"Overflow" it tests `id->driver_data < 0`, prints "Too Many Devices" and returns
`-EMFILE` (`PgpCardG3.c:1086-1090`). `driver_data` is an unsigned `kernel_ulong_t`, so
the test is never true, and Probe succeeds with `&gPgpDevices[-1]`. `too_many_devices`
shows a card bound there. Remove prints "Device Not Found" and undoes nothing
(`PgpCardG3.c:1221-1224`): the handler, the device node, the mapping and the region
of a card whose Probe did not fail outlive the module. A slot that a failed Probe left
behind counts as taken, so one failure and two cards are enough with two slots.

What the invariants had to allow. Some properties hold only with an exception
that the code really has; the exception is part of the property and is named
there.

- *Commands* (`LastCommandWins`). Two threads that change the same register at
  the same time can lose or revive a command on any lane of that register. It
  cannot switch on what nobody asked for (`NoInvention`), cannot leave the
  counters in reset (`CountReleased`), and `xReset` repairs it (`XResetReleases`).
- *Open* (`OneUser`). Two opens in the same moment both succeed; the first close
  then makes the handler drop the frames of the other user. A Probe that takes the
  place of an open device in front of the array clears its `isOpen`.
- *Unload* (`BuffersAlive`). If Remove runs while an interrupt of the card is
  pending or being handled, the handler uses freed queues, and its last write
  enables the interrupt again behind Remove's back. The card reset does not clear
  `irqEnable` (`PciApp.vhd:636-639` does so only with `pciRst`), so the handler of the
  next Probe may run before its queues exist. The registers stay mapped
  throughout (`RegistersMapped`).
- *Failed Probe* (`CleanUnload`). Handler, device and region of a card whose
  Probe failed, or found no slot, outlive the module. A retry after a failed mapping takes a second
  slot, and Remove then finds the first, whose register pointer is null.
- *In front of the array* (`RegistersMapped`, `BuffersAlive`). A device there is
  complete while its card is bound. Before that, after a failure, and after a Remove that
  did not find it, its handler stays registered while the next card without a
  slot may replace its registers and its queues (`Unowned`).
- *Receive DMA* (`FrameIntact`, `EveryFrame`, `WithinBuffer`). `tranSof` is set and never cleared, so
  after a length error in the middle of a frame the remaining transactions are
  not discarded with their data and are applied to later frames (`lost`). A limit of
  k * 32 + 1 words is never noticed, because the header state counts its word
  without comparing.
- *PROM* (`RunRecovers`, `NoOverwrite`). A run that is killed while the flash is busy
  or waits for buffer words makes the next run lose its first erase; the verify
  pass of `xPromLoad` then reports it. `LoadedImage` needs an exception only for a
  stand-alone `xPromVerify` that starts while the flash is still busy with the command
  of a killed run: it never asks for the status, a busy flash answers every read with
  its status register, and a word of the file that happens to equal it passes for
  verified. Files shorter than one
  write buffer send uninitialised addresses and words, because the padding loop
  (`PgpCardG3Prom.cpp:197-199`) writes one entry again and again, and may fail.
  `verifyBootProm` returns true when the file cannot be opened any more.

## 4 Fairness

`PgpCardG3!Fairness`:

- Card steps are weakly fair: the logic is clocked. `TxDone(l)` and `RxDone(l)`
  are strongly fair because a lane waits for room in a FIFO that other lanes
  fill again; the poller is round robin, and `PciDonePoll` checks (`DoneServed`)
  and proves (`NoOvertake`) that it passes over nobody.
- The handler, once entered, runs to its end (weak fairness of `Handler`).
  Entering it is strongly fair, because the retry timer withdraws and re-asserts
  the interrupt: the host answers one of infinitely many assertions.
- A system call in progress makes progress unless it is asleep. Whether the
  application calls `Write` again is left open. It keeps reading and reopens the
  device, as the read thread of `xRate` does; without that, frames would
  legitimately stay in `rxQueue`.

`PciDonePoll!Fairness`: the clock runs, the handler keeps reading the done FIFO
while it is not empty, and an ioctl that sets the counter-reset bit clears it.

`PciRxDma`: the clock runs (weak fairness of `Next`; descriptors and acknowledges
arrive, which `PgpCardG3` and `PciDonePoll` are about). `PgpCardProm`: the program
makes progress unless it is killed, and the flash finishes what it started
(weak fairness of `Program` and of `FlashFinish`); failures end because their number
is bounded.

## 5 Proofs

All proofs are checked by TLAPS without further assumptions than the named
`ASSUME`s of the modules: `RingAssumption` (finitely many buffers),
`CardAssumption` (at least one lane, a done FIFO with room for one entry),
`DriverAssumption`, `PollAssumption` (at least two channels), `IoctlAssumption`
(at least one lane and one thread), `LifeAssumption` (at least one slot),
`RxDmaAssumption` (transactions of more than one word, a data FIFO that holds one
of them) and those of the programmer: `FilesAssumption` (at least one file, bytes
that are bytes), `PromAssumption` (a block is a whole number of write buffers),
`FitAssumption` (a good file fits in the blocks that are erased; the code does not
check it, and the modelled array ends there) and `EraseAssumption` (a write buffer
has fewer words than the erase pass makes accesses: 256 against nine for each
of 595 blocks). `TxRefinesRing`, `TxBufferConserved` and `RxWithinBuffer` have a hypothesis
of their own, named below.

**BufferRing** (`RingSafe`, `RingTypes`, `RingNoAliasing`, `RingNoLeak`,
`RingNoCollision`, `RingStaysReadable`). `NoCollision` is not inductive. The
invariant `RingInv` adds that live entries hold different buffers outside `out` (`NoAliasing`), that each buffer is live or out (`NoLeak`),
and the count `Used + |out| = Count + (1 if released)` (`Conservation`). A buffer
that is out therefore leaves at least one free entry besides the one that must
stay empty, which is `NoCollision`.

**Driver, transmit** (`TxSafe`, `TxQueueIsRing`, `TxBufferExclusive`,
`TxRefinesRing`, `TxBufferConserved`). `TxInv` says that the FIFO entries, DMA
channels, done FIFO and the handler hold pairwise different buffers (`FifoApart`,
`DmaApart`, `DoneApart`), none of which is queued (`QueueApart`), what the program
counters promise (`TxPcOK`), and `RingInv` for `txQueue` with `out` mapped to
`TxUnqueued`, the buffers not in the queue. Neither half is inductive alone.
`WriteDescB` keeps the places apart because the ring gives the writer a live buffer
that is nowhere else; `IsrTxPublish` is a ring step because the handler's buffer is
not queued. The lemmas `TxRingRelease`, `TxRingAdvance`, `TxRingFill` and
`TxRingPublish` show the four ring steps, one lemma per buffer-moving action the rest;
`QuietStep` covers all others. All this holds whatever lanes the application names:
`WriteBadLane` is a ring step too, its buffer leaves the queue and turns up nowhere.
`TxMissing`, the difference between `TxUnqueued` and the places `TxOut`, grows by that
action only. With the hypothesis `WriteLanes \subseteq Lanes` it stays empty, which gives
`TxBufferConserved` and the refinement with `out` mapped to `TxOut` (`TxRefinesRing`);
the run `bad_lane` shows why these two need it.

**Driver, receive** (`RxSafe`, `RxRefinesRing`, `RxBufferConserved`,
`RxBufferHome`). The same argument without a hypothesis on the application, for
all faults and all moments of opening and closing. `LatchOK` states that between
the two reads of a descriptor the latch names the oldest done entry. `RxHomeOK`
follows the home lane of a buffer (`b % DMA_SIZE`, as `Probe` posts it) through
DMA, done FIFO, handler and `rxBuffer`. `PostedBuffers` proves that `Probe` posts
every buffer exactly once.

**Type invariant** (`DriverTypeOK`) is a corollary: that the driver only hands
out addresses of its buffers is a consequence of both invariants.

**Contents of the buffers** (`TxSendsWhatWasWritten`, `RxDataSafe`,
`RxReadIntegrity`, `RxEachFrameOnce`). The invariants above say who may touch a
buffer, these say what is in it. *Transmit*: what was submitted to a lane is what
it has sent, then the frame in its channel, then its FIFO, each with its payload
still in the buffer (`TxLaneOK`); the latch and the writer's buffer hold the frame
of the same call (`TxWriterOK`). A copy cannot spoil a queued frame because `TxInv`
puts the writer's buffer outside `TxOut`. *Receive*: `RxIntegrity` speaks of frames
that have left the driver, so `RxDataOK` follows a frame to that point. Its header is
that of the buffer it is in, in the channel, the done FIFO, the handler and `rxBuffer`
(`HeldOK`, `ReadOK`); a frame that arrived is in exactly one buffer that is not
posted, or has gone, by delivery or by a drop, never both (`OnceOK`). Order within a
lane is a relation of every stage to the next (`StageOrder`: within the queue, from the
queue to the handler, to the done FIFO, to the channel) and of all of them to what
was delivered (`GoneOrder`): all stages of a lane share buffers of one home, which is
where `RxHomeOK` is needed.

**Control commands** (`IoctlSafe`, `IoctlTypes`, `IoctlNoInvention`,
`IoctlCountReleased`, `IoctlStatusCurrent`, `IoctlLastCommandWins`,
`IoctlXResetReleases`). Nothing orders the two accesses of one thread against those of
another, so `IoctlInv` follows each thread: which accesses of its command are left
(`ThreadOK`) and what the word it has read may contain, given what was ever asked for
and what raced (`AskedOK`, `LoadedOK`, `PairsOK`). `FieldsOK` and `ValsOK` relate the
registers to the commands that have returned and to those that have reached the
bus but not returned; `CountOK` ties the counter reset to a thread that will clear it;
`ProgOK` says which fields the part of `xReset` that has run has released. `BitInjective` and
`OnFields` prove that the driver's bit positions are different from each other and are
those the firmware decodes, for every number of lanes. That the modelled programs send
only commands the lemmas cover is proved too (`CallCommands`, `ProgramCommands`).

**Load and unload** (`LifeSafe`, `LifeRegistersMapped`, `LifeBuffersAlive`,
`LifeCleanUnload`, `LifeOneUser`). `LifeInv` records what each step of Probe and Remove
has established, what is registered for a slot, and why (`SlotOK`). The hard part is
that Remove searches by address while failed Probes leave addresses behind: it could
find another slot than the one the card is bound to. It finds none with
mapped registers, because such a slot would hold the card's memory region and
Probe would not have got it again (`RegionOK`, `BoundOK`). A handler past its status read, and an
interrupt that is enabled, belong to a card in service, or to one that Remove
overran (`RaiseOK`, `HandleOK`); that exception is the one the properties name.
`OutsideOK` says the same of the device in front of the array, where less holds, and
`FrontOK` of a card bound there. What happens there cannot reach the slots: a card that
Remove did not find keeps its region, so no Probe of it gets as far as a handler
again (`Stray`, `StrayKept`), and while the driver is loaded that place is used only
when no slot is empty, so no card has its address both there and in a slot it is
bound to (`FullOK`).

**Receive DMA** (`RxDmaSafe`, `RxFrameIntact`, `RxWithinBuffer`). Until a length error
leaves transactions behind, `RxDmaInv` asserts two sequences of marks with one entry
per FIFO entry: `ends` says up to which word of which frame the data FIFO has come,
`cuts` the same for the transaction FIFO. Neighbouring marks must follow each other in
the stream of accepted words (`Follows`), which has one continuation only; so the first
beat in one FIFO belongs to the first transaction in the other, although
neither names its frame. Within a transaction the beat counter reaches `tran.cnt`
exactly at the last beat (`4 * cnt < length - 1 <= 4 * cnt + 4`). The error mark, the length
and the buffer are functions of these positions. `RxWithinBuffer` needs a further
invariant, `RoomInv`, and the hypothesis `RoomFor(M)`: the limit lies in the `M`th
transaction of a frame, is not its first word, and the buffer holds `M` whole
transactions. The first word of a transaction is counted without a
comparison, and a transaction is finished once begun, hence both conditions. `RoomFor` holds for
the limit the firmware documents (the buffer's words, a multiple of 32) and for
`RxDma.cfg`; it fails for the value `Probe` writes, four times as large, as
`rx_maxframe` shows.

**Done pollers** (`PollSafe`, `PollTypes`, `PollDoneOnce`, `PollNoOvertake`, `PollFifoBound`).
`PollInv` relates the history counters to the lines: what was finished and not
accepted is a request that is up and unacknowledged; the acknowledged channel is
never the one the `rx` poller looks at next; the number of requests that passed
a waiting channel is bounded by how far the pointer still is from it.

**PROM programmer** (`ControlSafe`, `ImageSafe`, `OverwriteSafe`, `RecoverSafe`). Four
invariants, each on top of the one before.

*Control.* `ControlInv` ties the program's part of a command (the accesses it has
still to make, `OpsOk`) to the state of the flash. `ProgramOk` follows
`bufferedProgramCommand`: with `k` words to come the flash waits for `k` words and has the
others in its write buffer (`Loaded`, the last word for an entry counts). The
program never asks whether the flash took a command for one, so a buffer that
a killed run left half loaded swallows accesses of the next run. `EraseOk` counts them: a flash
that waits for `left` words satisfies `left + 9 * blocks + more <= BUF + 2 * n`, where `n`
accesses of the current block are still to come; with `EraseAssumption` nothing is
left behind the last block, and `Settled` says that the flash is at rest when the
program writes or reads it. It is not inductive without these counts.

*Image.* `ReaderOk` and `Pass` say which prefix of the file a pass has read and how it
fills words; `Compared` says that the words up to `address` are in the flash. `LoadedImage`
follows when the reader is at the end-of-file record. That what the reader returned
is the image of the reference (`EndFirst`, `GoodReader`) needs two facts about data that are
recursive in the library: `FlattenSeq` of a longer sequence of lines extends that of a shorter
one (`FlattenAppend`, `PrefixMono`), and the first line that is no address record
exists (`SkipDef`). The library's induction rules take an operator as a parameter, which
the provers cannot instantiate; `SetInduction` and `FirstOf` state induction and the least
element for sets instead, and every induction here closes a set of numbers.

*Overwriting.* In a run that found the flash at rest, `EraseSafe` says that the blocks
below `address` are erased, `Filling` that what lies behind the buffer still is and
where the buffer's entries point, `Programming` that each word of the buffer being
programmed is erased or already stored. A command that failed may have taken
effect; it is repeated with the same words, which is why `NoOverwrite` survives
retries. The last buffer is padded with entries of the buffer before: their
addresses have the same place in a buffer and another base, and the flash takes
the base from the first entry only.

*Recovery.* `RecoverOk` adds for a good file of at least one buffer that the words before
the buffer are those of the file and the entries in it are the next ones, and after
the last command that all words are there (`Written`, `Held`, `Wd`). The verify pass then finds
no difference, which is `RunRecovers`. A file shorter than a buffer is excluded
because its padding has no entries of a buffer before it.

Only model-checked. Liveness under fairness is out of the prover's reach:
`WriterServed`, `FrameSettled`, `DoneServed`, `EveryFrame`, `Finishes`. `AckedIsSubmitted` and
`SlotInArray` are violated by the code, and so is `WithinBuffer` without `RoomFor`.

## 6 Assumptions and limits

- One thread writes and one reads, as in `xRate`; the driver has no lock that
  would make more of them safe. The handler does not run concurrently with
  itself (the kernel masks the line).
- Memory accesses take effect in program order; posted register writes of the
  host reach the card in order, and DMA writes of a frame are visible before its
  done entry (PCIe ordering).
- FIFOs of the firmware library are sequences; the FIFO depths exceed the 32
  buffers, so only the done FIFOs' almost-full flags appear.
- The search by address in the handler succeeds because the card returns only
  addresses it was given; `DriverTypeOK` proves this for the model.
- Frames longer than a buffer are refused by `Write` before anything changes; on
  the receive side the length check belongs to `PciRxDma`. Its continuous mode
  (`contEn`) is left out, because the driver never sets the bit for it.
- `PgpCardIoctl` does not model the debug dump, which only reads, nor the counters
  and link states of a status, which no command writes.
- `PgpCardLife` treats the memory in front of `gPgpDevices` as one more device that is
  empty when the module is loaded. What the linker puts there, and what its loss does
  to the module, is not modelled. It covers unloading by `rmmod` only; removing a card from a running system
  while the device is open is not covered.
- The flash of `PgpCardProm` is modelled from the commands the programmer sends and
  the status bits it waits for; no description of the part is in the
  repository.

Not modelled, with the reasons, are the components with that status in
`PROJECT.json`: vendor cores and clocking, address decoding, straight-line
applications, and the parts planned below.

## 7 Plan

In order of weight:

1. `PciTxDma`: memory requests and completions, frame lengths 0 and at a page
   boundary, as an implementation of `TxNew`/`TxDone`.
2. `TriggerLut`: `EvrOpCodeDelay`, `PgpOpCode`, `PgpVcRxBuffer`; link watchdog.
3. TLP arbitration and register completion.
4. Camera Link grabber and serial machines.

Abstract specifications worth stating: a lane as a FIFO of frames from `Write` to
the link and from the link to `Read`, implemented by `PgpCardG3`; one frame step of
`PciDescriptors` (`RxNew`, `RxDone`), implemented by `PciRxDma`.
