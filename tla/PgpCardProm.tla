---------------------------- MODULE PgpCardProm ----------------------------
(***************************************************************************)
(* xPromLoad and xPromVerify: erase the boot flash, program it from an     *)
(* .mcs file and compare it with the file, through two registers of the    *)
(* card (PciFlashBpi).  The program may be killed at any moment and run    *)
(* again; the flash keeps its state, also in the middle of a command.      *)
(*                                                                         *)
(* A byte of the flash is abstracted to one bit: 1 is 0xFF, an erased      *)
(* byte.  A word is a pair of bytes.  The flash device itself is not part  *)
(* of the repository; it is modelled from the commands the programmer      *)
(* sends and the status bits it waits for.                                 *)
(***************************************************************************)
EXTENDS McsRead

CONSTANTS BUF,          \* words of the flash's write buffer (256)
          BlockSize,    \* PROM_BLOCK_SIZE, words that one erase clears
          PROM_SIZE,    \* last word address that has to be erased
          MaxFail,      \* bound: commands the flash reports as failed
          MaxKills      \* bound: times the program is killed

ASSUME PromAssumption ==
    /\ BUF \in Nat \ {0} /\ BlockSize \in Nat \ {0} /\ BlockSize % BUF = 0
    /\ PROM_SIZE \in Nat /\ MaxFail \in Nat /\ MaxKills \in Nat

(* A flash that waits for the words of a killed run's buffer takes every   *)
(* access for one.  The erase pass, nine accesses for a block, outlasts    *)
(* the buffer: 256 words against 595 blocks.                               *)
ASSUME EraseAssumption == BUF < 9 * ((PROM_SIZE \div BlockSize) + 1)

(* The image fits in the part of the flash that is erased. *)
ASSUME FitAssumption ==
    \A f \in DOMAIN Files :
        IsGood[f] => Len(ImageBytes[f]) <= 2 * (BlockSize * ((PROM_SIZE \div BlockSize) + 1))

VARIABLES flash,     \* the flash device
          file,      \* the file on disk, an index of Files
          present,   \* the file still exists
          tool,      \* "load" or "verify"
          pc,        \* where the program is
          ops,       \* flash accesses it is about to make
          address, reader, byte, toggle, fileData, bufAddr, bufData, bufSize,   \* its variables
          failures,  \* failures the flash has left
          kills,     \* kills left
          torn       \* history: this run began while the flash was busy or waited for buffer words

local == <<address, reader, byte, toggle, fileData, bufAddr, bufData, bufSize>>
vars  == <<flash, file, present, tool, pc, ops, local, failures, kills, torn>>

Word   == 0 .. (BlockSize * ((PROM_SIZE \div BlockSize) + 1) - 1)
Slot   == 0 .. (BUF - 1)
Ones   == <<1, 1>>
And(v, w) == <<IF v[1] = 1 THEN w[1] ELSE 0, IF v[2] = 1 THEN w[2] ELSE 0>>

Block(a) == a \div BlockSize
UNSET    == -1    \* a buffer entry that was never written

-----------------------------------------------------------------------------
(* What a write cycle puts on the data bus: a command, a buffer length or  *)
(* a data word.  A flash that waits for buffer words takes any of them as  *)
(* data.                                                                   *)
Cmd(c)  == [cmd |-> c, n |-> 0, word |-> IF c = "FF" THEN <<1, 0>> ELSE <<0, 0>>]
Size(n) == [cmd |-> "", n |-> n, word |-> <<0, 0>>]
Data(w) == [cmd |-> "", n |-> 0, word |-> w]

CommandError(f) == [f EXCEPT !.mode = "status", !.err = {"erase", "program"}]

(* A flash that waits for buffer words, and then for the confirmation. *)
Fill(f, a, x) ==
    IF f.left > 0 THEN [f EXCEPT !.left = @ - 1, !.slots[a % BUF] = x.word]
    ELSE IF x.cmd = "D0" /\ Block(a) \in f.unlocked
    THEN [f EXCEPT !.mode = "status", !.busy = "program", !.at = a]
    ELSE CommandError(f)

(* The first and the second cycle of a command. *)
First(f, x) ==
    CASE x.cmd \in {"60", "20", "E8"} -> [f EXCEPT !.pend = x.cmd, !.mode = "status"]
      [] x.cmd = "50"                 -> [f EXCEPT !.err = {}]
      [] x.cmd = "70"                 -> [f EXCEPT !.mode = "status"]
      [] x.cmd = "FF"                 -> [f EXCEPT !.mode = "array"]
      [] OTHER                        -> f
Second(f, a, x) ==
    CASE f.pend = "60" -> [f EXCEPT !.pend = "",              \* with 03: configuration register
                             !.unlocked = IF x.cmd = "D0" THEN @ \cup {Block(a)}
                                          ELSE IF x.cmd = "01" THEN @ \ {Block(a)} ELSE @]
      [] f.pend = "E8" -> [f EXCEPT !.pend = "", !.mode = "load", !.left = x.n + 1,
                                    !.slots = [s \in Slot |-> Ones]]
      [] f.pend = "20" -> IF x.cmd = "D0" /\ Block(a) \in f.unlocked
                          THEN [f EXCEPT !.pend = "", !.busy = "erase", !.at = a]
                          ELSE CommandError([f EXCEPT !.pend = ""])

(* One write cycle on the flash. *)
Cycle(f, a, x) ==
    IF f.busy # ""          THEN [f EXCEPT !.mode = "status"]
    ELSE IF f.mode = "load" THEN Fill(f, a, x)
    ELSE IF f.pend # ""     THEN Second(f, a, x)
    ELSE First(f, x)

(* What a read cycle finds on the data bus: a word of the array, or the    *)
(* status register (SR7 and the error bits, never 0xFF).                   *)
ReadWord(f, a) == IF f.mode = "array" THEN f.mem[a] ELSE <<0, 0>>

(* The flash finishes an erase or a program operation.  Programming only   *)
(* turns ones into zeros.  A failed operation may have taken effect or not.*)
Result(f) ==
    IF f.busy = "erase"
    THEN [a \in Word |-> IF Block(a) = Block(f.at) THEN Ones ELSE f.mem[a]]
    ELSE [a \in Word |-> IF a \div BUF = f.at \div BUF THEN And(f.mem[a], f.slots[a % BUF])
                         ELSE f.mem[a]]
FlashFinish ==
    /\ flash.busy # ""
    /\ \/ flash' = [flash EXCEPT !.busy = "", !.mem = Result(flash)] /\ UNCHANGED failures
       \/ /\ failures > 0 /\ failures' = failures - 1
          /\ \E m \in {flash.mem, Result(flash)} :
                flash' = [flash EXCEPT !.busy = "", !.mem = m, !.err = @ \cup {flash.busy}]
    /\ UNCHANGED <<file, present, tool, pc, ops, local, kills, torn>>

-----------------------------------------------------------------------------
(* writeToFlash and readFlash: a write to the data register and one to the *)
(* address register, which makes PciFlashBpi put the command on the bus    *)
(* and then either write the data or read.                                 *)
writeToFlash(a, c, x) == [a |-> a, cmd |-> c, rest |-> <<x>>]
readFlash(a, c)       == [a |-> a, cmd |-> c, rest |-> <<>>]

Transfer(f, o) ==
    LET g == Cycle(f, o.a, o.cmd) IN IF o.rest = <<>> THEN g ELSE Cycle(g, o.a, o.rest[1])

Running == {"fileExist", "erase", "erasePoll", "openWrite", "write", "programPoll", "lastPoll",
            "openVerify", "verify"}

Flash ==
    /\ pc \in Running /\ ops # <<>>
    /\ flash' = Transfer(flash, Head(ops))
    /\ ops' = Tail(ops)
    /\ UNCHANGED <<file, present, tool, pc, local, failures, kills, torn>>

(* Mutant: the erase command is sent without unlocking and status reset. *)
EraseOps_NoClear(a) == <<writeToFlash(a, Cmd("60"), Cmd("D0")), writeToFlash(a, Cmd("20"), Cmd("D0"))>>

EraseOps(a) == <<writeToFlash(a, Cmd("60"), Cmd("D0")), writeToFlash(a, Cmd("50"), Cmd("50")),
                 writeToFlash(a, Cmd("20"), Cmd("D0"))>>
LockOps(a)  == <<writeToFlash(a, Cmd("60"), Cmd("01"))>>

ProgramOps(addr, data) ==
    <<writeToFlash(addr[0], Cmd("60"), Cmd("D0")), writeToFlash(addr[0], Cmd("50"), Cmd("50")),
      writeToFlash(addr[0], Cmd("E8"), Size(BUF - 1))>>
    \o [i \in 1 .. BUF |-> readFlash(addr[i - 1], Data(data[i - 1]))]
    \o <<readFlash(addr[0], Cmd("D0"))>>

(* The status loop after a command: send the command again on an error,    *)
(* leave when the flash is not busy, else ask again.                       *)
Poll(from, to, a, kind, again) ==
    /\ pc = from /\ ops = <<>>
    /\ LET f    == Cycle(flash, a, Cmd("70"))
           err  == f.mode = "status" /\ kind \in f.err
           redo == f.busy = "" /\ err
       IN  /\ flash' = f
           /\ \/ /\ redo /\ ops' = again /\ UNCHANGED pc
              \/ /\ ~redo /\ f.busy = "" /\ pc' = to /\ ops' = LockOps(a)
              \/ /\ f.busy # "" /\ UNCHANGED <<pc, ops>>
    /\ UNCHANGED <<file, present, tool, failures, kills, torn>>

-----------------------------------------------------------------------------
(* main() with the constructor, which writes the configuration register.   *)
(* Every run may be given another file.                                    *)
Start ==
    /\ pc = "off" /\ pc' = "fileExist"
    /\ tool' \in {"load", "verify"}
    /\ file' \in DOMAIN Files /\ present' = TRUE
    /\ torn' = (flash.mode = "load" \/ flash.busy # "")
    /\ ops' = <<writeToFlash(1, Cmd("60"), Cmd("03"))>>
    /\ UNCHANGED <<flash, local, failures, kills>>

(* The file is opened three times: to see that it exists, for the write    *)
(* pass and for the verify pass.  It may have disappeared each time.  A    *)
(* file that cannot be opened for the verify pass counts as a match.       *)
OpenFile ==
    /\ pc \in {"fileExist", "openWrite", "openVerify"} /\ ops = <<>>
    /\ present' \in {present, FALSE}
    /\ \/ /\ ~present' /\ UNCHANGED local
          /\ pc' = IF pc = "openVerify" THEN "exit0" ELSE "exit1"
       \/ /\ present' /\ pc = "fileExist" /\ UNCHANGED local
          /\ pc' = IF tool = "load" THEN "erase" ELSE "openVerify"
       \/ /\ present' /\ pc # "fileExist"
          /\ pc' = IF pc = "openWrite" THEN "write" ELSE "verify"
          /\ address' = 0 /\ reader' = open /\ byte' = 0 /\ toggle' = FALSE /\ fileData' = 0
          /\ bufSize' = 0
          /\ bufAddr' = [i \in Slot |-> UNSET] /\ bufData' = [i \in Slot |-> Ones]
    /\ UNCHANGED <<flash, ops, file, tool, failures, kills, torn>>

(* Mutant: the last block is not erased. *)
eraseBootProm_Short ==
    /\ ops = <<>> /\ pc = "erase"
    /\ IF address < PROM_SIZE
       THEN pc' = "erasePoll" /\ ops' = EraseOps(address) /\ UNCHANGED address
       ELSE pc' = "openWrite" /\ UNCHANGED <<address, ops>>
    /\ UNCHANGED <<flash, file, present, tool, reader, byte, toggle, fileData, bufAddr, bufData,
                   bufSize, failures, kills, torn>>

eraseBootProm ==
    /\ ops = <<>> /\ pc = "erase"
    /\ IF address <= PROM_SIZE
       THEN pc' = "erasePoll" /\ ops' = EraseOps(address) /\ UNCHANGED address
       ELSE pc' = "openWrite" /\ UNCHANGED <<address, ops>>
    /\ UNCHANGED <<flash, file, present, tool, reader, byte, toggle, fileData, bufAddr, bufData,
                   bufSize, failures, kills, torn>>

eraseCommand ==
    /\ Poll("erasePoll", "erase", address, "erase", EraseOps(address))
    /\ address' = IF pc' = "erase" THEN address + BlockSize ELSE address
    /\ UNCHANGED <<reader, byte, toggle, fileData, bufAddr, bufData, bufSize>>

Stop(code) == pc' = code /\ UNCHANGED <<flash, ops, local, file, present, tool, failures, kills, torn>>

(* One byte of the file, and every second time a word.  The body also runs *)
(* once more at the end of the file, with the byte it had before.          *)
Pair(r) ==
    /\ reader' = r.reader
    /\ byte' = IF r.byte = <<>> THEN byte ELSE r.byte[1]
    /\ toggle' = ~toggle
    /\ fileData' = IF toggle THEN fileData ELSE byte'
FullWord(r) == <<fileData, IF r.byte = <<>> THEN byte ELSE r.byte[1]>>

writeError ==
    /\ pc = "write" /\ ops = <<>> /\ ~reader.endOfFile
    /\ \/ read(file, reader).status = FAIL  /\ Stop("exit1")
       \/ read(file, reader).status = ABORT /\ Stop("abort")

(* Mutant: the address is not advanced for a word that fills the buffer. *)
writeWord_Stuck ==
    /\ pc = "write" /\ ops = <<>> /\ ~reader.endOfFile
    /\ LET r == read(file, reader)
       IN  /\ r.status >= 0
           /\ Pair(r)
           /\ IF ~toggle THEN UNCHANGED <<address, bufAddr, bufData, bufSize, ops, pc>>
              ELSE /\ bufAddr' = [bufAddr EXCEPT ![bufSize] = address]
                   /\ bufData' = [bufData EXCEPT ![bufSize] = FullWord(r)]
                   /\ IF bufSize + 1 = BUF
                      THEN bufSize' = 0 /\ pc' = "programPoll" /\ ops' = ProgramOps(bufAddr', bufData')
                           /\ UNCHANGED address
                      ELSE bufSize' = bufSize + 1 /\ address' = address + 1 /\ UNCHANGED <<pc, ops>>
    /\ UNCHANGED <<flash, file, present, tool, failures, kills, torn>>

writeWord ==
    /\ pc = "write" /\ ops = <<>> /\ ~reader.endOfFile
    /\ LET r == read(file, reader)
       IN  /\ r.status >= 0
           /\ Pair(r)
           /\ IF ~toggle THEN UNCHANGED <<address, bufAddr, bufData, bufSize, ops, pc>>
              ELSE /\ bufAddr' = [bufAddr EXCEPT ![bufSize] = address]
                   /\ bufData' = [bufData EXCEPT ![bufSize] = FullWord(r)]
                   /\ address' = address + 1
                   /\ IF bufSize + 1 = BUF
                      THEN bufSize' = 0 /\ pc' = "programPoll" /\ ops' = ProgramOps(bufAddr', bufData')
                      ELSE bufSize' = bufSize + 1 /\ UNCHANGED <<pc, ops>>
    /\ UNCHANGED <<flash, file, present, tool, failures, kills, torn>>

(* The end of the file: the rest of the buffer is sent as a full buffer.   *)
(* The loop that should fill it with ones writes one entry again and again,*)
(* so the others still hold addresses and words of the block before or, in *)
(* a file shorter than a buffer, whatever was on the stack.                *)
writeRest ==
    /\ pc = "write" /\ ops = <<>> /\ reader.endOfFile
    /\ IF bufSize # 0
       THEN /\ \E a \in {0, BUF - 1}, w \in {<<0, 0>>, Ones} :
                  /\ bufAddr' = [i \in Slot |-> IF bufAddr[i] = UNSET THEN a ELSE bufAddr[i]]
                  /\ bufData' = [i \in Slot |-> IF i = bufSize THEN Ones
                                                ELSE IF bufAddr[i] = UNSET THEN w ELSE bufData[i]]
            /\ pc' = "lastPoll"
            /\ ops' = ProgramOps(bufAddr', bufData')
       ELSE pc' = "openVerify" /\ UNCHANGED <<bufAddr, bufData, ops>>
    /\ UNCHANGED <<address, reader, byte, toggle, fileData, bufSize, flash, file, present, tool,
                   failures, kills, torn>>

bufferedProgramCommand ==
    /\ \/ Poll("programPoll", "write", bufAddr[0], "program", ProgramOps(bufAddr, bufData))
       \/ Poll("lastPoll", "openVerify", bufAddr[0], "program", ProgramOps(bufAddr, bufData))
    /\ UNCHANGED local

verifyStop ==
    /\ pc = "verify" /\ ops = <<>>
    /\ \/ reader.endOfFile /\ Stop("exit0")
       \/ ~reader.endOfFile /\ read(file, reader).status = FAIL  /\ Stop("exit1")
       \/ ~reader.endOfFile /\ read(file, reader).status = ABORT /\ Stop("abort")

(* Mutant: only the lower byte is compared. *)
Differs_LowOnly(prom, word) == prom[1] # word[1]

Differs(prom, word) == prom # word

verifyWord ==
    /\ pc = "verify" /\ ops = <<>> /\ ~reader.endOfFile
    /\ LET r == read(file, reader)
           f == Cycle(flash, address, Cmd("FF"))
       IN  /\ r.status >= 0
           /\ Pair(r)
           /\ flash' = IF toggle THEN f ELSE flash
           /\ address' = IF toggle THEN address + 1 ELSE address
           /\ pc' = IF toggle /\ Differs(ReadWord(f, address), FullWord(r)) THEN "exit1" ELSE pc
    /\ UNCHANGED <<ops, bufAddr, bufData, bufSize, file, present, tool, failures, kills, torn>>

(* The program is gone, and its variables with it. *)
Exit ==
    /\ pc' = "off" /\ ops' = <<>> /\ file' = 1 /\ present' = TRUE /\ tool' = "load"
    /\ address' = 0 /\ reader' = open /\ byte' = 0 /\ toggle' = FALSE /\ fileData' = 0
    /\ bufAddr' = [i \in Slot |-> UNSET] /\ bufData' = [i \in Slot |-> Ones] /\ bufSize' = 0

(* The user stops the program; the flash goes on with what it was doing. *)
Kill ==
    /\ pc \in Running /\ kills > 0
    /\ kills' = kills - 1 /\ Exit
    /\ UNCHANGED <<flash, failures, torn>>

(* The program ended; it may be run again. *)
Again ==
    /\ pc \in {"exit0", "exit1", "abort"} /\ kills > 0
    /\ kills' = kills - 1 /\ Exit
    /\ UNCHANGED <<flash, failures, torn>>

Init ==
    /\ flash = [mem |-> [a \in Word |-> <<0, 0>>], mode |-> "array", pend |-> "", left |-> 0,
                slots |-> [s \in Slot |-> Ones], busy |-> "", at |-> 0, err |-> {}, unlocked |-> {}]
    /\ file = 1 /\ present = TRUE /\ tool = "load" /\ pc = "off" /\ ops = <<>>
    /\ address = 0 /\ reader = open /\ byte = 0 /\ toggle = FALSE /\ fileData = 0
    /\ bufAddr = [i \in Slot |-> UNSET] /\ bufData = [i \in Slot |-> Ones] /\ bufSize = 0
    /\ failures = MaxFail /\ kills = MaxKills /\ torn = FALSE

Program == \/ Start \/ OpenFile \/ Flash \/ eraseBootProm \/ eraseCommand \/ writeError \/ writeWord
           \/ writeRest \/ bufferedProgramCommand \/ verifyStop \/ verifyWord

Next == Program \/ FlashFinish \/ Kill \/ Again

Spec == Init /\ [][Next]_vars /\ WF_vars(Program) /\ WF_vars(FlashFinish)

-----------------------------------------------------------------------------
(* A run of xPromLoad or xPromVerify that ends with exit code 0 while the  *)
(* file can be read leaves, or finds, the file in the flash, byte for      *)
(* byte: whatever the flash held before, whenever earlier runs were killed *)
(* (also with half a buffer loaded), whatever commands failed.             *)
(* The exception is xPromVerify started while the flash is still busy with *)
(* the command of a killed run: it never asks for the status, so it may    *)
(* compare words of the file with the status register.                     *)
LoadedImage ==
    pc = "exit0" /\ present /\ ~(tool = "verify" /\ torn) =>
        /\ IsGood[file]
        /\ LET b == ImageBytes[file]
           IN  \A k \in 1 .. Len(b) : flash.mem[(k - 1) \div 2][2 - (k % 2)] = b[k]

(* xPromLoad repairs what a killed run left, of this file or another: with *)
(* a good file that fills at least one buffer it succeeds, unless the run  *)
(* before was killed while the flash was busy or waited for buffer words   *)
(* (then the flash ignores the first erase command, or takes it as data,   *)
(* and nobody notices).                                                    *)
RunRecovers ==
    pc \in {"exit1", "abort"} /\ tool = "load" /\ present /\ ~torn =>
        ~IsGood[file] \/ Len(ImageBytes[file]) < 2 * BUF

(* A flash can only turn ones into zeros.  Every program command, the      *)
(* repeated ones too, finds the words of its buffer erased or already      *)
(* equal to what it has to store.                                          *)
NoOverwrite ==
    flash.busy = "program" /\ ~torn =>
        \A a \in Word : a \div BUF = flash.at \div BUF =>
            And(flash.mem[a], flash.slots[a % BUF]) = flash.slots[a % BUF]

(* Neither the status loops nor the retries go on for ever, once the flash *)
(* finishes what it starts and stops failing: every run that is not killed *)
(* ends.                                                                   *)
Finishes == pc \in Running ~> pc \notin Running
=============================================================================
