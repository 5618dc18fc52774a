------------------------- MODULE PgpCardPromProofs -------------------------
(***************************************************************************)
(* The flash programmer for every .mcs file, every size of the flash that  *)
(* the assumptions admit, any number of failed commands and of killed      *)
(* runs: a run that returns 0 leaves or finds the file in the flash, byte  *)
(* for byte; no program command has to turn a 0 into a 1; and a run of     *)
(* xPromLoad with a good file repairs what a killed run has left.          *)
(*                                                                         *)
(* The module goes from the data to the program: sequences and the .mcs    *)
(* reader, the cycles of the flash, the accesses of each part of the       *)
(* program, and then one inductive invariant on top of the other:          *)
(*   ControlInv    where the program is in the flash's protocol            *)
(*   ImageInv      what the verify pass has compared (LoadedImage)         *)
(*   OverwriteInv  what the erase and the write pass have reached          *)
(*                 (NoOverwrite)                                           *)
(*   RecoverInv    that it is what the file asks for (RunRecovers).        *)
(*                                                                         *)
(* What is recursive in the model (FlattenSeq) is unfolded by induction on *)
(* a set of numbers, SetInduction, because an induction over a formula     *)
(* would need an operator as a parameter.                                  *)
(***************************************************************************)
EXTENDS PgpCardProm, WellFoundedInduction, TLAPS

-----------------------------------------------------------------------------
(* Sequences of bytes. *)

(* What a line adds to the image, and the image up to line n. *)
Piece(f, k)  == IF Files[f].lines[k].type = DATA THEN Files[f].lines[k].bytes ELSE <<>>
Prefix(f, n) == FlattenSeq([k \in 1 .. n |-> Piece(f, k)])

(* Bytes that a reader has returned. *)
Given(f, r) == Len(Prefix(f, r.line)) - Len(r.data)

Reader == [line: Nat, data: Seq({0, 1}), endOfFile: BOOLEAN]

(* A reader stands in a part of the file without errors, and what it has   *)
(* not returned yet is the end of the image up to its line.                *)
ReaderOk(f, r) ==
    /\ r \in Reader
    /\ r.line <= Len(Files[f].lines)
    /\ \A k \in 1 .. r.line : (r.endOfFile /\ k = r.line) \/ Record(Files[f].lines[k]) \in {DATA, ELA}
    /\ r.endOfFile => r.line > 0 /\ Record(Files[f].lines[r.line]) = EOF /\ r.data = <<>>
    /\ Len(r.data) <= Len(Prefix(f, r.line))
    /\ \A i \in 1 .. Len(r.data) : r.data[i] = Prefix(f, r.line)[Given(f, r) + i]

-----------------------------------------------------------------------------
(* The flash and the accesses the program is about to make. *)

Bit == {0, 1}
FlashWord == Bit \X Bit
Bus == [cmd: {"", "FF", "60", "D0", "01", "03", "50", "20", "70", "E8"}, n: Nat, word: FlashWord]
Op == [a: Nat, cmd: Bus, rest: Seq(Bus)]
FlashType ==
    [mem: [Word -> FlashWord], mode: {"array", "status", "load"}, pend: {"", "60", "20", "E8"}, left: Nat,
     slots: [Slot -> FlashWord], busy: {"", "erase", "program"}, at: Nat,
     err: SUBSET {"erase", "program"}, unlocked: SUBSET Nat]

(* The last operations of s that are not done yet. *)
Rest(t, s) == Len(t) <= Len(s) /\ \A i \in 1 .. Len(t) : t[i] = s[Len(s) - Len(t) + i]

ProgramTypeOK ==
    /\ flash \in FlashType /\ flash.pend = ""
    /\ file \in DOMAIN Files /\ present \in BOOLEAN /\ tool \in {"load", "verify"}
    /\ pc \in Running \cup {"off", "exit0", "exit1", "abort"}
    /\ ops \in Seq(Op)
    /\ address \in Nat /\ byte \in Bit /\ toggle \in BOOLEAN /\ fileData \in Bit
    /\ bufAddr \in [Slot -> Nat \cup {UNSET}] /\ bufData \in [Slot -> FlashWord] /\ bufSize \in Slot
    /\ reader \in Reader
    /\ failures \in Nat /\ kills \in Nat /\ torn \in BOOLEAN

Quiet(f) == f \in FlashType /\ f.pend = "" /\ f.mode # "load" /\ f.busy = ""
Waiting  == flash.mode = "load" \/ flash.busy # ""

BufferSet == \A i \in Slot : bufAddr[i] # UNSET

(* Which accesses each part of the program makes. *)
OpsOk ==
    /\ pc \in {"off", "exit0", "exit1", "abort", "openWrite", "verify"} => ops = <<>>
    /\ pc = "fileExist" => Rest(ops, <<writeToFlash(1, Cmd("60"), Cmd("03"))>>)
    /\ pc = "erase" => ops = <<>> \/ (address >= BlockSize /\ ops = LockOps(address - BlockSize))
    /\ pc = "erasePoll" => Rest(ops, EraseOps(address))
    /\ pc \in {"write", "openVerify"} => ops = <<>> \/ (bufAddr[0] # UNSET /\ ops = LockOps(bufAddr[0]))
    /\ pc = "openVerify" /\ tool = "verify" => ops = <<>>
    /\ pc \in {"programPoll", "lastPoll"} => BufferSet /\ Rest(ops, ProgramOps(bufAddr, bufData))
    /\ pc = "write" => \A i \in 0 .. (bufSize - 1) : bufAddr[i] # UNSET
    /\ pc \in {"erase", "erasePoll", "openWrite", "write", "programPoll", "lastPoll"} => tool = "load"

(* A flash that waits for buffer words is not busy.  If it still waits for *)
(* the words of a killed run's buffer, it has taken every access of the    *)
(* erase pass for one: six to erase a block, one to ask for the status and *)
(* two to lock the block again, less those that are still to come.         *)
Within(left, blocks, more, n) == left + 9 * blocks + more <= BUF + 2 * n

EraseOk ==
    /\ flash.mode = "load" => flash.busy = "" /\ flash.left <= BUF
    /\ pc \in {"off", "fileExist"} => address = 0
    /\ pc \in {"erase", "erasePoll"} => address % BlockSize = 0
    /\ pc = "erase" /\ address # 0 => flash.busy = ""
    /\ pc = "erase" /\ flash.mode = "load" => Within(flash.left, Block(address), 0, Len(ops))
    /\ pc = "erasePoll" /\ flash.mode = "load" => Within(flash.left, Block(address), 6, Len(ops))

(* When the program reads the flash, or is about to program it, the flash  *)
(* has nothing left to do.                                                 *)
AtRest ==
    \/ tool = "load" /\ pc \in {"openWrite", "write", "openVerify", "verify", "exit0"}
    \/ tool = "verify" /\ ~torn /\ pc \in {"fileExist", "openVerify", "verify", "exit0"}
Settled == AtRest => ~Waiting

(* The contents of the write buffer after n words: the last word for each  *)
(* entry counts.                                                           *)
Entries(addr, n, s) == {i \in 0 .. (n - 1) : addr[i] % BUF = s}
Loaded(addr, data, n) ==
    [s \in Slot |-> IF Entries(addr, n, s) = {} THEN Ones
                    ELSE data[CHOOSE m \in Entries(addr, n, s) : \A i \in Entries(addr, n, s) : i <= m]]

(* During bufferedProgramCommand. *)
ProgramOk ==
    pc \in {"programPoll", "lastPoll"} =>
        /\ Len(ops) >= BUF + 2 => ~Waiting
        /\ Len(ops) \in 1 .. (BUF + 3) => Block(bufAddr[0]) \in flash.unlocked
        /\ Len(ops) \in 1 .. (BUF + 2) => flash.err = {}
        /\ Len(ops) \in 1 .. (BUF + 1) =>
               /\ flash.mode = "load" /\ flash.left = Len(ops) - 1
               /\ flash.slots = Loaded(bufAddr, bufData, BUF + 1 - Len(ops))
        /\ ops = <<>> => /\ flash.mode # "load"
                         /\ flash.busy # "" => flash.busy = "program" /\ flash.at = bufAddr[0]
                                              /\ flash.slots = Loaded(bufAddr, bufData, BUF)

Reading == pc \in {"write", "programPoll", "lastPoll", "verify"}
ReaderInv == Reading => ReaderOk(file, reader)

ControlInv == ProgramTypeOK /\ ReaderInv /\ OpsOk /\ EraseOk /\ Settled /\ ProgramOk

-----------------------------------------------------------------------------
(* The words of the image that the verify pass has compared. *)
WordIs(m, p, j) == /\ 2 * j + 1 <= Len(p) => m[j][1] = p[2 * j + 1]
                   /\ 2 * j + 2 <= Len(p) => m[j][2] = p[2 * j + 2]

Pass ==
    Reading =>
        /\ ~reader.endOfFile =>
              /\ Given(file, reader) = 2 * address + (IF toggle THEN 1 ELSE 0)
              /\ toggle => fileData = Prefix(file, reader.line)[Given(file, reader)]
              /\ Given(file, reader) > 0 => byte = Prefix(file, reader.line)[Given(file, reader)]
        /\ reader.endOfFile => 2 * address >= Given(file, reader) /\ 2 * address <= Given(file, reader) + 1

Reliable == ~(tool = "verify" /\ torn)
Compared == /\ pc = "verify" /\ Reliable => \A j \in 0 .. (address - 1) : WordIs(flash.mem, Prefix(file, reader.line), j)
            /\ LoadedImage
ImageInv == ControlInv /\ Pass /\ Compared
-----------------------------------------------------------------------------
(* xPromLoad, in a run that found the flash at rest: the erase pass.  What  *)
(* lies below the current block is erased, and when an erase command ended *)
(* without an error the block is.                                          *)
Clean == tool = "load" /\ ~torn

Erasing ==
    /\ Len(ops) \in 1 .. 3 => ~Waiting
    /\ Len(ops) \in 1 .. 2 => Block(address) \in flash.unlocked
    /\ Len(ops) = 0 => /\ flash.mode # "load"
                       /\ flash.busy # "" => flash.busy = "erase" /\ flash.at = address
                       /\ flash.busy = "" /\ "erase" \notin flash.err =>
                             \A a \in Word : Block(a) = Block(address) => flash.mem[a] = Ones

EraseSafe ==
    Clean =>
        /\ pc \in {"fileExist", "erase"} => ~Waiting
        /\ pc \in {"erase", "erasePoll"} => \A a \in Word : Block(a) < Block(address) => flash.mem[a] = Ones
        /\ pc = "openWrite" => \A a \in Word : flash.mem[a] = Ones
        /\ pc = "erasePoll" => Erasing

(* The write pass fills a buffer from a multiple of its size on; what lies *)
(* behind is still erased, and entries that were not written yet hold the  *)
(* addresses of the buffer before.                                         *)
Buffer(a)     == {b \in Word : b \div BUF = a \div BUF}
Base          == address - bufSize
ErasedFrom(b) == \A a \in Word : a >= b => flash.mem[a] = Ones
Aligned(b)    == b \in Nat /\ b % BUF = 0

Filling ==
    /\ Aligned(Base) /\ ErasedFrom(Base)
    /\ \A i \in 0 .. (bufSize - 1) : bufAddr[i] = Base + i
    /\ Base > 0 => \A i \in bufSize .. (BUF - 1) : bufAddr[i] = Base - BUF + i

(* While a buffer is programmed each of its words is erased or already     *)
(* holds what the buffer has for it, and when the command ended without an *)
(* error it holds it.                                                      *)
Target == Loaded(bufAddr, bufData, BUF)
Programming ==
    \A a \in Buffer(bufAddr[0]) :
        /\ flash.mem[a] \in {Ones, Target[a % BUF]}
        /\ ops = <<>> /\ flash.busy = "" /\ "program" \notin flash.err => flash.mem[a] = Target[a % BUF]

WriteSafe ==
    Clean =>
        /\ pc = "write" => Filling
        /\ pc = "programPoll" => /\ bufSize = 0 /\ Aligned(address) /\ address > 0 /\ ErasedFrom(address)
                                 /\ \A i \in Slot : bufAddr[i] = address - BUF + i
        /\ pc = "lastPoll" => bufSize > 0 /\ Aligned(Base) /\ bufAddr[0] = Base
        /\ pc \in {"programPoll", "lastPoll"} => Programming

OverwriteInv == ControlInv /\ EraseSafe /\ WriteSafe /\ NoOverwrite

(* A run of xPromLoad with a good file that fills a buffer: the words that *)
(* the file asks for, the last one with its missing byte repeated, and how *)
(* far they have come.                                                     *)
Words(f) == (Len(ImageBytes[f]) + 1) \div 2
Wd(f, j) == LET p == ImageBytes[f]
            IN  <<p[2 * j + 1], IF 2 * j + 2 <= Len(p) THEN p[2 * j + 2] ELSE p[Len(p)]>>

Written(n) == \A j \in 0 .. (n - 1) : flash.mem[j] = Wd(file, j)
Held(n, b) == \A i \in 0 .. (n - 1) : bufData[i] = Wd(file, b + i)

GoodRun == Clean /\ IsGood[file] /\ Len(ImageBytes[file]) >= 2 * BUF

RecoverOk ==
    GoodRun =>
        /\ pc \in {"exit1", "abort"} => ~present
        /\ pc = "write" => Written(Base) /\ Held(bufSize, Base)
        /\ pc = "programPoll" => Written(address - BUF) /\ Held(BUF, address - BUF)
        /\ pc = "lastPoll" => /\ Written(Base) /\ Held(bufSize, Base) /\ address = Words(file)
                              /\ \A i \in Slot : bufAddr[i] % BUF = i
        /\ pc \in {"openVerify", "verify"} => Written(Words(file))

RecoverInv == OverwriteInv /\ Pass /\ RecoverOk
-----------------------------------------------------------------------------
(* Induction over a data structure is induction over a set of numbers.     *)
LEMMA SetInduction ==
    ASSUME NEW S, 0 \in S, \A n \in Nat : n \in S => n + 1 \in S
    PROVE  Nat \subseteq S
<1> DEFINE T == {n \in Nat : n \notin S}
           R == OpToRel(<, Nat)
<1>1. SUFFICES ASSUME T # {} PROVE FALSE
  OBVIOUS
<1>2. PICK x \in T : \A y \in T : ~(<<y, x>> \in R)
  <2>1. T \subseteq Nat
    OBVIOUS
  <2> QED BY <1>1, <2>1, NatLessThanWellFounded, WFMin, Zenon
<1>3. \A y \in T : ~(y < x)
  BY <1>2 DEF OpToRel
<1>4. x # 0 /\ x \in Nat /\ x \notin S
  OBVIOUS
<1>5. x - 1 \in Nat /\ x - 1 \in T
  BY <1>4
<1> QED BY <1>3, <1>4, <1>5

(* A non-empty set of numbers has a first one. *)
LEMMA FirstOf ==
    ASSUME NEW S \in SUBSET Nat, S # {}
    PROVE  Min(S) \in S /\ \A n \in S : Min(S) <= n
<1>1. PICK m \in S : \A n \in S : ~(<<n, m>> \in OpToRel(<, Nat))
  BY NatLessThanWellFounded, WFMin, Zenon
<1>2. ASSUME NEW n \in S PROVE m <= n
  <2>1. <<n, m>> \in Nat \X Nat
    OBVIOUS
  <2>2. ~(n < m)
    BY <2>1, <1>1, Zenon DEF OpToRel
  <2> QED BY <2>1, <2>2
<1> QED BY <1>2, Zenon DEF Min

-----------------------------------------------------------------------------
(* FlattenSeq satisfies its own recursion equation. *)
Flat(s) == CHOOSE g : g = [i \in 1 .. Len(s) |-> IF i = 1 THEN s[i] ELSE g[i - 1] \o s[i]]

(* FlattenSeq is the last value of the recursive function Flat. *)
LEMMA FlattenIsFlat ==
    ASSUME NEW s
    PROVE  FlattenSeq(s) = IF Len(s) = 0 THEN s ELSE Flat(s)[Len(s)]
BY DEF FlattenSeq, Flat

(* Flat satisfies its equation: the recursive function exists. It is built *)
(* up over the natural numbers, as a set that SetInduction closes.         *)
LEMMA FlatDef ==
    ASSUME NEW A, NEW s \in Seq(Seq(A))
    PROVE  Flat(s) = [i \in 1 .. Len(s) |-> IF i = 1 THEN s[i] ELSE Flat(s)[i - 1] \o s[i]]
<1> DEFINE G(g, n) == g = [i \in 1 .. n |-> IF i = 1 THEN s[i] ELSE g[i - 1] \o s[i]]
           S == {n \in Nat : \E g : G(g, n)}
<1>1. 0 \in S
  <2> DEFINE g == [i \in 1 .. 0 |-> 0]
  <2>1. G(g, 0)
    OBVIOUS
  <2> HIDE DEF g
  <2> QED BY <2>1
<1>2. ASSUME NEW n \in Nat, n \in S PROVE n + 1 \in S
  <2>1. PICK g : G(g, n)
    BY <1>2
  <2> DEFINE h == [i \in 1 .. (n + 1) |-> IF i = n + 1 THEN (IF i = 1 THEN s[i] ELSE g[n] \o s[i])
                                          ELSE g[i]]
  <2>2. G(h, n + 1)
    <3>1. ASSUME NEW i \in 1 .. (n + 1) PROVE h[i] = IF i = 1 THEN s[i] ELSE h[i - 1] \o s[i]
      <4>1. CASE i = n + 1
        BY <4>1
      <4>2. CASE i # n + 1
        <5>1. i \in 1 .. n
          BY <4>2
        <5>2. g[i] = IF i = 1 THEN s[i] ELSE g[i - 1] \o s[i]
          BY <5>1, <2>1
        <5>3. i # 1 => i - 1 \in 1 .. n
          BY <5>1
        <5> QED BY <5>1, <5>2, <5>3
      <4> QED BY <4>1, <4>2
    <3> HIDE DEF h
    <3>2. h = [i \in 1 .. (n + 1) |-> h[i]]
      BY DEF h
    <3> QED BY <3>1, <3>2
  <2> HIDE DEF h, G
  <2> QED BY <2>2
<1>3. Len(s) \in S
  <2> HIDE DEF S
  <2>1. \A n \in Nat : n \in S => n + 1 \in S
    BY <1>2
  <2> QED BY <1>1, <2>1, SetInduction
<1>4. \E g : G(g, Len(s))
  BY <1>3
<1> QED BY <1>4 DEF Flat

(* The equation at one index. *)
LEMMA FlatAt ==
    ASSUME NEW A, NEW s \in Seq(Seq(A)), NEW n \in Nat, n + 1 \in 1 .. Len(s)
    PROVE  Flat(s)[n + 1] = IF n = 0 THEN s[n + 1] ELSE Flat(s)[n] \o s[n + 1]
<1>1. Flat(s) = [i \in 1 .. Len(s) |-> IF i = 1 THEN s[i] ELSE Flat(s)[i - 1] \o s[i]]
  BY FlatDef
<1>2. Flat(s)[n + 1] = IF n + 1 = 1 THEN s[n + 1] ELSE Flat(s)[(n + 1) - 1] \o s[n + 1]
  <2> DEFINE F == Flat(s)
  <2> HIDE DEF F
  <2> SUFFICES F[n + 1] = IF n + 1 = 1 THEN s[n + 1] ELSE F[(n + 1) - 1] \o s[n + 1]
    BY DEF F
  <2>1. F = [i \in 1 .. Len(s) |-> IF i = 1 THEN s[i] ELSE F[i - 1] \o s[i]]
    BY <1>1 DEF F
  <2> QED BY <2>1, Zenon
<1>3. (n + 1) - 1 = n /\ (n + 1 = 1 <=> n = 0)
  OBVIOUS
<1> QED BY <1>2, <1>3

(* The flattened part of a sequence of sequences over A is a sequence over *)
(* A.                                                                      *)
LEMMA FlatType ==
    ASSUME NEW A, NEW s \in Seq(Seq(A)), NEW n \in 1 .. Len(s)
    PROVE  Flat(s)[n] \in Seq(A)
<1> DEFINE S == {k \in Nat : k \in 1 .. Len(s) => Flat(s)[k] \in Seq(A)}
<1>1. 0 \in S
  OBVIOUS
<1>2. ASSUME NEW k \in Nat, k \in S PROVE k + 1 \in S
  <2>1. CASE k + 1 \in 1 .. Len(s)
    <3>1. s[k + 1] \in Seq(A)
      BY <2>1
    <3>2. Flat(s)[k + 1] = IF k = 0 THEN s[k + 1] ELSE Flat(s)[k] \o s[k + 1]
      BY <2>1, FlatAt
    <3>3. k # 0 => Flat(s)[k] \in Seq(A)
      BY <1>2, <2>1
    <3>4. k # 0 => Flat(s)[k] \o s[k + 1] \in Seq(A)
      <4> DEFINE F == Flat(s)[k]
      <4> HIDE DEF F
      <4>1. k # 0 => F \in Seq(A)
        BY <3>3 DEF F
      <4>2. k # 0 => F \o s[k + 1] \in Seq(A)
        BY <4>1, <3>1
      <4> QED BY <4>2 DEF F
    <3>5. Flat(s)[k + 1] \in Seq(A)
      <4>1. CASE k = 0
        <5>1. Flat(s)[k + 1] = s[k + 1]
          BY <3>2, <4>1, Zenon
        <5> QED BY <3>1, <5>1, Zenon
      <4>2. CASE k # 0
        <5>1. Flat(s)[k + 1] = Flat(s)[k] \o s[k + 1]
          BY <3>2, <4>2, Zenon
        <5> QED BY <3>4, <4>2, <5>1, Zenon
      <4> QED BY <4>1, <4>2
    <3> QED BY <3>5
  <2> QED BY <2>1
<1> HIDE DEF S
<1>3. n \in S
  <2>1. \A k \in Nat : k \in S => k + 1 \in S
    BY <1>2
  <2>2. n \in Nat
    OBVIOUS
  <2> QED BY <1>1, <2>1, <2>2, SetInduction
<1> QED BY <1>3 DEF S

(* FlattenSeq is a fold from the left. *)
LEMMA FlattenAppend ==
    ASSUME NEW A, NEW n \in Nat, NEW s, s \in [1 .. (n + 1) -> Seq(A)]
    PROVE  LET t == [k \in 1 .. n |-> s[k]]
           IN  /\ FlattenSeq(t) \in Seq(A)
               /\ FlattenSeq(s) = FlattenSeq(t) \o s[n + 1]
<1> DEFINE t == [k \in 1 .. n |-> s[k]]
<1>1. s \in Seq(Seq(A)) /\ Len(s) = n + 1 /\ t \in Seq(Seq(A)) /\ Len(t) = n
  OBVIOUS
<1>2. \A k \in 1 .. n : t[k] = s[k]
  OBVIOUS
<1>3. s[n + 1] \in Seq(A)
  OBVIOUS
<1>4. CASE n = 0
  <2>1. FlattenSeq(t) = <<>>
    BY <1>4, FlattenIsFlat
  <2>2. FlattenSeq(s) = s[1]
    <3>1. 0 + 1 \in 1 .. Len(s) /\ Len(s) = 1 /\ 0 \in Nat
      BY <1>1, <1>4
    <3>2. Flat(s)[0 + 1] = IF 0 = 0 THEN s[0 + 1] ELSE Flat(s)[0] \o s[0 + 1]
      BY <1>1, <3>1, FlatAt
    <3>3. FlattenSeq(s) = Flat(s)[1]
      <4>1. FlattenSeq(s) = IF Len(s) = 0 THEN s ELSE Flat(s)[Len(s)]
        BY FlattenIsFlat
      <4> QED BY <3>1, <4>1
    <3> QED BY <3>2, <3>3
  <2>3. <<>> \o s[1] = s[1]
    BY <1>3, <1>4
  <2>4. s[n + 1] = s[1] /\ s[1] \in Seq(A) /\ <<>> \in Seq(A)
    BY <1>3, <1>4
  <2> HIDE DEF t
  <2> QED BY <2>1, <2>2, <2>3, <2>4 DEF t
<1>5. CASE n # 0
  <2> HIDE DEF t
  <2> DEFINE S == {k \in Nat : k \in 1 .. n => Flat(s)[k] = Flat(t)[k]}
  <2>1. 0 \in S
    OBVIOUS
  <2>2. ASSUME NEW k \in Nat, k \in S PROVE k + 1 \in S
    <3>1. CASE k + 1 \in 1 .. n
      <4>0. k + 1 \in 1 .. Len(s) /\ k + 1 \in 1 .. Len(t)
        BY <3>1, <1>1
      <4>1. Flat(s)[k + 1] = IF k = 0 THEN s[k + 1] ELSE Flat(s)[k] \o s[k + 1]
        BY <4>0, <1>1, FlatAt
      <4>2. Flat(t)[k + 1] = IF k = 0 THEN t[k + 1] ELSE Flat(t)[k] \o t[k + 1]
        BY <4>0, <1>1, FlatAt
      <4>3. k # 0 => Flat(s)[k] = Flat(t)[k]
        BY <2>2, <3>1
      <4> QED BY <4>1, <4>2, <4>3, <1>2, <3>1
    <3> QED BY <3>1
  <2>3. n \in S
    <3> HIDE DEF S
    <3> QED BY <2>1, <2>2, SetInduction
  <2>4. Flat(s)[n] = Flat(t)[n]
    BY <2>3, <1>5
  <2>5. Flat(s)[n + 1] = Flat(s)[n] \o s[n + 1]
    <3>1. n + 1 \in 1 .. Len(s)
      BY <1>1
    <3>2. Flat(s)[n + 1] = IF n = 0 THEN s[n + 1] ELSE Flat(s)[n] \o s[n + 1]
      BY <3>1, <1>1, FlatAt
    <3> QED BY <1>5, <3>2
  <2>6. FlattenSeq(t) = Flat(t)[n] /\ FlattenSeq(s) = Flat(s)[n + 1]
    BY <1>1, <1>5, FlattenIsFlat
  <2>7. Flat(t)[n] \in Seq(A)
    BY <1>1, <1>5, FlatType
  <2> QED BY <2>4, <2>5, <2>6, <2>7 DEF t
<1> QED BY <1>4, <1>5

-----------------------------------------------------------------------------
(* The image up to a line. *)
LEMMA FileType ==
    ASSUME NEW f \in DOMAIN Files
    PROVE  /\ Files[f].lines \in Seq(Line) /\ Files[f].newline \in BOOLEAN
           /\ Len(Files[f].lines) \in Nat
           /\ \A k \in 1 .. Len(Files[f].lines) : Files[f].lines[k] \in Line
<1>1. Files[f] \in [lines: Seq(Line), newline: BOOLEAN]
  <2> DEFINE R == [lines: Seq(Line), newline: BOOLEAN]
  <2>1. Files \in Seq(R)
    BY FilesAssumption
  <2> HIDE DEF R
  <2>2. Files[f] \in R
    BY <2>1
  <2> QED BY <2>2 DEF R
<1>2. Files[f].lines \in Seq(Line) /\ Files[f].newline \in BOOLEAN
  BY <1>1
<1> HIDE DEF Line
<1> QED BY <1>2

(* What a line contributes is a sequence of bytes. *)
LEMMA PieceType ==
    ASSUME NEW f \in DOMAIN Files, NEW k \in 1 .. Len(Files[f].lines)
    PROVE  Piece(f, k) \in Seq(Bit)
<1>1. Files[f].lines[k] \in Line
  BY FileType
<1>2. Files[f].lines[k].bytes \in Seq({0, 1})
  BY <1>1 DEF Line
<1> QED BY <1>2 DEF Piece, Bit

(* One more line appends what it contributes. *)
LEMMA PrefixStep ==
    ASSUME NEW f \in DOMAIN Files, NEW n \in 0 .. (Len(Files[f].lines) - 1)
    PROVE  /\ Prefix(f, n) \in Seq(Bit) /\ Prefix(f, n + 1) \in Seq(Bit)
           /\ Prefix(f, n + 1) = Prefix(f, n) \o Piece(f, n + 1)
<1> DEFINE s == [k \in 1 .. (n + 1) |-> Piece(f, k)]
           t == [k \in 1 .. n |-> s[k]]
<1>1. Len(Files[f].lines) \in Nat
  BY FileType
<1>2. s \in [1 .. (n + 1) -> Seq(Bit)]
  <2>1. 1 .. (n + 1) \subseteq 1 .. Len(Files[f].lines)
    BY <1>1
  <2>2. \A k \in 1 .. (n + 1) : Piece(f, k) \in Seq(Bit)
    BY <2>1, PieceType
  <2> QED BY <2>2
<1>3. s[n + 1] = Piece(f, n + 1) /\ Piece(f, n + 1) \in Seq(Bit)
  BY <1>1, PieceType
<1>4. t = [k \in 1 .. n |-> Piece(f, k)]
  OBVIOUS
<1> HIDE DEF s
<1>5. FlattenSeq(t) \in Seq(Bit) /\ FlattenSeq(s) = FlattenSeq(t) \o s[n + 1]
  <2>1. n \in Nat
    OBVIOUS
  <2> QED BY <1>2, <2>1, FlattenAppend, Zenon
<1>6. FlattenSeq(t) = Prefix(f, n) /\ FlattenSeq(s) = Prefix(f, n + 1)
  BY <1>4 DEF Prefix, s
<1>7. FlattenSeq(t) \o s[n + 1] \in Seq(Bit)
  BY <1>3, <1>5
<1> HIDE DEF t
<1> QED BY <1>3, <1>5, <1>6, <1>7

(* The image up to any line is a sequence of bytes. *)
LEMMA PrefixType ==
    ASSUME NEW f \in DOMAIN Files, NEW n \in 0 .. Len(Files[f].lines)
    PROVE  Prefix(f, n) \in Seq(Bit) /\ Len(Prefix(f, n)) \in Nat
<1>1. Len(Files[f].lines) \in Nat
  BY FileType
<1>2. CASE n = 0
  <2>1. Prefix(f, 0) = <<>>
    BY FlattenIsFlat DEF Prefix
  <2>2. <<>> \in Seq(Bit) /\ Len(<<>>) = 0
    OBVIOUS
  <2> QED BY <1>2, <2>1, <2>2
<1>3. CASE n # 0
  <2>1. n - 1 \in 0 .. (Len(Files[f].lines) - 1) /\ (n - 1) + 1 = n
    BY <1>1, <1>3
  <2>2. Prefix(f, n) \in Seq(Bit)
    BY <2>1, PrefixStep
  <2> QED BY <2>2
<1> QED BY <1>2, <1>3

(* No line, no image. *)
LEMMA PrefixZero == \A f : Prefix(f, 0) = <<>>
BY FlattenIsFlat DEF Prefix

(* Later lines only append to the image. *)
Extends(p, q) == Len(p) <= Len(q) /\ \A i \in 1 .. Len(p) : q[i] = p[i]

(* The image up to a later line extends the image up to an earlier one; *)
(* lines that are no data records add nothing.                          *)
LEMMA PrefixMono ==
    ASSUME NEW f \in DOMAIN Files, NEW n \in Nat, NEW m \in Nat,
           n <= m, m <= Len(Files[f].lines)
    PROVE  /\ Extends(Prefix(f, n), Prefix(f, m))
           /\ (\A k \in (n + 1) .. m : Files[f].lines[k].type # DATA) => Prefix(f, m) = Prefix(f, n)
<1> DEFINE E(d) == n + d <= Len(Files[f].lines) =>
                     /\ Extends(Prefix(f, n), Prefix(f, n + d))
                     /\ (\A k \in (n + 1) .. (n + d) : Files[f].lines[k].type # DATA) =>
                           Prefix(f, n + d) = Prefix(f, n)
           S == {d \in Nat : E(d)}
<1>0. Len(Files[f].lines) \in Nat
  BY FileType
<1>1. 0 \in S
  <2>1. E(0)
    BY <1>0, PrefixType DEF Extends
  <2> QED BY <2>1
<1>2. ASSUME NEW d \in Nat, d \in S PROVE d + 1 \in S
  <2>1. ASSUME n + (d + 1) <= Len(Files[f].lines) PROVE E(d + 1)
    <3>1. n + d \in 0 .. (Len(Files[f].lines) - 1) /\ (n + d) + 1 = n + (d + 1)
      BY <1>0, <2>1
    <3>2. /\ Prefix(f, n + d) \in Seq(Bit)
          /\ Prefix(f, n + (d + 1)) = Prefix(f, n + d) \o Piece(f, n + (d + 1))
      BY <3>1, PrefixStep
    <3>3. Piece(f, n + (d + 1)) \in Seq(Bit)
      BY <3>1, <1>0, PieceType
    <3>4. E(d)
      BY <1>2
    <3>5. Extends(Prefix(f, n), Prefix(f, n + d))
      BY <3>1, <3>4, <1>0
    <3>6. Prefix(f, n) \in Seq(Bit)
      BY <3>1, <1>0, PrefixType
    <3>7. Extends(Prefix(f, n), Prefix(f, n + (d + 1)))
      <4>1. Extends(Prefix(f, n + d), Prefix(f, n + (d + 1)))
        BY <3>2, <3>3 DEF Extends
      <4> QED BY <4>1, <3>2, <3>3, <3>5, <3>6 DEF Extends
    <3>8. ASSUME \A k \in (n + 1) .. (n + (d + 1)) : Files[f].lines[k].type # DATA
          PROVE  Prefix(f, n + (d + 1)) = Prefix(f, n)
      <4>1. Prefix(f, n + d) = Prefix(f, n)
        BY <3>1, <3>4, <3>8, <1>0
      <4>2. Piece(f, n + (d + 1)) = <<>>
        BY <3>1, <3>8 DEF Piece
      <4> QED BY <4>1, <4>2, <3>2
    <3> QED BY <3>7, <3>8
  <2> QED BY <2>1
<1>3. m - n \in S
  <2> HIDE DEF S
  <2>1. m - n \in Nat
    OBVIOUS
  <2> QED BY <1>1, <1>2, <2>1, SetInduction
<1>4. n + (m - n) = m
  OBVIOUS
<1> QED BY <1>3, <1>4

-----------------------------------------------------------------------------
(* One call of the reader. *)
LEMMA RecordValues ==
    ASSUME NEW l
    PROVE  /\ Record(l) \in {FAIL, DATA, EOF, ELA} \/ Record(l) = l.type
           /\ Record(l) = DATA => l.type = DATA /\ Len(l.bytes) # 0
           /\ Record(l) = ELA => l.type = ELA
           /\ Record(l) = EOF => l.type = EOF
           /\ Record(l) \in {FAIL, DATA, EOF, ELA}
BY DEF Record, FAIL, DATA, EOF, ELA

(* next returns the record of the line after n, or an error behind the *)
(* last one.                                                           *)
LEMMA NextValue ==
    ASSUME NEW f \in DOMAIN Files, NEW n \in 0 .. Len(Files[f].lines)
    PROVE  /\ n < Len(Files[f].lines) => next[f][n] = Record(Files[f].lines[n + 1])
           /\ n = Len(Files[f].lines) => next[f][n] \in {ABORT, FAIL}
BY FileType DEF next

(* next is called until it returns something else than an address record. *)
Skipped(f, n, k) == /\ k \in n .. Len(Files[f].lines) /\ next[f][k] # ELA
                    /\ \A j \in n .. (k - 1) : next[f][j] = ELA
Skip(f, n) == CHOOSE k \in n .. Len(Files[f].lines) :
                  next[f][k] # ELA /\ \A j \in n .. (k - 1) : next[f][j] = ELA

(* The number of lines that read() skips is well defined. *)
LEMMA SkipDef ==
    ASSUME NEW f \in DOMAIN Files, NEW n \in 0 .. Len(Files[f].lines)
    PROVE  Skipped(f, n, Skip(f, n))
<1> DEFINE L == Len(Files[f].lines)
           S == {k \in n .. L : next[f][k] # ELA}
<1>1. L \in Nat
  BY FileType
<1>2. L \in S
  BY <1>1, NextValue DEF ABORT, FAIL, ELA
<1>3. S \in SUBSET Nat
  BY <1>1
<1>4. Min(S) \in S /\ \A k \in S : Min(S) <= k
  BY <1>2, <1>3, FirstOf
<1>5. \A j \in n .. (Min(S) - 1) : next[f][j] = ELA
  BY <1>1, <1>4
<1>6. \E k \in n .. L : next[f][k] # ELA /\ \A j \in n .. (k - 1) : next[f][j] = ELA
  BY <1>4, <1>5
<1> HIDE DEF L
<1>7. /\ Skip(f, n) \in n .. L /\ next[f][Skip(f, n)] # ELA
      /\ \A j \in n .. (Skip(f, n) - 1) : next[f][j] = ELA
  BY <1>6, Zenon DEF Skip, L
<1> QED BY <1>7 DEF Skipped, L

(* The three ways read() goes on: the rest of a record, the next data *)
(* record, or a status without a byte.                                *)
LEMMA ReadCases ==
    ASSUME NEW f, NEW r
    PROVE  LET k == Skip(f, r.line)
               b == Files[f].lines[k + 1].bytes
           IN  read(f, r) =
                 IF r.data # <<>>
                 THEN [status |-> DATA, byte |-> <<Head(r.data)>>,
                       reader |-> [r EXCEPT !.line = r.line, !.data = Tail(r.data)]]
                 ELSE IF next[f][k] = DATA
                 THEN [status |-> DATA, byte |-> <<Head(b)>>,
                       reader |-> [r EXCEPT !.line = k + 1, !.data = Tail(b)]]
                 ELSE [status |-> next[f][k], byte |-> <<>>,
                       reader |-> [r EXCEPT !.line = k + 1, !.endOfFile = (next[f][k] = EOF)]]
BY DEF read, Skip

(* Head and Tail of a sequence, as facts for the provers. *)
LEMMA TailFacts ==
    ASSUME NEW A, NEW s \in Seq(A), s # <<>>
    PROVE  /\ Len(s) \in Nat \ {0} /\ Tail(s) \in Seq(A) /\ Len(Tail(s)) = Len(s) - 1
           /\ \A i \in 1 .. (Len(s) - 1) : Tail(s)[i] = s[i + 1]
           /\ Head(s) = s[1] /\ Head(s) \in A
OBVIOUS

(* The bytes that were given stay the same while the reader advances. *)
Advanced(f, r, q) ==
    /\ r.line <= q.line
    /\ Extends(Prefix(f, r.line), Prefix(f, q.line))

(* read() returns the next byte of the record it is in. *)
LEMMA ReadData ==
    ASSUME NEW f \in DOMAIN Files, NEW r, ReaderOk(f, r), r.data # <<>>, ~r.endOfFile
    PROVE  LET q == [r EXCEPT !.line = r.line, !.data = Tail(r.data)]
           IN  /\ ReaderOk(f, q) /\ ~q.endOfFile /\ q.line = r.line
               /\ Given(f, q) = Given(f, r) + 1
               /\ Given(f, q) <= Len(Prefix(f, q.line))
               /\ Head(r.data) = Prefix(f, q.line)[Given(f, q)]
<1> DEFINE q == [r EXCEPT !.line = r.line, !.data = Tail(r.data)]
           p == Prefix(f, r.line)
<1>1. r \in Reader /\ r.line \in 0 .. Len(Files[f].lines) /\ Len(p) \in Nat
  BY FileType, PrefixType DEF ReaderOk, Reader
<1>2. /\ Len(r.data) \in Nat \ {0} /\ Tail(r.data) \in Seq({0, 1}) /\ Len(Tail(r.data)) = Len(r.data) - 1
      /\ \A i \in 1 .. (Len(r.data) - 1) : Tail(r.data)[i] = r.data[i + 1]
      /\ Head(r.data) = r.data[1]
  BY <1>1, TailFacts DEF Reader
<1>3. q \in Reader /\ q.line = r.line /\ q.data = Tail(r.data) /\ q.endOfFile = FALSE
  BY <1>1, <1>2 DEF Reader
<1>4. Len(r.data) <= Len(p) /\ \A i \in 1 .. Len(r.data) : r.data[i] = p[Given(f, r) + i]
  BY DEF ReaderOk
<1>5. Given(f, r) = Len(p) - Len(r.data) /\ Given(f, q) = Len(p) - Len(q.data)
  BY <1>3 DEF Given
<1> HIDE DEF q, p
<1> DEFINE n == Len(r.data)
<1> HIDE DEF n
<1>5a. n \in Nat \ {0} /\ Len(q.data) = n - 1 /\ Given(f, r) = Len(p) - n
  BY <1>2, <1>3, <1>5 DEF n
<1>6. Given(f, q) = Given(f, r) + 1 /\ Given(f, q) <= Len(p)
  <2>1. Given(f, q) = Len(p) - (n - 1)
    BY <1>5, <1>5a
  <2>2. Len(p) \in Nat
    BY <1>1
  <2> QED BY <2>1, <2>2, <1>5a
<1>7. \A i \in 1 .. Len(q.data) : q.data[i] = p[Given(f, q) + i]
  <2> SUFFICES ASSUME NEW i \in 1 .. Len(q.data) PROVE q.data[i] = p[Given(f, q) + i]
    OBVIOUS
  <2>1. i \in 1 .. (Len(r.data) - 1) /\ i + 1 \in 1 .. Len(r.data)
    BY <1>2, <1>3
  <2>2. q.data[i] = r.data[i + 1]
    BY <1>2, <1>3, <2>1
  <2>3. r.data[i + 1] = p[Given(f, r) + (i + 1)]
    BY <1>4, <2>1
  <2>4. Given(f, r) + (i + 1) = Given(f, q) + i
    BY <1>1, <1>5, <1>5a, <2>1 DEF n
  <2> QED BY <2>2, <2>3, <2>4
<1>8. \A k \in 1 .. q.line : (q.endOfFile /\ k = q.line) \/ Record(Files[f].lines[k]) \in {DATA, ELA}
  BY <1>3 DEF ReaderOk
<1>9. Len(q.data) <= Len(p)
  BY <1>1, <1>2, <1>3, <1>4
<1>10. ReaderOk(f, q)
  BY <1>1, <1>3, <1>7, <1>8, <1>9 DEF ReaderOk, p
<1>11. r.data[1] = p[Given(f, r) + 1]
  BY <1>2, <1>4
<1> QED BY <1>2, <1>3, <1>6, <1>10, <1>11 DEF p, q

(* The lines that are skipped are address records. *)
LEMMA SkippedLines ==
    ASSUME NEW f \in DOMAIN Files, NEW r, ReaderOk(f, r), r.data = <<>>, ~r.endOfFile,
           NEW k, k = Skip(f, r.line), k < Len(Files[f].lines)
    PROVE  /\ k \in Nat /\ r.line <= k
           /\ next[f][k] = Record(Files[f].lines[k + 1])
           /\ \A i \in 1 .. k : Record(Files[f].lines[i]) \in {DATA, ELA}
           /\ Prefix(f, k) = Prefix(f, r.line) /\ Given(f, r) = Len(Prefix(f, k))
<1>1. r.line \in 0 .. Len(Files[f].lines) /\ Len(Files[f].lines) \in Nat /\ r.line \in Nat
  BY FileType DEF ReaderOk, Reader
<1>2. Skipped(f, r.line, k)
  BY <1>1, SkipDef
<1>3. k \in Nat /\ r.line <= k
  BY <1>1, <1>2 DEF Skipped
<1>4. \A i \in (r.line + 1) .. k : Record(Files[f].lines[i]) = ELA
  <2> SUFFICES ASSUME NEW i \in (r.line + 1) .. k PROVE Record(Files[f].lines[i]) = ELA
    OBVIOUS
  <2>1. i - 1 \in r.line .. (k - 1) /\ i - 1 \in 0 .. Len(Files[f].lines) /\ (i - 1) + 1 = i
        /\ i - 1 < Len(Files[f].lines)
    BY <1>1, <1>3
  <2>2. next[f][i - 1] = ELA
    BY <1>2, <2>1 DEF Skipped
  <2>3. next[f][i - 1] = Record(Files[f].lines[(i - 1) + 1])
    BY <2>1, NextValue
  <2> QED BY <2>1, <2>2, <2>3
<1>5. \A i \in 1 .. r.line : Record(Files[f].lines[i]) \in {DATA, ELA}
  BY DEF ReaderOk
<1>6. \A i \in 1 .. k : i \in 1 .. r.line \/ i \in (r.line + 1) .. k
  BY <1>1, <1>3
<1>7. \A i \in 1 .. k : Record(Files[f].lines[i]) \in {DATA, ELA}
  BY <1>4, <1>5, <1>6
<1>8. Prefix(f, k) = Prefix(f, r.line)
  <2>1. \A i \in (r.line + 1) .. k : Files[f].lines[i].type # DATA
    BY <1>4, RecordValues DEF ELA, DATA
  <2> QED BY <1>1, <1>3, <2>1, PrefixMono
<1>9. next[f][k] = Record(Files[f].lines[k + 1])
  <2>1. k \in 0 .. Len(Files[f].lines)
    BY <1>1, <1>3
  <2> QED BY <2>1, NextValue
<1>10. Given(f, r) = Len(Prefix(f, k))
  <2>1. Len(Prefix(f, r.line)) \in Nat
    BY <1>1, PrefixType
  <2> QED BY <1>8, <2>1 DEF Given
<1> QED BY <1>3, <1>7, <1>8, <1>9, <1>10

(* read() goes to the next data record and returns its first byte. *)
LEMMA ReadRecord ==
    ASSUME NEW f \in DOMAIN Files, NEW r, ReaderOk(f, r), r.data = <<>>, ~r.endOfFile,
           NEW k, k = Skip(f, r.line), k < Len(Files[f].lines), next[f][k] = DATA,
           NEW q \in Reader, q.line = k + 1, q.data = Tail(Files[f].lines[k + 1].bytes), ~q.endOfFile
    PROVE  /\ ReaderOk(f, q) /\ ~q.endOfFile /\ Advanced(f, r, q)
           /\ Given(f, q) = Given(f, r) + 1
           /\ Given(f, q) <= Len(Prefix(f, q.line))
           /\ Head(Files[f].lines[k + 1].bytes) = Prefix(f, q.line)[Given(f, q)]
<1> DEFINE p == Prefix(f, k + 1)
           b == Files[f].lines[k + 1].bytes
<1>1. /\ k \in Nat /\ r.line <= k
      /\ next[f][k] = Record(Files[f].lines[k + 1])
      /\ \A i \in 1 .. k : Record(Files[f].lines[i]) \in {DATA, ELA}
      /\ Prefix(f, k) = Prefix(f, r.line) /\ Given(f, r) = Len(Prefix(f, k))
  BY SkippedLines
<1>2. r \in Reader /\ r.line \in Nat /\ Len(Files[f].lines) \in Nat
  BY FileType DEF ReaderOk, Reader
<1>3. k \in 0 .. (Len(Files[f].lines) - 1) /\ k + 1 \in 1 .. Len(Files[f].lines)
  BY <1>1, <1>2
<1>4. Files[f].lines[k + 1].type = DATA /\ Len(b) # 0
  BY <1>1, RecordValues
<1>5. Piece(f, k + 1) = b
  BY <1>4 DEF Piece
<1>6. /\ Prefix(f, k) \in Seq(Bit) /\ p \in Seq(Bit) /\ p = Prefix(f, k) \o b
      /\ b \in Seq({0, 1})
  BY <1>3, <1>5, PrefixStep, PieceType DEF Bit
<1>7. b # <<>>
  BY <1>4
<1> HIDE DEF b
<1>8. /\ Len(b) \in Nat \ {0} /\ Tail(b) \in Seq({0, 1}) /\ Len(Tail(b)) = Len(b) - 1
      /\ \A i \in 1 .. (Len(b) - 1) : Tail(b)[i] = b[i + 1]
      /\ Head(b) = b[1]
  BY <1>6, <1>7, TailFacts
<1>9. q \in Reader /\ q.line = k + 1 /\ q.data = Tail(b) /\ ~q.endOfFile
  BY DEF b
<1> DEFINE n == Len(b)
           c == Len(Prefix(f, k))
<1> HIDE DEF p, n, c
<1>9a. n \in Nat \ {0} /\ Len(q.data) = n - 1 /\ c \in Nat /\ Len(p) = c + n
  <2>1. n \in Nat \ {0} /\ Len(q.data) = n - 1
    BY <1>8, <1>9 DEF n
  <2>2. c \in Nat /\ Len(Prefix(f, k) \o b) = c + n
    BY <1>6 DEF n, c
  <2> QED BY <1>6, <2>1, <2>2
<1>10. \A i \in 1 .. n : p[c + i] = b[i]
  BY <1>6 DEF n, c
<1>11. Given(f, q) = Len(p) - Len(q.data) /\ Given(f, r) = c
  BY <1>1, <1>9 DEF Given, p, c
<1>12. Given(f, q) = Given(f, r) + 1 /\ Given(f, q) <= Len(p) /\ Given(f, q) = c + 1
  BY <1>9a, <1>11
<1>13. Head(b) = p[Given(f, q)]
  <2>1. 1 \in 1 .. n
    BY <1>9a
  <2> QED BY <1>8, <1>10, <1>12, <2>1
<1>14. \A i \in 1 .. Len(q.data) : q.data[i] = p[Given(f, q) + i]
  <2> SUFFICES ASSUME NEW i \in 1 .. Len(q.data) PROVE q.data[i] = p[Given(f, q) + i]
    OBVIOUS
  <2>1. i \in 1 .. (n - 1) /\ i + 1 \in 1 .. n
    BY <1>9a
  <2>2. q.data[i] = b[i + 1]
    BY <1>8, <1>9, <2>1 DEF n
  <2>3. b[i + 1] = p[c + (i + 1)]
    BY <1>10, <2>1
  <2>4. c + (i + 1) = Given(f, q) + i
    BY <1>9a, <1>12, <2>1
  <2> QED BY <2>2, <2>3, <2>4
<1>15. \A i \in 1 .. q.line : (q.endOfFile /\ i = q.line) \/ Record(Files[f].lines[i]) \in {DATA, ELA}
  BY <1>1, <1>9
<1>16. Len(q.data) <= Len(p) /\ q.line <= Len(Files[f].lines)
  BY <1>3, <1>9, <1>9a
<1>17. ReaderOk(f, q)
  BY <1>9, <1>14, <1>15, <1>16 DEF ReaderOk, p
<1>18. Advanced(f, r, q)
  <2>1. k + 1 \in Nat /\ r.line <= k + 1 /\ k + 1 <= Len(Files[f].lines)
    BY <1>1, <1>2, <1>3
  <2>2. Extends(Prefix(f, r.line), Prefix(f, k + 1))
    BY <2>1, <1>2, PrefixMono
  <2> QED BY <1>9, <2>1, <2>2 DEF Advanced
<1>19. p = Prefix(f, q.line)
  BY <1>9 DEF p
<1> QED BY <1>9, <1>12, <1>13, <1>17, <1>18, <1>19 DEF b

(* read() reaches the end-of-file record: every byte has been given. *)
LEMMA ReadEnd ==
    ASSUME NEW f \in DOMAIN Files, NEW r, ReaderOk(f, r), r.data = <<>>, ~r.endOfFile,
           NEW k, k = Skip(f, r.line), k < Len(Files[f].lines), next[f][k] = EOF,
           NEW q \in Reader, q.line = k + 1, q.data = <<>>, q.endOfFile
    PROVE  /\ ReaderOk(f, q) /\ q.endOfFile /\ Advanced(f, r, q)
           /\ Given(f, q) = Given(f, r)
           /\ Prefix(f, q.line) = Prefix(f, r.line) /\ Given(f, q) = Len(Prefix(f, q.line))
<1>1. /\ k \in Nat /\ r.line <= k
      /\ next[f][k] = Record(Files[f].lines[k + 1])
      /\ \A i \in 1 .. k : Record(Files[f].lines[i]) \in {DATA, ELA}
      /\ Prefix(f, k) = Prefix(f, r.line) /\ Given(f, r) = Len(Prefix(f, k))
  BY SkippedLines
<1>2. r \in Reader /\ r.line \in Nat /\ Len(Files[f].lines) \in Nat
  BY FileType DEF ReaderOk, Reader
<1>3. k \in 0 .. (Len(Files[f].lines) - 1) /\ k + 1 \in Nat /\ k + 1 <= Len(Files[f].lines)
  BY <1>1, <1>2
<1>4. q \in Reader /\ q.line = k + 1 /\ q.data = <<>> /\ q.endOfFile
  OBVIOUS
<1>5. Record(Files[f].lines[k + 1]) = EOF /\ Files[f].lines[k + 1].type # DATA
  BY <1>1, RecordValues DEF EOF, DATA
<1>6. Prefix(f, k + 1) = Prefix(f, k)
  <2>1. \A i \in (k + 1) .. (k + 1) : Files[f].lines[i].type # DATA
    BY <1>1, <1>5
  <2> QED BY <1>1, <1>3, <2>1, PrefixMono
<1>7. Len(Prefix(f, k + 1)) \in Nat
  BY <1>3, PrefixType
<1>8. Given(f, q) = Given(f, r) /\ Given(f, q) = Len(Prefix(f, q.line))
  BY <1>1, <1>4, <1>6, <1>7 DEF Given
<1>9. \A i \in 1 .. q.line : (q.endOfFile /\ i = q.line) \/ Record(Files[f].lines[i]) \in {DATA, ELA}
  BY <1>1, <1>4
<1>10. ReaderOk(f, q)
  <2>1. q.line > 0 /\ q.line <= Len(Files[f].lines) /\ Len(q.data) <= Len(Prefix(f, q.line))
    BY <1>1, <1>3, <1>4, <1>7
  <2> QED BY <1>4, <1>5, <1>9, <2>1 DEF ReaderOk
<1>11. Advanced(f, r, q)
  <2>1. r.line <= k + 1
    BY <1>1, <1>2
  <2>2. Extends(Prefix(f, r.line), Prefix(f, k + 1))
    BY <2>1, <1>2, <1>3, PrefixMono
  <2> QED BY <1>4, <2>1, <2>2 DEF Advanced
<1> QED BY <1>1, <1>4, <1>6, <1>8, <1>10, <1>11

(* What a call of the reader gives: an error, the next byte of the image,  *)
(* or the end of the file, when the whole image was given.                 *)
LEMMA ReadStep ==
    ASSUME NEW f \in DOMAIN Files, NEW r, ReaderOk(f, r), ~r.endOfFile,
           NEW x, x = read(f, r), NEW q, q = x.reader
    PROVE  \/ x.status \in {FAIL, ABORT}
           \/ /\ x.status = DATA
              /\ ReaderOk(f, q) /\ ~q.endOfFile /\ Advanced(f, r, q)
              /\ Given(f, q) = Given(f, r) + 1 /\ Given(f, q) <= Len(Prefix(f, q.line))
              /\ x.byte = <<Prefix(f, q.line)[Given(f, q)]>>
           \/ /\ x.status = EOF
              /\ ReaderOk(f, q) /\ q.endOfFile /\ Advanced(f, r, q)
              /\ Given(f, q) = Given(f, r) /\ Prefix(f, q.line) = Prefix(f, r.line)
              /\ Given(f, q) = Len(Prefix(f, q.line))
              /\ x.byte = <<>>
<1> DEFINE k == Skip(f, r.line)
           b == Files[f].lines[k + 1].bytes
<1>1. x = IF r.data # <<>>
          THEN [status |-> DATA, byte |-> <<Head(r.data)>>,
                reader |-> [r EXCEPT !.line = r.line, !.data = Tail(r.data)]]
          ELSE IF next[f][k] = DATA
          THEN [status |-> DATA, byte |-> <<Head(b)>>,
                reader |-> [r EXCEPT !.line = k + 1, !.data = Tail(b)]]
          ELSE [status |-> next[f][k], byte |-> <<>>,
                reader |-> [r EXCEPT !.line = k + 1, !.endOfFile = (next[f][k] = EOF)]]
  BY ReadCases
<1>2. r.line \in 0 .. Len(Files[f].lines) /\ r.line \in Nat /\ Len(Files[f].lines) \in Nat
  BY FileType DEF ReaderOk, Reader
<1>3. CASE r.data # <<>>
  <2>1. x = [status |-> DATA, byte |-> <<Head(r.data)>>,
             reader |-> [r EXCEPT !.line = r.line, !.data = Tail(r.data)]]
    BY <1>1, <1>3
  <2>2. x.status = DATA /\ x.byte = <<Head(r.data)>> /\ q = [r EXCEPT !.line = r.line, !.data = Tail(r.data)]
    BY <2>1
  <2>3. /\ ReaderOk(f, q) /\ ~q.endOfFile /\ q.line = r.line
        /\ Given(f, q) = Given(f, r) + 1
        /\ Given(f, q) <= Len(Prefix(f, q.line))
        /\ Head(r.data) = Prefix(f, q.line)[Given(f, q)]
    BY <1>3, <2>2, ReadData, Zenon
  <2>4. Advanced(f, r, q)
    <3>1. Len(Prefix(f, r.line)) \in Nat
      BY <1>2, PrefixType
    <3> QED BY <1>2, <2>3, <3>1 DEF Advanced, Extends
  <2> QED BY <2>2, <2>3, <2>4, Zenon
<1>4. CASE r.data = <<>>
  <2>1. Skipped(f, r.line, k)
    BY <1>2, SkipDef
  <2>2. k \in 0 .. Len(Files[f].lines) /\ next[f][k] # ELA
    BY <1>2, <2>1 DEF Skipped
  <2>3. next[f][k] \in {FAIL, ABORT, DATA, EOF} /\ (next[f][k] \notin {FAIL, ABORT} => k < Len(Files[f].lines))
    <3>1. CASE k < Len(Files[f].lines)
      BY <2>2, <3>1, NextValue, RecordValues
    <3>2. CASE k = Len(Files[f].lines)
      BY <2>2, <3>2, NextValue
    <3> QED BY <1>2, <2>2, <3>1, <3>2
  <2>4. CASE next[f][k] = DATA
    <3>1. x.status = DATA /\ x.byte = <<Head(b)>> /\ q = [r EXCEPT !.line = k + 1, !.data = Tail(b)]
      BY <1>1, <1>4, <2>4
    <3>2. k < Len(Files[f].lines)
      BY <2>3, <2>4 DEF FAIL, ABORT, DATA
    <3>3. /\ ReaderOk(f, q) /\ ~q.endOfFile /\ Advanced(f, r, q)
          /\ Given(f, q) = Given(f, r) + 1
          /\ Given(f, q) <= Len(Prefix(f, q.line))
          /\ Head(b) = Prefix(f, q.line)[Given(f, q)]
      <4>1. k = Skip(f, r.line)
        OBVIOUS
      <4> HIDE DEF k
      <4>2. b = Files[f].lines[k + 1].bytes
        OBVIOUS
      <4>3. b \in Seq({0, 1}) /\ b # <<>>
        <5>1. k + 1 \in 1 .. Len(Files[f].lines)
          BY <1>2, <2>2, <3>2
        <5>2. next[f][k] = Record(Files[f].lines[k + 1])
          BY <2>2, <3>2, NextValue
        <5> QED BY <2>4, <5>1, <5>2, RecordValues, FileType, SMTT(30) DEF Line
      <4> HIDE DEF b
      <4>4. Tail(b) \in Seq({0, 1})
        BY <4>3
      <4>5. q \in Reader /\ q.line = k + 1 /\ q.data = Tail(b) /\ ~q.endOfFile
        <5> DEFINE t == Tail(b)
        <5> HIDE DEF t
        <5>1. t \in Seq({0, 1}) /\ k + 1 \in Nat /\ r \in Reader /\ ~r.endOfFile
          BY <2>2, <4>4 DEF t, ReaderOk
        <5>2. q = [r EXCEPT !.line = k + 1, !.data = t]
          BY <3>1 DEF t
        <5>3. q \in Reader /\ q.line = k + 1 /\ q.data = t /\ q.endOfFile = r.endOfFile
          BY <5>1, <5>2 DEF Reader
        <5> QED BY <5>1, <5>3 DEF t
      <4>6. q.data = Tail(Files[f].lines[k + 1].bytes)
        BY <4>2, <4>5
      <4>7. /\ ReaderOk(f, q) /\ ~q.endOfFile /\ Advanced(f, r, q)
            /\ Given(f, q) = Given(f, r) + 1
            /\ Given(f, q) <= Len(Prefix(f, q.line))
            /\ Head(Files[f].lines[k + 1].bytes) = Prefix(f, q.line)[Given(f, q)]
        BY <1>4, <2>4, <3>2, <4>1, <4>5, <4>6, ReadRecord
      <4> QED BY <4>2, <4>7
    <3> QED BY <3>1, <3>3, Zenon
  <2>5. CASE next[f][k] = EOF
    <3>1. x.status = EOF /\ x.byte = <<>> /\ q = [r EXCEPT !.line = k + 1, !.endOfFile = (next[f][k] = EOF)]
      BY <1>1, <1>4, <2>5 DEF EOF, DATA
    <3>2. k < Len(Files[f].lines)
      BY <2>3, <2>5 DEF FAIL, ABORT, EOF
    <3>3. /\ ReaderOk(f, q) /\ q.endOfFile /\ Advanced(f, r, q)
          /\ Given(f, q) = Given(f, r)
          /\ Prefix(f, q.line) = Prefix(f, r.line) /\ Given(f, q) = Len(Prefix(f, q.line))
      <4>1. k = Skip(f, r.line)
        OBVIOUS
      <4> HIDE DEF k
      <4>2. q \in Reader /\ q.line = k + 1 /\ q.data = <<>> /\ q.endOfFile
        <5>1. k + 1 \in Nat /\ r \in Reader
          BY <2>2 DEF ReaderOk
        <5>2. q = [r EXCEPT !.line = k + 1, !.endOfFile = TRUE]
          BY <3>1, <2>5
        <5> QED BY <1>4, <5>1, <5>2 DEF Reader
      <4> QED BY <1>4, <2>5, <3>2, <4>1, <4>2, ReadEnd
    <3> QED BY <3>1, <3>3, Zenon
  <2>6. CASE next[f][k] \in {FAIL, ABORT}
    <3>1. x.status = next[f][k]
      BY <1>1, <1>4, <2>6 DEF FAIL, ABORT, DATA
    <3> QED BY <2>6, <3>1
  <2> QED BY <2>3, <2>4, <2>5, <2>6
<1> QED BY <1>3, <1>4

(* A reader that has just been opened. *)
LEMMA OpenReader ==
    ASSUME NEW f \in DOMAIN Files
    PROVE  ReaderOk(f, open) /\ ~open.endOfFile /\ Given(f, open) = 0 /\ open.line = 0
<1>1. open.line = 0 /\ open.data = <<>> /\ open.endOfFile = FALSE /\ open \in Reader
  BY DEF open, Reader
<1>2. Prefix(f, 0) = <<>> /\ Len(Prefix(f, 0)) = 0
  BY PrefixZero
<1>3. Given(f, open) = 0
  BY <1>1, <1>2 DEF Given
<1>4. Len(Files[f].lines) \in Nat
  BY FileType
<1> HIDE DEF open
<1> QED BY <1>1, <1>2, <1>3, <1>4 DEF ReaderOk

(* A reader has given some of the bytes up to its line, and all of them *)
(* when it is at the end of the file.                                   *)
LEMMA GivenRange ==
    ASSUME NEW f \in DOMAIN Files, NEW r, ReaderOk(f, r)
    PROVE  /\ Given(f, r) \in Nat /\ Given(f, r) <= Len(Prefix(f, r.line))
           /\ Prefix(f, r.line) \in Seq(Bit) /\ Len(Prefix(f, r.line)) \in Nat
           /\ r.endOfFile => Given(f, r) = Len(Prefix(f, r.line))
<1>1. r \in Reader /\ r.line \in 0 .. Len(Files[f].lines)
  BY FileType DEF ReaderOk, Reader
<1>2. Len(r.data) \in Nat /\ (r.data = <<>> => Len(r.data) = 0)
  BY <1>1 DEF Reader
<1>3. Prefix(f, r.line) \in Seq(Bit) /\ Len(Prefix(f, r.line)) \in Nat
  BY <1>1, PrefixType
<1>4. Len(r.data) <= Len(Prefix(f, r.line)) /\ (r.endOfFile => r.data = <<>>)
  BY DEF ReaderOk
<1> DEFINE p == Prefix(f, r.line)
<1>5. Given(f, r) = Len(p) - Len(r.data)
  BY DEF Given
<1> HIDE DEF p
<1>6. Len(p) \in Nat /\ Len(r.data) <= Len(p)
  BY <1>3, <1>4 DEF p
<1>7. Given(f, r) \in Nat /\ Given(f, r) <= Len(p) /\ (r.endOfFile => Given(f, r) = Len(p))
  BY <1>2, <1>4, <1>5, <1>6
<1> QED BY <1>3, <1>7 DEF p

-----------------------------------------------------------------------------
(* The reference: the image of a good file is the prefix up to its end.    *)
LEMMA EndFirst ==
    ASSUME NEW f \in DOMAIN Files, NEW m \in 1 .. Len(Files[f].lines),
           Record(Files[f].lines[m]) = EOF,
           \A k \in 1 .. (m - 1) : Record(Files[f].lines[k]) \in {DATA, ELA}
    PROVE  IsGood[f] /\ Min(EndLine(f)) = m /\ ImageBytes[f] = Prefix(f, m - 1)
<1>1. Len(Files[f].lines) \in Nat /\ DOMAIN Files[f].lines = 1 .. Len(Files[f].lines)
  BY FileType
<1>2. m \in EndLine(f) /\ EndLine(f) \in SUBSET Nat
  BY <1>1 DEF EndLine
<1>3. Min(EndLine(f)) \in EndLine(f) /\ Min(EndLine(f)) <= m
  BY <1>2, FirstOf
<1>4. \A k \in EndLine(f) : m <= k
  <2> SUFFICES ASSUME NEW k \in EndLine(f), k < m PROVE FALSE
    BY <1>2
  <2>1. k \in 1 .. (m - 1) /\ Record(Files[f].lines[k]) = EOF
    BY <1>1 DEF EndLine
  <2> QED BY <2>1 DEF EOF, DATA, ELA
<1>5. Min(EndLine(f)) = m
  BY <1>2, <1>3, <1>4
<1>6. IsGood[f]
  <2>1. \A k \in 1 .. m : Record(Files[f].lines[k]) # FAIL
    <3> SUFFICES ASSUME NEW k \in 1 .. m PROVE Record(Files[f].lines[k]) # FAIL
      OBVIOUS
    <3>1. k = m \/ k \in 1 .. (m - 1)
      OBVIOUS
    <3> QED BY <3>1 DEF EOF, DATA, ELA, FAIL
  <2> QED BY <1>2, <1>5, <2>1 DEF IsGood
<1>7. ImageBytes[f] = FlattenSeq([k \in 1 .. (Min(EndLine(f)) - 1) |->
                         IF Files[f].lines[k].type = DATA THEN Files[f].lines[k].bytes ELSE <<>>])
  BY <1>6 DEF ImageBytes
<1> QED BY <1>5, <1>6, <1>7 DEF Prefix, Piece

(* A good file: its first end-of-file record, and only address and data *)
(* records before it.                                                   *)
LEMMA GoodEnd ==
    ASSUME NEW f \in DOMAIN Files, IsGood[f]
    PROVE  LET m == Min(EndLine(f))
           IN  /\ m \in 1 .. Len(Files[f].lines) /\ Record(Files[f].lines[m]) = EOF
               /\ \A k \in 1 .. (m - 1) : Record(Files[f].lines[k]) \in {DATA, ELA}
               /\ ImageBytes[f] = Prefix(f, m - 1)
<1> DEFINE m == Min(EndLine(f))
<1>1. Len(Files[f].lines) \in Nat /\ DOMAIN Files[f].lines = 1 .. Len(Files[f].lines)
  BY FileType
<1>2. EndLine(f) # {} /\ \A k \in 1 .. m : Record(Files[f].lines[k]) # FAIL
  BY DEF IsGood
<1>3. EndLine(f) \in SUBSET Nat
  BY <1>1 DEF EndLine
<1>4. m \in EndLine(f) /\ \A k \in EndLine(f) : m <= k
  BY <1>2, <1>3, FirstOf
<1> HIDE DEF m
<1>5. m \in 1 .. Len(Files[f].lines) /\ Record(Files[f].lines[m]) = EOF
  BY <1>1, <1>4 DEF EndLine
<1>6. \A k \in 1 .. (m - 1) : Record(Files[f].lines[k]) \in {DATA, ELA}
  <2> SUFFICES ASSUME NEW k \in 1 .. (m - 1) PROVE Record(Files[f].lines[k]) \in {DATA, ELA}
    OBVIOUS
  <2>1. k \in 1 .. m /\ k \in 1 .. Len(Files[f].lines) /\ ~(m <= k)
    BY <1>1, <1>5
  <2>2. Record(Files[f].lines[k]) # EOF
    BY <1>1, <1>4, <2>1 DEF EndLine
  <2> QED BY <1>2, <2>1, <2>2, RecordValues
<1>7. ImageBytes[f] = Prefix(f, m - 1)
  BY <1>5, <1>6, EndFirst
<1> QED BY <1>5, <1>6, <1>7 DEF m

(* In a good file the reader never fails, and gives the image. *)
LEMMA GoodReader ==
    ASSUME NEW f \in DOMAIN Files, IsGood[f], NEW r, ReaderOk(f, r)
    PROVE  /\ Extends(Prefix(f, r.line), ImageBytes[f])
           /\ ImageBytes[f] \in Seq(Bit) /\ Len(ImageBytes[f]) \in Nat
           /\ r.endOfFile => Prefix(f, r.line) = ImageBytes[f]
           /\ ~r.endOfFile => read(f, r).status \in {DATA, EOF}
<1> DEFINE m == Min(EndLine(f))
<1>1. /\ m \in 1 .. Len(Files[f].lines) /\ Record(Files[f].lines[m]) = EOF
      /\ \A k \in 1 .. (m - 1) : Record(Files[f].lines[k]) \in {DATA, ELA}
      /\ ImageBytes[f] = Prefix(f, m - 1)
  BY GoodEnd
<1> HIDE DEF m
<1>2. r.line \in Nat /\ r.line <= Len(Files[f].lines) /\ Len(Files[f].lines) \in Nat
  BY FileType DEF ReaderOk, Reader
<1>3. m \in Nat /\ m - 1 \in Nat /\ m - 1 \in 0 .. Len(Files[f].lines)
  BY <1>1, <1>2
<1>4. ImageBytes[f] \in Seq(Bit) /\ Len(ImageBytes[f]) \in Nat
  BY <1>1, <1>3, PrefixType
<1>5. CASE r.endOfFile
  <2>1. /\ r.line > 0 /\ Record(Files[f].lines[r.line]) = EOF
        /\ \A k \in 1 .. (r.line - 1) : Record(Files[f].lines[k]) \in {DATA, ELA}
    BY <1>2, <1>5 DEF ReaderOk
  <2>2. r.line \in 1 .. Len(Files[f].lines)
    BY <1>2, <2>1
  <2>3. ImageBytes[f] = Prefix(f, r.line - 1)
    BY <2>1, <2>2, EndFirst
  <2>4. Prefix(f, r.line) = Prefix(f, r.line - 1)
    <3>1. \A k \in ((r.line - 1) + 1) .. r.line : Files[f].lines[k].type # DATA
      <4>1. Files[f].lines[r.line].type # DATA
        BY <2>1, RecordValues DEF EOF, DATA
      <4>2. \A k \in ((r.line - 1) + 1) .. r.line : k = r.line
        BY <1>2
      <4> QED BY <4>1, <4>2
    <3>2. r.line - 1 \in Nat /\ r.line - 1 <= r.line
      BY <1>2, <2>1
    <3> QED BY <1>2, <3>1, <3>2, PrefixMono
  <2> QED BY <1>4, <1>5, <2>3, <2>4 DEF Extends
<1>6. CASE ~r.endOfFile
  <2>1. \A k \in 1 .. r.line : Record(Files[f].lines[k]) \in {DATA, ELA}
    BY <1>6 DEF ReaderOk
  <2>2. r.line < m
    <3> SUFFICES ASSUME m <= r.line PROVE FALSE
      BY <1>2, <1>3
    <3>1. m \in 1 .. r.line
      BY <1>1, <1>2
    <3> QED BY <1>1, <2>1, <3>1 DEF EOF, DATA, ELA
  <2>3. Extends(Prefix(f, r.line), ImageBytes[f])
    <3>1. r.line <= m - 1 /\ m - 1 <= Len(Files[f].lines)
      BY <1>2, <1>3, <2>2
    <3> QED BY <1>1, <1>2, <1>3, <3>1, PrefixMono
  <2>4. read(f, r).status \in {DATA, EOF}
    <3> DEFINE k == Skip(f, r.line)
    <3>1. Skipped(f, r.line, k)
      BY <1>2, SkipDef
    <3>2. k \in Nat /\ k <= Len(Files[f].lines) /\ next[f][k] # ELA
      BY <1>2, <3>1 DEF Skipped
    <3>3. k <= m - 1
      <4> SUFFICES ASSUME m - 1 < k PROVE FALSE
        BY <1>3, <3>2
      <4>1. m - 1 \in r.line .. (k - 1)
        BY <1>2, <1>3, <2>2, <3>2
      <4>2. next[f][m - 1] = ELA
        BY <3>1, <4>1 DEF Skipped
      <4>3. next[f][m - 1] = Record(Files[f].lines[(m - 1) + 1]) /\ (m - 1) + 1 = m
        BY <1>1, <1>3, NextValue
      <4> QED BY <1>1, <4>2, <4>3 DEF EOF, ELA
    <3>4. next[f][k] = Record(Files[f].lines[k + 1])
      BY <1>1, <1>2, <1>3, <3>2, <3>3, NextValue
    <3>5. Record(Files[f].lines[k + 1]) \in {DATA, EOF}
      <4>1. k + 1 = m \/ k + 1 \in 1 .. (m - 1)
        BY <1>3, <3>2, <3>3
      <4> QED BY <1>1, <3>2, <3>4, <4>1
    <3> HIDE DEF k
    <3>6. read(f, r).status = DATA \/ read(f, r).status = next[f][k]
      BY ReadCases DEF k
    <3> QED BY <3>4, <3>5, <3>6
  <2> QED BY <1>4, <1>6, <2>3, <2>4
<1> QED BY <1>5, <1>6

-----------------------------------------------------------------------------
(* What the accesses do to the flash. *)
Commands == {"FF", "60", "D0", "01", "03", "50", "20", "70", "E8"}

(* What write cycles put on the bus has the type Bus. *)
LEMMA BusType ==
    /\ \A c \in Commands : Cmd(c) \in Bus /\ Cmd(c).cmd = c
    /\ \A n \in Nat : Size(n) \in Bus /\ Size(n).cmd = "" /\ Size(n).n = n
    /\ \A w \in FlashWord : Data(w) \in Bus /\ Data(w).cmd = "" /\ Data(w).word = w
BY DEF Commands, Cmd, Size, Data, Bus, FlashWord, Bit

(* A block number. *)
LEMMA BlockType == \A a \in Nat : Block(a) \in Nat
BY PromAssumption DEF Block

(* An entry of the write buffer. *)
LEMMA SlotType == \A a \in Nat : a % BUF \in Slot
BY PromAssumption DEF Slot

(* A counter that is not 0 can be decremented. *)
LEMMA Count ==
    \A n \in Nat : /\ n + 1 \in Nat /\ (n > 0 \/ n = 0) /\ ~(n > 0 /\ n = 0)
                   /\ n > 0 => n - 1 \in Nat
OBVIOUS

(* Any cycle keeps the type of the flash and its array. *)
LEMMA CycleType ==
    ASSUME NEW f \in FlashType, NEW a \in Nat, NEW x \in Bus, f.mode = "load" => f.busy = ""
    PROVE  /\ Cycle(f, a, x) \in FlashType /\ Cycle(f, a, x).mem = f.mem
           /\ Cycle(f, a, x).mode = "load" => Cycle(f, a, x).busy = ""
<1>1. Block(a) \in Nat /\ a % BUF \in Slot
  BY BlockType, SlotType
<1>2. x.word \in FlashWord /\ x.n + 1 \in Nat
  <2>1. x.word \in FlashWord /\ x.n \in Nat
    BY DEF Bus
  <2> QED BY <2>1, Count, Zenon
<1>3. Ones \in FlashWord
  BY DEF Ones, FlashWord, Bit
<1>4. \A g \in FlashType : /\ CommandError(g) \in FlashType /\ CommandError(g).mem = g.mem
                           /\ CommandError(g).mode = "status"
  BY DEF CommandError, FlashType
<1>5. CASE f.busy # ""
  BY <1>5 DEF Cycle, FlashType
<1>6. CASE f.busy = "" /\ f.mode = "load"
  <2>1. CASE f.left > 0
    <3>1. Cycle(f, a, x) = [f EXCEPT !.left = @ - 1, !.slots[a % BUF] = x.word]
      BY <1>6, <2>1 DEF Cycle, Fill
    <3>2. f.left - 1 \in Nat
      <4>1. f.left \in Nat
        BY DEF FlashType
      <4> QED BY <2>1, <4>1, Count, Zenon
    <3>3. [f.slots EXCEPT ![a % BUF] = x.word] \in [Slot -> FlashWord]
      BY <1>2 DEF FlashType
    <3> QED BY <1>6, <3>1, <3>2, <3>3 DEF FlashType
  <2>2. CASE ~(f.left > 0)
    BY <1>1, <1>4, <1>6, <2>2 DEF Cycle, Fill, FlashType
  <2> QED BY <2>1, <2>2
<1>7. CASE f.busy = "" /\ f.mode # "load" /\ f.pend # ""
  <2>1. Cycle(f, a, x) = Second(f, a, x)
    BY <1>7 DEF Cycle
  <2>2. f.pend \in {"60", "20", "E8"}
    BY <1>7 DEF FlashType
  <2>3. CASE f.pend = "60"
    <3> DEFINE u == IF x.cmd = "D0" THEN f.unlocked \cup {Block(a)}
                    ELSE IF x.cmd = "01" THEN f.unlocked \ {Block(a)} ELSE f.unlocked
    <3>1. u \in SUBSET Nat
      BY <1>1 DEF FlashType
    <3>2. Cycle(f, a, x) = [f EXCEPT !.pend = "", !.unlocked = u]
      BY <2>1, <2>3 DEF Second
    <3> HIDE DEF u
    <3> QED BY <1>7, <3>1, <3>2 DEF FlashType
  <2>4. CASE f.pend = "E8"
    <3> DEFINE k == x.n + 1
                s == [i \in Slot |-> Ones]
    <3>1. s \in [Slot -> FlashWord] /\ k \in Nat
      BY <1>2, <1>3
    <3>2. Cycle(f, a, x) = [f EXCEPT !.pend = "", !.mode = "load", !.left = k, !.slots = s]
      BY <2>1, <2>4 DEF Second
    <3> HIDE DEF k, s
    <3> QED BY <1>7, <3>1, <3>2, ZenonT(60) DEF FlashType
  <2>5. CASE f.pend = "20"
    <3>1. [f EXCEPT !.pend = ""] \in FlashType /\ [f EXCEPT !.pend = ""].mem = f.mem
      BY DEF FlashType
    <3>2. [f EXCEPT !.pend = "", !.busy = "erase", !.at = a] \in FlashType
      BY DEF FlashType
    <3>3. \/ Cycle(f, a, x) = [f EXCEPT !.pend = "", !.busy = "erase", !.at = a]
          \/ Cycle(f, a, x) = CommandError([f EXCEPT !.pend = ""])
      BY <2>1, <2>5 DEF Second
    <3>4. CASE Cycle(f, a, x) = [f EXCEPT !.pend = "", !.busy = "erase", !.at = a]
      BY <1>7, <3>2, <3>4 DEF FlashType
    <3>5. CASE Cycle(f, a, x) = CommandError([f EXCEPT !.pend = ""])
      <4>1. Cycle(f, a, x) \in FlashType /\ Cycle(f, a, x).mem = f.mem /\ Cycle(f, a, x).mode = "status"
        BY <1>4, <3>1, <3>5
      <4> QED BY <4>1
    <3> QED BY <3>3, <3>4, <3>5
  <2> QED BY <2>2, <2>3, <2>4, <2>5
<1>8. CASE f.busy = "" /\ f.mode # "load" /\ f.pend = ""
  BY <1>8 DEF Cycle, First, FlashType
<1> QED BY <1>5, <1>6, <1>7, <1>8

(* A flash that waits for buffer words counts them down. *)
Counts(n, k, m) == n \in Nat /\ m \in Nat /\ m + k = n

(* One word taken. *)
LEMMA CountsOne ==
    ASSUME NEW n \in Nat, n > 0
    PROVE  Counts(n, 1, n - 1)
BY DEF Counts

(* Two words taken. *)
LEMMA CountsTwo ==
    ASSUME NEW k, NEW m, NEW n, Counts(k, 1, m), Counts(m, 1, n)
    PROVE  Counts(k, 2, n)
BY DEF Counts

Stored(s, a, w) == [s EXCEPT ![a % BUF] = w]

(* A cycle on a flash that waits for buffer words. *)
LEMMA CycleFill ==
    ASSUME NEW f \in FlashType, NEW a \in Nat, NEW x \in Bus, f.mode = "load", f.busy = ""
    PROVE  LET g == Cycle(f, a, x) IN
           /\ g.pend = f.pend
           /\ f.left # 0 => /\ g.mode = "load" /\ g.busy = "" /\ Counts(f.left, 1, g.left)
                            /\ g.err = f.err /\ g.unlocked = f.unlocked
                            /\ g.slots = Stored(f.slots, a, x.word)
           /\ f.left = 0 => /\ g.mode = "status" /\ (x.cmd # "D0" => g.busy = "")
                            /\ x.cmd = "D0" /\ Block(a) \in f.unlocked =>
                                  /\ g.busy = "program" /\ g.at = a
                                  /\ g.err = f.err /\ g.slots = f.slots /\ g.unlocked = f.unlocked
<1> DEFINE g == Cycle(f, a, x)
<1>1. f.left \in Nat
  BY DEF FlashType
<1>2. Cycle(f, a, x) = Fill(f, a, x)
  BY DEF Cycle
<1>3. CASE f.left # 0
  <2>1. f.left > 0
    BY <1>1, <1>3, Count, Zenon
  <2> DEFINE k == f.left - 1
             s == Stored(f.slots, a, x.word)
             n == f.left
  <2>2. g = [f EXCEPT !.left = k, !.slots = s]
    BY <1>2, <2>1 DEF Fill, FlashType, Stored
  <2>3. g.left = k /\ g.slots = s /\ g.pend = f.pend /\ g.mode = f.mode /\ g.busy = f.busy
        /\ g.err = f.err /\ g.unlocked = f.unlocked
    <3> HIDE DEF k, s
    <3> QED BY <2>2 DEF FlashType
  <2>4. Counts(n, 1, k)
    BY <1>1, <2>1, CountsOne
  <2> QED BY <1>3, <2>3, <2>4
<1>4. CASE f.left = 0
  <2>1. ~(f.left > 0)
    BY <1>1, <1>4, Count, Zenon
  <2>2. CASE x.cmd = "D0" /\ Block(a) \in f.unlocked
    <3>1. g = [f EXCEPT !.mode = "status", !.busy = "program", !.at = a]
      BY <1>2, <2>1, <2>2 DEF Fill
    <3>2. g.mode = "status" /\ g.busy = "program" /\ g.at = a /\ g.pend = f.pend
          /\ g.err = f.err /\ g.slots = f.slots /\ g.unlocked = f.unlocked
      BY <3>1 DEF FlashType
    <3> QED BY <1>4, <2>2, <3>2
  <2>3. CASE ~(x.cmd = "D0" /\ Block(a) \in f.unlocked)
    <3>1. g = CommandError(f)
      BY <1>2, <2>1, <2>3 DEF Fill
    <3>2. g.mode = "status" /\ g.busy = f.busy /\ g.pend = f.pend
      BY <3>1 DEF FlashType, CommandError
    <3> QED BY <1>4, <2>3, <3>2
  <2> QED BY <2>2, <2>3
<1> QED BY <1>3, <1>4

(* Writes of two cycles, as functions of the flash. *)
LEMMA TwoCyclesAre ==
    ASSUME NEW f \in FlashType, f.mode = "load" => f.busy = "", NEW a \in Nat, NEW x \in Bus, NEW y \in Bus
    PROVE  LET e == Cycle(f, a, x)
           IN  /\ Transfer(f, writeToFlash(a, x, y)) = Cycle(e, a, y)
               /\ e \in FlashType /\ e.mem = f.mem /\ (e.mode = "load" => e.busy = "")
<1>1. writeToFlash(a, x, y).rest = <<y>> /\ <<y>> # <<>>
  BY DEF writeToFlash
<1>2. Transfer(f, writeToFlash(a, x, y)) = Cycle(Cycle(f, a, x), a, y)
  BY <1>1 DEF Transfer, writeToFlash
<1> QED BY <1>2, CycleType

(* readFlash is one cycle. *)
LEMMA OneCycleIs ==
    ASSUME NEW f, NEW a, NEW x
    PROVE  Transfer(f, readFlash(a, x)) = Cycle(f, a, x)
BY DEF Transfer, readFlash

(* The accesses of the erase pass, whatever state they find. *)
LEMMA TwoCycles ==
    ASSUME NEW f \in FlashType, f.pend = "", f.mode = "load" => f.busy = "",
           NEW a \in Nat, NEW c \in {"60", "50", "20"}, NEW d \in {"D0", "01", "03", "50"}
    PROVE  LET g == Transfer(f, writeToFlash(a, Cmd(c), Cmd(d))) IN
           /\ g \in FlashType /\ g.pend = "" /\ g.mem = f.mem
           /\ g.mode = "load" => g.busy = "" /\ f.mode = "load" /\ Counts(f.left, 2, g.left)
           /\ f.busy = "" /\ d # "D0" /\ c # "20" => g.busy = ""
<1> DEFINE e == Cycle(f, a, Cmd(c))
           g == Transfer(f, writeToFlash(a, Cmd(c), Cmd(d)))
<1>0. c \in Commands /\ d \in Commands /\ c # "D0"
  BY DEF Commands
<1>1. /\ Cmd(c) \in Bus /\ Cmd(d) \in Bus /\ Cmd(c).cmd = c /\ Cmd(d).cmd = d /\ c # "D0"
  BY <1>0, BusType
<1>2. e \in FlashType /\ e.mem = f.mem /\ (e.mode = "load" => e.busy = "") /\ g = Cycle(e, a, Cmd(d))
  BY <1>1, TwoCyclesAre
<1> HIDE DEF e, g
<1>3. SUFFICES /\ g \in FlashType /\ g.pend = "" /\ g.mem = f.mem
               /\ g.mode = "load" => g.busy = "" /\ f.mode = "load" /\ Counts(f.left, 2, g.left)
               /\ f.busy = "" /\ d # "D0" /\ c # "20" => g.busy = ""
  BY DEF g
<1>4. g \in FlashType /\ g.mem = f.mem /\ (g.mode = "load" => g.busy = "")
  <2>1. Cycle(e, a, Cmd(d)) \in FlashType /\ Cycle(e, a, Cmd(d)).mem = e.mem
        /\ (Cycle(e, a, Cmd(d)).mode = "load" => Cycle(e, a, Cmd(d)).busy = "")
    BY <1>1, <1>2, CycleType
  <2> QED BY <1>2, <2>1, Zenon
<1>5. CASE f.busy # ""
  <2>1. e = [f EXCEPT !.mode = "status"]
    BY <1>5 DEF Cycle, e
  <2>2. e.busy = f.busy /\ e.pend = "" /\ e.mode = "status"
    BY <2>1 DEF FlashType
  <2>3. g = [e EXCEPT !.mode = "status"]
    BY <1>2, <1>5, <2>2 DEF Cycle
  <2>4. g.pend = "" /\ g.mode = "status"
    BY <1>2, <2>2, <2>3 DEF FlashType
  <2> QED BY <1>4, <1>5, <2>4
<1>6. CASE f.busy = "" /\ f.mode = "load"
  <2>1. /\ e.pend = "" /\ (f.left # 0 => e.mode = "load" /\ e.busy = "" /\ Counts(f.left, 1, e.left))
        /\ (f.left = 0 => e.mode = "status" /\ e.busy = "")
    <3>1. e = Cycle(f, a, Cmd(c)) /\ Cmd(c).cmd # "D0"
      BY <1>1 DEF e
    <3> QED BY <1>1, <1>6, <3>1, CycleFill
  <2>2. CASE f.left # 0
    <3>1. e.mode = "load" /\ e.busy = ""
      BY <2>1, <2>2
    <3>2. /\ g.pend = "" /\ (e.left # 0 => g.mode = "load" /\ Counts(e.left, 1, g.left) /\ g.busy = "")
          /\ (e.left = 0 => g.mode = "status" /\ (d # "D0" => g.busy = ""))
      <4> DEFINE h == Cycle(e, a, Cmd(d))
      <4>1. /\ h.pend = "" /\ (e.left # 0 => h.mode = "load" /\ Counts(e.left, 1, h.left) /\ h.busy = "")
            /\ (e.left = 0 => h.mode = "status" /\ (d # "D0" => h.busy = ""))
        BY <1>1, <1>2, <2>1, <3>1, CycleFill, ZenonT(60)
      <4> QED BY <1>2, <4>1, Zenon
    <3>3. Counts(f.left, 1, e.left) /\ Counts(e.left, 1, g.left) => Counts(f.left, 2, g.left)
      BY CountsTwo
    <3> QED BY <1>4, <1>6, <2>1, <2>2, <3>1, <3>2, <3>3
  <2>3. CASE f.left = 0
    <3>1. g = First(e, Cmd(d))
      BY <1>2, <2>1, <2>3 DEF Cycle
    <3>2. g = e \/ g = [e EXCEPT !.err = {}]
      BY <1>1, <3>1 DEF First
    <3>3. g.mode = "status" /\ g.pend = "" /\ g.busy = ""
      BY <1>2, <2>1, <2>3, <3>2 DEF FlashType
    <3> QED BY <1>4, <3>3
  <2> QED BY <2>2, <2>3
<1>7. CASE f.busy = "" /\ f.mode # "load"
  <2>1. e = First(f, Cmd(c))
    BY <1>7 DEF Cycle, e
  <2>2. CASE c = "50"
    <3>1. e = [f EXCEPT !.err = {}]
      BY <1>1, <2>1, <2>2 DEF First
    <3>2. e.busy = "" /\ e.mode # "load" /\ e.pend = ""
      BY <1>7, <3>1 DEF FlashType
    <3>3. g = First(e, Cmd(d))
      BY <1>2, <3>2 DEF Cycle
    <3>4. g = e \/ g = [e EXCEPT !.err = {}]
      BY <1>1, <3>3 DEF First
    <3>5. g.mode # "load" /\ g.pend = "" /\ g.busy = ""
      BY <1>2, <3>2, <3>4 DEF FlashType
    <3> QED BY <1>4, <3>5
  <2>3. CASE c \in {"60", "20"}
    <3>1. e = [f EXCEPT !.pend = c, !.mode = "status"]
      BY <1>1, <2>1, <2>3 DEF First
    <3>2. e.busy = "" /\ e.mode = "status" /\ e.pend = c
      BY <1>7, <3>1 DEF FlashType
    <3>3. g = Second(e, a, Cmd(d))
      BY <1>2, <2>3, <3>2 DEF Cycle
    <3>4. CASE c = "60"
      <4>1. g.mode = "status" /\ g.pend = "" /\ g.busy = ""
        BY <1>2, <3>2, <3>3, <3>4 DEF Second, FlashType
      <4> QED BY <1>4, <4>1
    <3>5. CASE c = "20"
      <4>1. g.mode = "status" /\ g.pend = ""
        BY <1>2, <3>2, <3>3, <3>5 DEF Second, FlashType, CommandError
      <4> QED BY <1>4, <3>5, <4>1
    <3> QED BY <2>3, <3>4, <3>5
  <2> QED BY <2>2, <2>3
<1> QED BY <1>5, <1>6, <1>7

-----------------------------------------------------------------------------
(* What the accesses do to a flash that waits for a command. *)
Same(g, f) == g.mem = f.mem /\ g.slots = f.slots

(* A flash at rest takes a cycle as the first of a command. *)
LEMMA QuietFirst ==
    ASSUME NEW f, Quiet(f), NEW a, NEW x
    PROVE  Cycle(f, a, x) = First(f, x)
BY DEF Quiet, Cycle

(* The first cycle of a command of two cycles. *)
LEMMA QuietPend ==
    ASSUME NEW f, Quiet(f), NEW a \in Nat, NEW c \in {"60", "20", "E8"}
    PROVE  LET e == Cycle(f, a, Cmd(c))
           IN  /\ e \in FlashType /\ e.pend = c /\ e.mode = "status" /\ e.busy = ""
               /\ Same(e, f) /\ e.err = f.err /\ e.unlocked = f.unlocked
<1>1. Cmd(c).cmd = c
  BY BusType DEF Commands
<1>2. First(f, Cmd(c)) = [f EXCEPT !.pend = c, !.mode = "status"]
  BY <1>1 DEF First
<1>3. Cycle(f, a, Cmd(c)) = [f EXCEPT !.pend = c, !.mode = "status"]
  BY <1>2, QuietFirst
<1> QED BY <1>3 DEF Quiet, FlashType, Same

(* A flash that has had a first cycle takes the next one as the second. *)
LEMMA PendSecond ==
    ASSUME NEW e \in FlashType, e.pend # "", e.mode = "status", e.busy = "", NEW a, NEW x
    PROVE  Cycle(e, a, x) = Second(e, a, x)
BY DEF Cycle

(* 60 D0 unlocks a block, 60 01 locks it, 60 03 is something else. *)
LEMMA QuietLock ==
    ASSUME NEW f, Quiet(f), NEW a \in Nat, NEW d \in {"D0", "01", "03"}
    PROVE  LET g == Transfer(f, writeToFlash(a, Cmd("60"), Cmd(d)))
           IN  /\ Quiet(g) /\ Same(g, f) /\ g.err = f.err
               /\ d = "D0" => Block(a) \in g.unlocked
<1> DEFINE e == Cycle(f, a, Cmd("60"))
           g == Cycle(e, a, Cmd(d))
           u == IF d = "D0" THEN e.unlocked \cup {Block(a)}
                ELSE IF d = "01" THEN e.unlocked \ {Block(a)} ELSE e.unlocked
<1>1. Cmd(d).cmd = d /\ Cmd(d) \in Bus /\ Cmd("60") \in Bus
  BY BusType DEF Commands
<1>2. /\ e \in FlashType /\ e.pend = "60" /\ e.mode = "status" /\ e.busy = ""
      /\ Same(e, f) /\ e.err = f.err
  BY QuietPend
<1>3. f \in FlashType /\ (f.mode = "load" => f.busy = "")
  BY DEF Quiet
<1>4. Transfer(f, writeToFlash(a, Cmd("60"), Cmd(d))) = g
  BY <1>1, <1>3, TwoCyclesAre
<1>5. g \in FlashType
  BY <1>1, <1>2, CycleType
<1> HIDE DEF e
<1>6. g = Second(e, a, Cmd(d))
  BY <1>2, PendSecond
<1>7. g = [e EXCEPT !.pend = "", !.unlocked = u]
  BY <1>1, <1>2, <1>6 DEF Second
<1>8. d = "D0" => Block(a) \in u
  OBVIOUS
<1> HIDE DEF u
<1>9. g.pend = "" /\ g.unlocked = u /\ g.mode = "status" /\ g.busy = "" /\ Same(g, e) /\ g.err = e.err
  BY <1>2, <1>7 DEF FlashType, Same
<1> HIDE DEF g
<1> QED BY <1>2, <1>4, <1>5, <1>8, <1>9 DEF Quiet, Same

(* 50 resets the error bits. *)
LEMMA QuietClear ==
    ASSUME NEW f, Quiet(f), NEW a \in Nat
    PROVE  LET g == Transfer(f, writeToFlash(a, Cmd("50"), Cmd("50")))
           IN  Quiet(g) /\ Same(g, f) /\ g.err = {} /\ g.unlocked = f.unlocked
<1> DEFINE e == Cycle(f, a, Cmd("50"))
           g == Cycle(e, a, Cmd("50"))
<1>1. Cmd("50").cmd = "50" /\ Cmd("50") \in Bus
  BY BusType DEF Commands
<1>2. f \in FlashType /\ (f.mode = "load" => f.busy = "")
  BY DEF Quiet
<1>3. Transfer(f, writeToFlash(a, Cmd("50"), Cmd("50"))) = g
  BY <1>1, <1>2, TwoCyclesAre
<1>4. \A h : First(h, Cmd("50")) = [h EXCEPT !.err = {}]
  BY <1>1 DEF First
<1>5. e = [f EXCEPT !.err = {}]
  BY <1>4, QuietFirst
<1>6. Quiet(e) /\ Same(e, f) /\ e.unlocked = f.unlocked
  BY <1>5 DEF Quiet, FlashType, Same
<1> HIDE DEF e
<1>7. g = [e EXCEPT !.err = {}]
  BY <1>4, <1>6, QuietFirst
<1>8. Quiet(g) /\ Same(g, e) /\ g.unlocked = e.unlocked /\ g.err = {}
  BY <1>6, <1>7 DEF Quiet, FlashType, Same
<1> HIDE DEF g
<1> QED BY <1>3, <1>6, <1>8 DEF Same

(* 20 D0 starts to erase an unlocked block. *)
LEMMA QuietErase ==
    ASSUME NEW f, Quiet(f), NEW a \in Nat, Block(a) \in f.unlocked
    PROVE  LET g == Transfer(f, writeToFlash(a, Cmd("20"), Cmd("D0")))
           IN  /\ g \in FlashType /\ g.pend = "" /\ g.mode = "status" /\ g.busy = "erase" /\ g.at = a
               /\ Same(g, f) /\ g.err = f.err
<1> DEFINE e == Cycle(f, a, Cmd("20"))
           g == Cycle(e, a, Cmd("D0"))
<1>1. Cmd("D0").cmd = "D0" /\ Cmd("D0") \in Bus /\ Cmd("20") \in Bus
  BY BusType DEF Commands
<1>2. /\ e \in FlashType /\ e.pend = "20" /\ e.mode = "status" /\ e.busy = ""
      /\ Same(e, f) /\ e.err = f.err /\ e.unlocked = f.unlocked
  BY QuietPend
<1>3. f \in FlashType /\ (f.mode = "load" => f.busy = "")
  BY DEF Quiet
<1>4. Transfer(f, writeToFlash(a, Cmd("20"), Cmd("D0"))) = g
  BY <1>1, <1>3, TwoCyclesAre
<1>5. g \in FlashType
  BY <1>1, <1>2, CycleType
<1> HIDE DEF e
<1>6. g = Second(e, a, Cmd("D0"))
  BY <1>2, PendSecond
<1>7. g = [e EXCEPT !.pend = "", !.busy = "erase", !.at = a]
  BY <1>1, <1>2, <1>6 DEF Second
<1>8. /\ g.pend = "" /\ g.mode = "status" /\ g.busy = "erase" /\ g.at = a
      /\ Same(g, e) /\ g.err = e.err
  BY <1>2, <1>7 DEF FlashType, Same
<1> HIDE DEF g
<1> QED BY <1>2, <1>4, <1>5, <1>8 DEF Same

(* E8 and a length open the buffer. *)
LEMMA QuietBuffer ==
    ASSUME NEW f, Quiet(f), NEW a \in Nat
    PROVE  LET g == Transfer(f, writeToFlash(a, Cmd("E8"), Size(BUF - 1)))
           IN  /\ g \in FlashType /\ g.pend = "" /\ g.mode = "load" /\ g.busy = "" /\ g.left = BUF
               /\ g.mem = f.mem /\ g.slots = [s \in Slot |-> Ones]
               /\ g.err = f.err /\ g.unlocked = f.unlocked
<1> DEFINE e == Cycle(f, a, Cmd("E8"))
           g == Cycle(e, a, Size(BUF - 1))
           s == [i \in Slot |-> Ones]
<1>1. /\ Size(BUF - 1) \in Bus /\ Size(BUF - 1).n + 1 = BUF /\ Cmd("E8") \in Bus
  <2>1. BUF - 1 \in Nat /\ (BUF - 1) + 1 = BUF
    BY PromAssumption
  <2>2. Size(BUF - 1) \in Bus /\ Size(BUF - 1).n = BUF - 1
    BY <2>1, BusType, Zenon
  <2>3. Cmd("E8") \in Bus
    BY BusType DEF Commands
  <2> QED BY <2>1, <2>2, <2>3, Zenon
<1>2. /\ e \in FlashType /\ e.pend = "E8" /\ e.mode = "status" /\ e.busy = ""
      /\ Same(e, f) /\ e.err = f.err /\ e.unlocked = f.unlocked
  BY QuietPend
<1>3. f \in FlashType /\ (f.mode = "load" => f.busy = "")
  BY DEF Quiet
<1>4. Transfer(f, writeToFlash(a, Cmd("E8"), Size(BUF - 1))) = g
  BY <1>1, <1>3, TwoCyclesAre
<1>5. g \in FlashType
  BY <1>1, <1>2, CycleType
<1> HIDE DEF e
<1>6. g = Second(e, a, Size(BUF - 1))
  BY <1>2, PendSecond
<1>7. g = [e EXCEPT !.pend = "", !.mode = "load", !.left = Size(BUF - 1).n + 1, !.slots = s]
  BY <1>2, <1>6 DEF Second
<1> HIDE DEF s
<1>8. g = [e EXCEPT !.pend = "", !.mode = "load", !.left = BUF, !.slots = s]
  BY <1>1, <1>7, Zenon
<1>9. /\ g.pend = "" /\ g.mode = "load" /\ g.busy = "" /\ g.left = BUF
      /\ g.mem = e.mem /\ g.slots = s /\ g.err = e.err /\ g.unlocked = e.unlocked
  BY <1>2, <1>8 DEF FlashType
<1> HIDE DEF g
<1> QED BY <1>2, <1>4, <1>5, <1>9 DEF Same, s

(* The status command. *)
LEMMA StatusCycle ==
    ASSUME NEW f \in FlashType, f.pend = "", f.mode # "load" \/ f.busy # "", NEW a \in Nat
    PROVE  LET g == Cycle(f, a, Cmd("70"))
           IN  /\ g \in FlashType /\ g.pend = "" /\ g.mode = "status" /\ g.busy = f.busy
               /\ Same(g, f) /\ g.err = f.err /\ g.unlocked = f.unlocked /\ g.at = f.at
<1>1. Cmd("70").cmd = "70"
  BY BusType DEF Commands
<1>2. First(f, Cmd("70")) = [f EXCEPT !.mode = "status"]
  BY <1>1 DEF First
<1>3. Cycle(f, a, Cmd("70")) = [f EXCEPT !.mode = "status"]
  BY <1>2 DEF Cycle
<1> QED BY <1>3 DEF FlashType, Same

(* The read-array command. *)
LEMMA ArrayCycle ==
    ASSUME NEW f, Quiet(f), NEW a \in Nat
    PROVE  LET g == Cycle(f, a, Cmd("FF"))
           IN  Quiet(g) /\ Same(g, f) /\ ReadWord(g, a) = f.mem[a]
<1>1. Cmd("FF").cmd = "FF"
  BY BusType DEF Commands
<1>2. First(f, Cmd("FF")) = [f EXCEPT !.mode = "array"]
  BY <1>1 DEF First
<1>3. Cycle(f, a, Cmd("FF")) = [f EXCEPT !.mode = "array"]
  BY <1>2, QuietFirst
<1>4. Cycle(f, a, Cmd("FF")).mode = "array" /\ Cycle(f, a, Cmd("FF")).mem = f.mem
  BY <1>3 DEF Quiet, FlashType
<1>5. Quiet(Cycle(f, a, Cmd("FF"))) /\ Same(Cycle(f, a, Cmd("FF")), f)
  BY <1>3 DEF Quiet, FlashType, Same
<1> QED BY <1>4, <1>5 DEF ReadWord

(* One of these commands, whatever state the flash is in. *)
LEMMA AnyCycle ==
    ASSUME NEW f \in FlashType, f.pend = "", f.mode = "load" => f.busy = "",
           NEW a \in Nat, NEW c \in {"70", "FF"}
    PROVE  LET g == Cycle(f, a, Cmd(c))
           IN  /\ g \in FlashType /\ g.pend = "" /\ g.mem = f.mem
               /\ g.mode = "load" => g.busy = "" /\ f.mode = "load" /\ Counts(f.left, 1, g.left)
               /\ f.busy = "" => g.busy = ""
<1> DEFINE g == Cycle(f, a, Cmd(c))
<1>1. Cmd(c).cmd = c /\ Cmd(c) \in Bus /\ c # "D0"
  BY BusType DEF Commands
<1>2. g \in FlashType /\ g.mem = f.mem /\ (g.mode = "load" => g.busy = "")
  BY <1>1, CycleType
<1>3. CASE f.busy # ""
  <2>1. g = [f EXCEPT !.mode = "status"]
    BY <1>3 DEF Cycle
  <2>2. g.mode = "status" /\ g.pend = ""
    BY <2>1 DEF FlashType
  <2> QED BY <1>2, <1>3, <2>2
<1>4. CASE f.busy = "" /\ f.mode = "load"
  <2>1. /\ g.pend = "" /\ (f.left # 0 => g.mode = "load" /\ g.busy = "" /\ Counts(f.left, 1, g.left))
        /\ (f.left = 0 => g.mode = "status" /\ g.busy = "")
    BY <1>1, <1>4, CycleFill
  <2> QED BY <1>2, <1>4, <2>1
<1>5. CASE f.busy = "" /\ f.mode # "load"
  <2>1. Quiet(f)
    BY <1>5 DEF Quiet
  <2>2. CASE c = "70"
    BY <1>2, <1>5, <2>2, StatusCycle
  <2>3. CASE c = "FF"
    <3>1. Quiet(g)
      BY <2>1, <2>3, ArrayCycle
    <3> QED BY <1>2, <3>1 DEF Quiet
  <2> QED BY <2>2, <2>3
<1> QED BY <1>3, <1>4, <1>5

-----------------------------------------------------------------------------
(* Addresses and blocks. *)
LEMMA DivMod ==
    ASSUME NEW a \in Nat, NEW n \in Nat \ {0}
    PROVE  /\ a \div n \in Nat /\ a % n \in 0 .. (n - 1)
           /\ a = n * (a \div n) + (a % n)
OBVIOUS

(* Quotient and remainder are unique. *)
LEMMA DivUnique ==
    ASSUME NEW n \in Nat \ {0}, NEW q \in Nat, NEW r \in 0 .. (n - 1)
    PROVE  (n * q + r) \div n = q /\ (n * q + r) % n = r
OBVIOUS

(* The step back by n. *)
LEMMA Back ==
    ASSUME NEW a \in Nat, NEW n \in Nat \ {0}, a >= n
    PROVE  a - n \in Nat /\ a # 0
OBVIOUS

(* Multiplication is monotonic. *)
LEMMA TimesMono ==
    ASSUME NEW n \in Nat, NEW p \in Nat, NEW q \in Nat, p <= q
    PROVE  n * p <= n * q /\ n * p \in Nat /\ n * q \in Nat
OBVIOUS

(* The first block. *)
LEMMA BlockZero == Block(0) = 0
<1>1. 0 = BlockSize * 0 + 0
  BY PromAssumption
<1> QED BY <1>1, PromAssumption, DivUnique DEF Block

(* The next block starts BlockSize words further. *)
LEMMA BlockNext ==
    ASSUME NEW a \in Nat, a % BlockSize = 0
    PROVE  Block(a + BlockSize) = Block(a) + 1 /\ (a + BlockSize) % BlockSize = 0
<1> DEFINE q == a \div BlockSize
<1>1. q \in Nat /\ a = BlockSize * q
  <2>1. q \in Nat /\ a = BlockSize * q + (a % BlockSize)
    BY PromAssumption, DivMod
  <2> QED BY <2>1, PromAssumption
<1> HIDE DEF q
<1>2. a + BlockSize = BlockSize * (q + 1) + 0
  BY <1>1, PromAssumption
<1>3. q + 1 \in Nat /\ 0 \in 0 .. (BlockSize - 1)
  BY <1>1, PromAssumption
<1>4. (BlockSize * (q + 1) + 0) \div BlockSize = q + 1 /\ (BlockSize * (q + 1) + 0) % BlockSize = 0
  BY <1>3, PromAssumption, DivUnique
<1>5. (a + BlockSize) \div BlockSize = q + 1 /\ (a + BlockSize) % BlockSize = 0
  BY <1>2, <1>4, Zenon
<1> QED BY <1>5 DEF Block, q

(* Behind the last address the whole flash is erased. *)
LastBlock == PROM_SIZE \div BlockSize

(* An address past PROM_SIZE is behind the last block. *)
LEMMA BlockPast ==
    ASSUME NEW a \in Nat, a % BlockSize = 0, a > PROM_SIZE
    PROVE  Block(a) >= LastBlock + 1
<1> DEFINE q == a \div BlockSize
           p == LastBlock
<1>1. q \in Nat /\ a = BlockSize * q
  <2>1. q \in Nat /\ a = BlockSize * q + (a % BlockSize)
    BY PromAssumption, DivMod
  <2> QED BY <2>1, PromAssumption
<1>2. p \in Nat /\ PROM_SIZE >= BlockSize * p
  <2> DEFINE t == PROM_SIZE % BlockSize
             u == BlockSize * p
  <2>1. p \in Nat /\ PROM_SIZE = u + t /\ t \in 0 .. (BlockSize - 1)
    BY PromAssumption, DivMod, Zenon DEF LastBlock
  <2> HIDE DEF t, p
  <2>2. u \in Nat
    BY <2>1, PromAssumption
  <2> HIDE DEF u
  <2>3. PROM_SIZE >= u
    BY <2>1, <2>2, PromAssumption
  <2> QED BY <2>1, <2>3 DEF u
<1> HIDE DEF q, p
<1>3. q <= p => BlockSize * q <= BlockSize * p
  BY <1>1, <1>2, PromAssumption, TimesMono
<1>4. BlockSize * q \in Nat /\ BlockSize * p \in Nat
  BY <1>1, <1>2, PromAssumption
<1>5. ~(q <= p)
  BY <1>1, <1>2, <1>3, <1>4, PromAssumption
<1>6. q >= p + 1
  BY <1>1, <1>2, <1>5
<1> QED BY <1>6 DEF Block, q, p

(* Every word of the modelled array lies in one of the blocks. *)
LEMMA WordBlocks ==
    ASSUME NEW a \in Word
    PROVE  a \in Nat /\ Block(a) \in Nat /\ Block(a) <= LastBlock
<1> DEFINE q == a \div BlockSize
           p == LastBlock
           r == a % BlockSize
<1>1. p \in Nat
  BY PromAssumption, DivMod DEF LastBlock
<1>2. a \in Nat /\ a < BlockSize * (p + 1)
  <2>1. BlockSize * (p + 1) \in Nat
    BY <1>1, PromAssumption
  <2> QED BY <2>1 DEF Word, LastBlock
<1>3. q \in Nat /\ a = BlockSize * q + r /\ r \in 0 .. (BlockSize - 1)
  BY <1>2, PromAssumption, DivMod
<1> HIDE DEF q, p, r
<1>4. p + 1 <= q => BlockSize * (p + 1) <= BlockSize * q
  BY <1>1, <1>3, PromAssumption, TimesMono
<1>5. BlockSize * q \in Nat /\ BlockSize * (p + 1) \in Nat
  BY <1>1, <1>3, PromAssumption
<1>6. ~(p + 1 <= q)
  BY <1>2, <1>3, <1>4, <1>5, PromAssumption
<1>7. q <= p
  BY <1>1, <1>3, <1>6
<1> QED BY <1>2, <1>3, <1>7 DEF Block, q, p

-----------------------------------------------------------------------------
(* What is left of a sequence of accesses. *)
LEMMA RestNext ==
    ASSUME NEW A, NEW t \in Seq(A), NEW B, NEW s \in Seq(B), Rest(t, s), t # <<>>
    PROVE  /\ Rest(Tail(t), s) /\ Head(t) = s[Len(s) - Len(t) + 1]
           /\ Tail(t) \in Seq(A) /\ Len(t) \in Nat \ {0} /\ Len(Tail(t)) = Len(t) - 1
<1>1. /\ Len(t) \in Nat \ {0} /\ Tail(t) \in Seq(A) /\ Len(Tail(t)) = Len(t) - 1
      /\ \A i \in 1 .. (Len(t) - 1) : Tail(t)[i] = t[i + 1]
      /\ Head(t) = t[1]
  BY TailFacts
<1>2. Len(s) \in Nat /\ Len(t) <= Len(s) /\ \A i \in 1 .. Len(t) : t[i] = s[Len(s) - Len(t) + i]
  BY DEF Rest
<1> DEFINE n == Len(t)
           m == Len(s)
           u == Tail(t)
<1>3. n \in Nat \ {0} /\ m \in Nat /\ n <= m /\ Len(u) = n - 1
  BY <1>1, <1>2
<1>4. Head(t) = s[m - n + 1]
  BY <1>1, <1>2
<1>5. ASSUME NEW i \in 1 .. Len(u)
      PROVE  u[i] = s[m - Len(u) + i]
  <2>1. i \in 1 .. (Len(t) - 1)
    BY <1>3, <1>5
  <2>2. u[i] = t[i + 1]
    BY <1>1, <2>1
  <2>3. i + 1 \in 1 .. n /\ m - n + (i + 1) = m - (n - 1) + i
    <3> HIDE DEF n, m, u
    <3> QED BY <1>3, <1>5
  <2>4. t[i + 1] = s[m - n + (i + 1)]
    BY <1>2, <2>3
  <2> QED BY <1>3, <2>2, <2>3, <2>4
<1>6. Len(u) <= m
  <2> HIDE DEF n, m, u
  <2> QED BY <1>3
<1>7. Rest(Tail(t), s)
  BY <1>5, <1>6 DEF Rest
<1> QED BY <1>1, <1>4, <1>7

(* Nothing is done yet. *)
LEMMA RestAll ==
    ASSUME NEW A, NEW s \in Seq(A)
    PROVE  Rest(s, s)
<1> DEFINE n == Len(s)
<1>1. n \in Nat
  OBVIOUS
<1>2. n <= n /\ \A i \in 1 .. n : n - n + i = i
  <2> HIDE DEF n
  <2> QED BY <1>1
<1> QED BY <1>2 DEF Rest

(* Concatenation, as facts for the provers. *)
LEMMA Concat ==
    ASSUME NEW s \in Seq(Op), NEW t \in Seq(Op)
    PROVE  /\ s \o t \in Seq(Op) /\ Len(s \o t) = Len(s) + Len(t)
           /\ \A i \in 1 .. Len(s) : (s \o t)[i] = s[i]
           /\ \A i \in 1 .. Len(t) : (s \o t)[Len(s) + i] = t[i]
OBVIOUS

(* writeToFlash is an access. *)
LEMMA WriteType ==
    ASSUME NEW a \in Nat, NEW x \in Bus, NEW y \in Bus
    PROVE  writeToFlash(a, x, y) \in Op
BY DEF writeToFlash, Op

(* readFlash is an access. *)
LEMMA ReadType ==
    ASSUME NEW a \in Nat, NEW x \in Bus
    PROVE  readFlash(a, x) \in Op
BY DEF readFlash, Op

(* The access that locks a block. *)
LEMMA LockType ==
    ASSUME NEW a \in Nat
    PROVE  /\ LockOps(a) \in Seq(Op) /\ Len(LockOps(a)) = 1 /\ LockOps(a) # <<>>
           /\ Head(LockOps(a)) = writeToFlash(a, Cmd("60"), Cmd("01")) /\ Tail(LockOps(a)) = <<>>
<1>1. writeToFlash(a, Cmd("60"), Cmd("01")) \in Op
  BY WriteType, BusType DEF Commands
<1> QED BY <1>1 DEF LockOps

(* The accesses that erase a block. *)
LEMMA EraseType ==
    ASSUME NEW a \in Nat
    PROVE  /\ EraseOps(a) \in Seq(Op) /\ Len(EraseOps(a)) = 3
           /\ EraseOps(a)[1] = writeToFlash(a, Cmd("60"), Cmd("D0"))
           /\ EraseOps(a)[2] = writeToFlash(a, Cmd("50"), Cmd("50"))
           /\ EraseOps(a)[3] = writeToFlash(a, Cmd("20"), Cmd("D0"))
<1>1. /\ writeToFlash(a, Cmd("60"), Cmd("D0")) \in Op
      /\ writeToFlash(a, Cmd("50"), Cmd("50")) \in Op
      /\ writeToFlash(a, Cmd("20"), Cmd("D0")) \in Op
  BY WriteType, BusType DEF Commands
<1> QED BY <1>1 DEF EraseOps

(* The access of the constructor. *)
LEMMA StartType ==
    /\ <<writeToFlash(1, Cmd("60"), Cmd("03"))>> \in Seq(Op)
    /\ <<writeToFlash(1, Cmd("60"), Cmd("03"))>>[1] = writeToFlash(1, Cmd("60"), Cmd("03"))
    /\ Len(<<writeToFlash(1, Cmd("60"), Cmd("03"))>>) = 1
<1>1. writeToFlash(1, Cmd("60"), Cmd("03")) \in Op
  BY WriteType, BusType DEF Commands
<1> QED BY <1>1

(* A complete buffer: all its addresses are set. *)
Addresses == [Slot -> Nat]

(* The accesses that program a buffer, by their index. *)
LEMMA ProgramType ==
    ASSUME NEW addr \in Addresses, NEW data \in [Slot -> FlashWord]
    PROVE  /\ ProgramOps(addr, data) \in Seq(Op) /\ Len(ProgramOps(addr, data)) = BUF + 4
           /\ ProgramOps(addr, data)[1] = writeToFlash(addr[0], Cmd("60"), Cmd("D0"))
           /\ ProgramOps(addr, data)[2] = writeToFlash(addr[0], Cmd("50"), Cmd("50"))
           /\ ProgramOps(addr, data)[3] = writeToFlash(addr[0], Cmd("E8"), Size(BUF - 1))
           /\ \A i \in Slot : ProgramOps(addr, data)[i + 4] = readFlash(addr[i], Data(data[i]))
           /\ ProgramOps(addr, data)[BUF + 4] = readFlash(addr[0], Cmd("D0"))
<1> DEFINE p == <<writeToFlash(addr[0], Cmd("60"), Cmd("D0")), writeToFlash(addr[0], Cmd("50"), Cmd("50")),
                  writeToFlash(addr[0], Cmd("E8"), Size(BUF - 1))>>
           q == [i \in 1 .. BUF |-> readFlash(addr[i - 1], Data(data[i - 1]))]
           r == <<readFlash(addr[0], Cmd("D0"))>>
<1>1. ProgramOps(addr, data) = (p \o q) \o r
  BY DEF ProgramOps
<1>2. 0 \in Slot /\ addr[0] \in Nat /\ BUF - 1 \in Nat
  BY PromAssumption DEF Slot, Addresses
<1>3. p \in Seq(Op) /\ Len(p) = 3
  <2>1. Size(BUF - 1) \in Bus
    BY <1>2, BusType
  <2>2. /\ writeToFlash(addr[0], Cmd("60"), Cmd("D0")) \in Op
        /\ writeToFlash(addr[0], Cmd("50"), Cmd("50")) \in Op
        /\ writeToFlash(addr[0], Cmd("E8"), Size(BUF - 1)) \in Op
    BY <1>2, <2>1, WriteType, BusType DEF Commands
  <2> QED BY <2>2
<1>4. q \in Seq(Op) /\ Len(q) = BUF
  <2>1. ASSUME NEW i \in 1 .. BUF
        PROVE  readFlash(addr[i - 1], Data(data[i - 1])) \in Op
    <3>1. i - 1 \in Slot
      BY PromAssumption DEF Slot
    <3>2. addr[i - 1] \in Nat /\ Data(data[i - 1]) \in Bus
      BY <3>1, BusType DEF Addresses
    <3> QED BY <3>2, ReadType
  <2> QED BY <2>1, PromAssumption
<1>5. r \in Seq(Op) /\ Len(r) = 1 /\ r[1] = readFlash(addr[0], Cmd("D0"))
  <2>1. Cmd("D0") \in Bus
    BY BusType DEF Commands
  <2>2. readFlash(addr[0], Cmd("D0")) \in Op
    BY <1>2, <2>1, ReadType
  <2> QED BY <2>2
<1>6. \A i \in Slot : i + 1 \in 1 .. BUF /\ q[i + 1] = readFlash(addr[i], Data(data[i]))
  <2>1. ASSUME NEW i \in Slot PROVE i + 1 \in 1 .. BUF /\ q[i + 1] = readFlash(addr[i], Data(data[i]))
    <3>1. i + 1 \in 1 .. BUF /\ (i + 1) - 1 = i
      BY PromAssumption DEF Slot
    <3> QED BY <3>1
  <2> QED BY <2>1
<1>7. /\ p[1] = writeToFlash(addr[0], Cmd("60"), Cmd("D0"))
      /\ p[2] = writeToFlash(addr[0], Cmd("50"), Cmd("50"))
      /\ p[3] = writeToFlash(addr[0], Cmd("E8"), Size(BUF - 1))
  OBVIOUS
<1> HIDE DEF p, q, r
<1>0. BUF \in Nat
  BY PromAssumption
<1>8. /\ p \o q \in Seq(Op) /\ Len(p \o q) = BUF + 3
      /\ \A i \in 1 .. 3 : (p \o q)[i] = p[i]
      /\ \A i \in 1 .. BUF : (p \o q)[3 + i] = q[i]
  <2>1. 3 + BUF = BUF + 3
    BY <1>0
  <2>2. /\ p \o q \in Seq(Op) /\ Len(p \o q) = Len(p) + Len(q)
        /\ \A i \in 1 .. Len(p) : (p \o q)[i] = p[i]
        /\ \A i \in 1 .. Len(q) : (p \o q)[Len(p) + i] = q[i]
    BY <1>3, <1>4, Concat
  <2> QED BY <1>3, <1>4, <2>1, <2>2
<1> DEFINE s == p \o q
<1> HIDE DEF s
<1>9. /\ s \o r \in Seq(Op) /\ Len(s \o r) = BUF + 4
      /\ \A i \in 1 .. (BUF + 3) : (s \o r)[i] = s[i]
      /\ (s \o r)[BUF + 4] = r[1]
  <2>1. (BUF + 3) + 1 = BUF + 4 /\ 1 \in 1 .. 1
    BY <1>0
  <2>2. s \in Seq(Op) /\ Len(s) = BUF + 3
    BY <1>8 DEF s
  <2>3. /\ s \o r \in Seq(Op) /\ Len(s \o r) = Len(s) + Len(r)
        /\ \A i \in 1 .. Len(s) : (s \o r)[i] = s[i]
        /\ \A i \in 1 .. Len(r) : (s \o r)[Len(s) + i] = r[i]
    BY <1>5, <2>2, Concat
  <2> QED BY <1>5, <2>1, <2>2, <2>3
<1>10. ASSUME NEW i \in Slot
       PROVE  (s \o r)[i + 4] = readFlash(addr[i], Data(data[i]))
  <2>1. i + 1 \in 1 .. BUF /\ 3 + (i + 1) = i + 4 /\ i + 4 \in 1 .. (BUF + 3)
    BY PromAssumption DEF Slot
  <2> QED BY <1>6, <1>8, <1>9, <2>1, ZenonT(60) DEF s
<1>11. \A i \in 1 .. 3 : (s \o r)[i] = p[i]
  <2>1. \A i \in 1 .. 3 : i \in 1 .. (BUF + 3)
    BY PromAssumption
  <2> QED BY <1>8, <1>9, <2>1 DEF s
<1>12. ProgramOps(addr, data) = s \o r
  BY <1>1 DEF s
<1>13. (s \o r)[1] = p[1] /\ (s \o r)[2] = p[2] /\ (s \o r)[3] = p[3]
  <2>1. 1 \in 1 .. 3 /\ 2 \in 1 .. 3 /\ 3 \in 1 .. 3
    OBVIOUS
  <2> QED BY <1>11, <2>1, Zenon
<1> QED BY <1>5, <1>7, <1>9, <1>10, <1>12, <1>13, Zenon
-----------------------------------------------------------------------------
(* The write buffer of the flash, one word at a time. *)
LEMMA LoadedNone ==
    ASSUME NEW addr, NEW data
    PROVE  Loaded(addr, data, 0) = [s \in Slot |-> Ones]
<1>1. \A s \in Slot : Entries(addr, 0, s) = {}
  BY DEF Entries
<1> QED BY <1>1 DEF Loaded

(* One more word in the write buffer. *)
LEMMA LoadedNext ==
    ASSUME NEW addr \in Addresses, NEW data \in [Slot -> FlashWord], NEW n \in Slot
    PROVE  Loaded(addr, data, n + 1) = Stored(Loaded(addr, data, n), addr[n], data[n])
<1> DEFINE E(s) == Entries(addr, n, s)
           F(s) == Entries(addr, n + 1, s)
           t == addr[n] % BUF
<1>1. n \in Nat /\ addr[n] \in Nat
  BY PromAssumption DEF Slot, Addresses
<1>2. \A i : i \in 0 .. ((n + 1) - 1) <=> i \in 0 .. (n - 1) \/ i = n
  BY <1>1
<1>3. ASSUME NEW s \in Slot, s # t
      PROVE  F(s) = E(s)
  BY <1>2, <1>3 DEF Entries
<1>4. n \in F(t) /\ \A i \in F(t) : i \in Nat /\ i <= n
  <2>1. n \in 0 .. ((n + 1) - 1) /\ \A i \in 0 .. ((n + 1) - 1) : i \in Nat /\ i <= n
    BY <1>1
  <2> QED BY <2>1 DEF Entries
<1>5. (CHOOSE m \in F(t) : \A i \in F(t) : i <= m) = n
  <2> HIDE DEF F
  <2> DEFINE P(m) == m \in F(t) /\ \A i \in F(t) : i <= m
             c == CHOOSE m : P(m)
  <2>1. P(n)
    BY <1>4
  <2>2. P(c)
    <3> HIDE DEF P
    <3> QED BY <2>1
  <2>3. c \in Nat /\ c <= n /\ n <= c
    BY <1>4, <2>2
  <2>4. c = n
    <3> HIDE DEF c
    <3> QED BY <1>1, <2>3
  <2> QED BY <2>4, Zenon
<1> DEFINE L == Loaded(addr, data, n)
           M == Loaded(addr, data, n + 1)
           W(S) == IF S = {} THEN Ones ELSE data[CHOOSE m \in S : \A i \in S : i <= m]
<1>6. /\ L = [s \in Slot |-> L[s]] /\ M = [s \in Slot |-> M[s]]
      /\ \A s \in Slot : L[s] = W(E(s))
      /\ \A s \in Slot : M[s] = W(F(s))
  BY DEF Loaded
<1>7. \A s \in Slot : s # t => M[s] = L[s]
  <2> HIDE DEF L, M, E, F, W
  <2> QED BY <1>3, <1>6, Zenon
<1>8. t \in Slot
  BY <1>1, SlotType
<1>9. M[t] = data[n]
  <2>1. F(t) # {}
    BY <1>4
  <2>2. M[t] = data[CHOOSE m \in F(t) : \A i \in F(t) : i <= m]
    <3> HIDE DEF L, M, E, F
    <3> QED BY <1>6, <1>8, <2>1, Zenon
  <2> HIDE DEF L, M, E, F
  <2> QED BY <1>5, <2>2, Zenon
<1> HIDE DEF L, M, E, F, t
<1>10. M = [L EXCEPT ![t] = data[n]]
  BY <1>6, <1>7, <1>8, <1>9
<1> QED BY <1>10 DEF Stored, L, M, t

(* Every entry is written once when the addresses follow each other. *)
LEMMA LoadedEach ==
    ASSUME NEW addr \in Addresses, NEW data \in [Slot -> FlashWord],
           \A i \in Slot : addr[i] % BUF = i
    PROVE  \A s \in Slot : Loaded(addr, data, BUF)[s] = data[s]
<1> SUFFICES ASSUME NEW s \in Slot PROVE Loaded(addr, data, BUF)[s] = data[s]
  OBVIOUS
<1>1. Entries(addr, BUF, s) = {s}
  <2>1. 0 .. (BUF - 1) = Slot
    BY DEF Slot
  <2> QED BY <2>1 DEF Entries
<1>2. s <= s
  BY PromAssumption DEF Slot
<1>3. (CHOOSE m \in {s} : \A i \in {s} : i <= m) = s
  BY <1>2
<1>4. Loaded(addr, data, BUF)[s] = data[CHOOSE m \in {s} : \A i \in {s} : i <= m]
  <2> DEFINE E == Entries(addr, BUF, s)
  <2>1. Loaded(addr, data, BUF)[s] = IF E = {} THEN Ones ELSE data[CHOOSE m \in E : \A i \in E : i <= m]
    BY DEF Loaded
  <2>2. E = {s} /\ E # {}
    BY <1>1
  <2> HIDE DEF E
  <2> QED BY <2>1, <2>2, Zenon
<1> QED BY <1>3, <1>4, Zenon

-----------------------------------------------------------------------------
(* Accesses that a flash which waits for buffer words has taken. *)
LEMMA CountsBound ==
    ASSUME NEW n, NEW k \in Nat, NEW m, Counts(n, k, m), n <= BUF
    PROVE  m <= BUF
BY PromAssumption DEF Counts

(* A killed run's buffer, when the erase pass starts, *)
LEMMA WithinStart ==
    ASSUME NEW left \in Nat, left <= BUF
    PROVE  Within(left, 0, 0, 0)
BY PromAssumption DEF Within

(* when it sends the commands of a block, *)
LEMMA WithinErase ==
    ASSUME NEW left \in Nat, NEW b \in Nat, Within(left, b, 0, 0)
    PROVE  Within(left, b, 6, 3)
BY PromAssumption DEF Within

(* when the flash takes one of them for two words, *)
LEMMA WithinTake ==
    ASSUME NEW left, NEW b \in Nat, NEW more \in Nat, NEW n \in Nat, NEW k \in Nat, k = n - 1,
           Within(left, b, more, n), NEW m, Counts(left, 2, m)
    PROVE  Within(m, b, more, k)
BY PromAssumption DEF Within, Counts

(* when the status request ends the block, *)
LEMMA WithinPoll ==
    ASSUME NEW left, NEW b \in Nat, Within(left, b, 6, 0), NEW m, Counts(left, 1, m)
    PROVE  Within(m, b + 1, 0, 1)
BY PromAssumption DEF Within, Counts

(* and never behind the last block. *)
LEMMA WithinPast ==
    ASSUME NEW left \in Nat, NEW b \in Nat, Within(left, b, 0, 0)
    PROVE  ~(b >= LastBlock + 1)
<1> DEFINE p == LastBlock
<1>1. p \in Nat /\ BUF < 9 * (p + 1) /\ BUF \in Nat
  BY PromAssumption, EraseAssumption, DivMod DEF LastBlock
<1> HIDE DEF p
<1>2. ~(b >= p + 1)
  BY <1>1 DEF Within
<1> QED BY <1>2 DEF p

-----------------------------------------------------------------------------
(* The control invariant holds in the first state and after every step.    *)
LEMMA QuietNow ==
    ASSUME ProgramTypeOK
    PROVE  /\ ~Waiting <=> Quiet(flash)
           /\ flash.left \in Nat /\ flash.mode \in {"array", "status", "load"}
           /\ flash.busy \in {"", "erase", "program"}
BY DEF ProgramTypeOK, Quiet, Waiting, FlashType

(* There is a file. *)
LEMMA FirstFile == 1 \in DOMAIN Files
<1>1. Files \in Seq([lines: Seq(Line), newline: BOOLEAN]) /\ Files # <<>>
  BY FilesAssumption
<1> DEFINE R == [lines: Seq(Line), newline: BOOLEAN]
<1> HIDE DEF R
<1>2. \A s \in Seq(R) : s # <<>> => 1 \in DOMAIN s
  OBVIOUS
<1> QED BY <1>1, <1>2 DEF R

(* The variables of a program that has not started have their types. *)
LEMMA FreshLocals ==
    /\ 0 \in Nat /\ 0 \in Bit /\ FALSE \in BOOLEAN /\ 0 \in Slot /\ open \in Reader
    /\ [i \in Slot |-> UNSET] \in [Slot -> Nat \cup {UNSET}]
    /\ [i \in Slot |-> Ones] \in [Slot -> FlashWord]
<1>1. 0 \in Slot
  BY PromAssumption DEF Slot
<1>2. open \in Reader
  <2>1. <<>> \in Seq({0, 1})
    OBVIOUS
  <2> QED BY <2>1 DEF open, Reader
<1>3. Ones \in FlashWord
  BY DEF Ones, FlashWord, Bit
<1> QED BY <1>1, <1>2, <1>3 DEF Bit

(* ControlInv holds at first. *)
LEMMA ControlInit ==
    ASSUME Init
    PROVE  ControlInv
<1>1. flash \in FlashType /\ flash.pend = "" /\ flash.mode = "array" /\ flash.busy = ""
  <2> DEFINE m == [a \in Word |-> <<0, 0>>]
             s == [i \in Slot |-> Ones]
  <2>1. m \in [Word -> FlashWord] /\ s \in [Slot -> FlashWord]
    BY DEF FlashWord, Bit, Ones
  <2> HIDE DEF m, s
  <2>2. flash = [mem |-> m, mode |-> "array", pend |-> "", left |-> 0, slots |-> s, busy |-> "",
                 at |-> 0, err |-> {}, unlocked |-> {}]
    BY DEF Init, m, s
  <2> QED BY <2>1, <2>2 DEF FlashType
<1>2. ProgramTypeOK
  <2>1. <<>> \in Seq(Op) /\ MaxFail \in Nat /\ MaxKills \in Nat
    BY PromAssumption
  <2> QED BY <1>1, <2>1, FirstFile, FreshLocals DEF Init, ProgramTypeOK
<1>3. OpsOk /\ ReaderInv /\ Settled /\ ProgramOk
  BY DEF Init, OpsOk, ReaderInv, Reading, Settled, AtRest, ProgramOk
<1>4. EraseOk
  BY <1>1 DEF Init, EraseOk
<1> QED BY <1>2, <1>3, <1>4 DEF ControlInv

(* main() and the constructor keep ControlInv, *)
LEMMA ControlStart ==
    ASSUME ControlInv, Start
    PROVE  ControlInv'
<1>1. ProgramTypeOK /\ pc = "off" /\ pc' = "fileExist" /\ flash' = flash /\ address' = address
  BY DEF ControlInv, Start, local
<1>2. ProgramTypeOK'
  BY <1>1, StartType DEF Start, local, ProgramTypeOK, Running
<1>3. OpsOk'
  <2>1. Rest(ops', <<writeToFlash(1, Cmd("60"), Cmd("03"))>>)
    BY StartType, RestAll DEF Start
  <2> QED BY <1>1, <2>1 DEF OpsOk
<1>4. EraseOk'
  BY <1>1 DEF EraseOk, ControlInv
<1>5. Settled'
  BY <1>1 DEF Settled, AtRest, Start, Waiting
<1>6. ProgramOk' /\ ReaderInv'
  BY <1>1 DEF ProgramOk, ReaderInv, Reading
<1> QED BY <1>2, <1>3, <1>4, <1>5, <1>6 DEF ControlInv

(* so does opening the file, *)
LEMMA ControlOpenFile ==
    ASSUME ControlInv, OpenFile
    PROVE  ControlInv'
<1>1. /\ ProgramTypeOK /\ ops = <<>> /\ ops' = <<>> /\ flash' = flash /\ file' = file /\ tool' = tool /\ torn' = torn
      /\ pc' \in {"exit0", "exit1", "erase", "openVerify", "write", "verify"}
      /\ pc' \in {"erase", "openVerify"} => pc = "fileExist" /\ UNCHANGED local
      /\ pc' = "erase" => tool = "load"
      /\ pc' = "openVerify" => tool = "verify"
      /\ pc' = "exit0" => pc = "openVerify"
      /\ pc' = "verify" => pc = "openVerify"
      /\ pc' = "write" => pc = "openWrite"
      /\ pc' \in {"write", "verify"} => reader' = open /\ bufSize' = 0
  BY DEF ControlInv, OpenFile, ProgramTypeOK
<1>2. ProgramTypeOK'
  <2>1. present' \in BOOLEAN
    BY DEF OpenFile, ControlInv, ProgramTypeOK
  <2>2. UNCHANGED <<flash, ops, file, tool, failures, kills, torn>>
    BY DEF OpenFile
  <2>3. CASE UNCHANGED local
    BY <1>1, <2>1, <2>2, <2>3 DEF ProgramTypeOK, local, Running
  <2>4. CASE /\ address' = 0 /\ reader' = open /\ byte' = 0 /\ toggle' = FALSE /\ fileData' = 0 /\ bufSize' = 0
             /\ bufAddr' = [i \in Slot |-> UNSET] /\ bufData' = [i \in Slot |-> Ones]
    BY <1>1, <2>1, <2>2, <2>4, FreshLocals DEF ProgramTypeOK, Running
  <2> QED BY <2>3, <2>4 DEF OpenFile
<1>3. OpsOk'
  <2>1. pc' = "write" => \A i \in 0 .. (bufSize' - 1) : bufAddr'[i] # UNSET
    BY <1>1
  <2>2. pc' = "write" => tool' = "load"
    BY <1>1 DEF ControlInv, OpsOk
  <2> QED BY <1>1, <2>1, <2>2 DEF OpsOk
<1>4. EraseOk'
  <2>1. pc' = "erase" => address' = 0 /\ address = 0
    BY <1>1 DEF ControlInv, EraseOk, local
  <2>2. 0 % BlockSize = 0 /\ Len(ops') = 0
    BY <1>1, PromAssumption
  <2>3. flash.mode = "load" => flash.busy = "" /\ flash.left <= BUF
    BY DEF ControlInv, EraseOk
  <2>4. flash.mode = "load" => Within(flash.left, 0, 0, 0)
    BY <1>1, <2>3, QuietNow, WithinStart
  <2> QED BY <1>1, <2>1, <2>2, <2>3, <2>4, BlockZero DEF EraseOk
<1>5. Settled'
  BY <1>1 DEF Settled, AtRest, ControlInv, Waiting
<1>6. ProgramOk'
  BY <1>1 DEF ProgramOk
<1>7. ReaderInv'
  <2>1. file \in DOMAIN Files
    BY <1>1 DEF ProgramTypeOK
  <2> QED BY <1>1, <2>1, OpenReader DEF ReaderInv, Reading
<1> QED BY <1>2, <1>3, <1>4, <1>5, <1>6, <1>7 DEF ControlInv

(* the loop of the erase pass, *)
LEMMA ControlErase ==
    ASSUME ControlInv, eraseBootProm
    PROVE  ControlInv'
<1>1. /\ ProgramTypeOK /\ pc = "erase" /\ ops = <<>> /\ Len(ops) = 0 /\ address \in Nat /\ address' = address
      /\ flash' = flash /\ tool' = tool /\ torn' = torn /\ address % BlockSize = 0 /\ tool = "load"
      /\ flash.mode = "load" => flash.busy = "" /\ flash.left <= BUF
      /\ flash.mode = "load" => Within(flash.left, Block(address), 0, 0)
      /\ address # 0 => flash.busy = ""
      /\ Block(address) \in Nat
  <2>1. ops = <<>> /\ Len(ops) = 0
    BY DEF eraseBootProm
  <2>2. ProgramTypeOK /\ address \in Nat
    BY DEF ControlInv, ProgramTypeOK
  <2> QED BY <2>1, <2>2, BlockType DEF ControlInv, eraseBootProm, EraseOk, OpsOk
<1>2. CASE address <= PROM_SIZE
  <2>1. pc' = "erasePoll" /\ ops' = EraseOps(address)
    BY <1>2 DEF eraseBootProm
  <2>2. ops' \in Seq(Op) /\ Len(ops') = 3 /\ Rest(ops', EraseOps(address))
    BY <1>1, <2>1, EraseType, RestAll
  <2>3. ProgramTypeOK'
    BY <1>1, <2>1, <2>2 DEF eraseBootProm, ProgramTypeOK, Running
  <2>4. OpsOk'
    BY <1>1, <2>1, <2>2 DEF OpsOk
  <2>5. EraseOk'
    BY <1>1, <2>1, <2>2, QuietNow, WithinErase DEF EraseOk
  <2>6. Settled' /\ ProgramOk' /\ ReaderInv'
    BY <1>1, <2>1 DEF Settled, AtRest, ProgramOk, ReaderInv, Reading
  <2> QED BY <2>3, <2>4, <2>5, <2>6 DEF ControlInv
<1>3. CASE ~(address <= PROM_SIZE)
  <2>1. pc' = "openWrite" /\ ops' = ops
    BY <1>3 DEF eraseBootProm
  <2>2. address > PROM_SIZE /\ address # 0
    <3>1. address \in Nat
      BY <1>1
    <3> QED BY <1>3, <3>1, PromAssumption
  <2>3. ~Waiting
    <3>1. Block(address) >= LastBlock + 1
      BY <1>1, <2>2, BlockPast
    <3>2. flash.mode # "load"
      BY <1>1, <3>1, QuietNow, WithinPast
    <3> QED BY <1>1, <2>2, <3>2 DEF Waiting
  <2>4. ProgramTypeOK'
    BY <1>1, <2>1 DEF eraseBootProm, ProgramTypeOK, Running
  <2>5. OpsOk' /\ EraseOk'
    BY <1>1, <2>1 DEF OpsOk, EraseOk
  <2>6. Settled' /\ ProgramOk' /\ ReaderInv'
    BY <1>1, <2>1, <2>3 DEF Settled, ProgramOk, Waiting, ReaderInv, Reading
  <2> QED BY <2>4, <2>5, <2>6 DEF ControlInv
<1> QED BY <1>2, <1>3

(* The status loop: what the flash is after the status command, and which  *)
(* way the program goes.                                                   *)
LEMMA PollStep ==
    ASSUME ControlInv, NEW from, NEW to, NEW a \in Nat, NEW kind, NEW again, Poll(from, to, a, kind, again)
    PROVE  /\ pc = from /\ ops = <<>> /\ flash' \in FlashType /\ flash'.pend = "" /\ flash'.mem = flash.mem
           /\ flash'.mode = "load" => /\ flash'.busy = "" /\ flash.mode = "load"
                                      /\ Counts(flash.left, 1, flash'.left)
           /\ flash.busy = "" => flash'.busy = ""
           /\ flash' = Cycle(flash, a, Cmd("70"))
           /\ \/ pc' = pc /\ ops' = again /\ flash'.mode = "status" /\ flash'.busy = ""
                 /\ kind \in flash'.err
              \/ pc' = to /\ ops' = LockOps(a) /\ flash'.busy = ""
                 /\ (flash'.mode = "status" => kind \notin flash'.err)
              \/ pc' = pc /\ ops' = ops /\ flash'.busy # ""
           /\ file' = file /\ present' = present /\ tool' = tool /\ failures' = failures
           /\ kills' = kills /\ torn' = torn
<1>1. flash' = Cycle(flash, a, Cmd("70"))
  BY DEF Poll
<1>2. flash \in FlashType /\ flash.pend = "" /\ (flash.mode = "load" => flash.busy = "")
  BY DEF ControlInv, ProgramTypeOK, EraseOk
<1>3. /\ flash' \in FlashType /\ flash'.pend = "" /\ flash'.mem = flash.mem
      /\ flash'.mode = "load" => /\ flash'.busy = "" /\ flash.mode = "load"
                                 /\ Counts(flash.left, 1, flash'.left)
      /\ flash.busy = "" => flash'.busy = ""
  BY <1>1, <1>2, AnyCycle
<1>4. \/ pc' = pc /\ ops' = again /\ flash'.mode = "status" /\ flash'.busy = "" /\ kind \in flash'.err
      \/ pc' = to /\ ops' = LockOps(a) /\ flash'.busy = "" /\ (flash'.mode = "status" => kind \notin flash'.err)
      \/ pc' = pc /\ ops' = ops /\ flash'.busy # ""
  BY DEF Poll
<1> QED BY <1>1, <1>3, <1>4 DEF Poll

(* the status loop of the erase command, *)
LEMMA ControlEraseCommand ==
    ASSUME ControlInv, eraseCommand
    PROVE  ControlInv'
<1>1. ProgramTypeOK /\ address \in Nat /\ Poll("erasePoll", "erase", address, "erase", EraseOps(address))
  BY DEF ControlInv, ProgramTypeOK, eraseCommand
<1>2. /\ pc = "erasePoll" /\ ops = <<>> /\ flash' \in FlashType /\ flash'.pend = ""
      /\ flash'.mode = "load" => /\ flash'.busy = "" /\ flash.mode = "load"
                                 /\ Counts(flash.left, 1, flash'.left)
      /\ \/ pc' = pc /\ ops' = EraseOps(address) /\ flash'.mode = "status" /\ flash'.busy = ""
         \/ pc' = "erase" /\ ops' = LockOps(address) /\ flash'.busy = ""
         \/ pc' = pc /\ ops' = ops /\ flash'.busy # ""
      /\ file' = file /\ present' = present /\ tool' = tool /\ failures' = failures
      /\ kills' = kills /\ torn' = torn
  BY <1>1, PollStep
<1>3. /\ tool = "load" /\ address % BlockSize = 0 /\ Len(ops) = 0
      /\ flash.mode = "load" => flash.left <= BUF /\ Within(flash.left, Block(address), 6, 0)
  BY <1>2 DEF ControlInv, OpsOk, EraseOk
<1>4. UNCHANGED <<reader, byte, toggle, fileData, bufAddr, bufData, bufSize>>
  BY DEF eraseCommand
<1>5. flash'.mode = "load" => flash'.left <= BUF
  BY <1>2, <1>3, CountsBound
<1>6. Settled' /\ ProgramOk' /\ ReaderInv'
  BY <1>2, <1>3 DEF Settled, AtRest, ProgramOk, ReaderInv, Reading
<1>7. CASE pc' = "erase" /\ ops' = LockOps(address) /\ flash'.busy = ""
  <2>1. address' = address + BlockSize
    BY <1>7 DEF eraseCommand
  <2>2. /\ address' \in Nat /\ address' >= BlockSize /\ address' - BlockSize = address
    BY <1>1, <2>1, PromAssumption
  <2>3. Block(address') = Block(address) + 1 /\ address' % BlockSize = 0 /\ Block(address) \in Nat
    BY <1>1, <1>3, <2>1, BlockNext, BlockType
  <2>4. ops' \in Seq(Op) /\ Len(ops') = 1
    BY <1>1, <1>7, LockType
  <2>5. ProgramTypeOK'
    BY <1>1, <1>2, <1>4, <1>7, <2>2, <2>4 DEF ProgramTypeOK, Running
  <2>6. OpsOk'
    BY <1>2, <1>3, <1>7, <2>2 DEF OpsOk
  <2>7. flash'.mode = "load" => Within(flash'.left, Block(address'), 0, 1)
    <3>1. flash'.mode = "load" => Within(flash'.left, Block(address) + 1, 0, 1)
      BY <1>2, <1>3, <2>3, WithinPoll
    <3> QED BY <2>3, <3>1
  <2>8. EraseOk'
    BY <1>2, <1>5, <1>7, <2>3, <2>4, <2>7 DEF EraseOk
  <2> QED BY <1>6, <2>5, <2>6, <2>8 DEF ControlInv
<1>8. CASE pc' = pc /\ flash'.mode # "load" /\ (ops' = EraseOps(address) \/ ops' = ops)
  <2>1. pc' # "erase" /\ address' = address
    BY <1>2, <1>8 DEF eraseCommand
  <2>2. ops' \in Seq(Op) /\ Rest(ops', EraseOps(address))
    BY <1>1, <1>2, <1>8, EraseType, RestAll DEF ControlInv, OpsOk, ProgramTypeOK
  <2>3. ProgramTypeOK'
    BY <1>1, <1>2, <1>4, <1>8, <2>1, <2>2 DEF ProgramTypeOK
  <2>4. OpsOk'
    BY <1>2, <1>3, <1>8, <2>1, <2>2 DEF OpsOk
  <2>5. EraseOk'
    BY <1>2, <1>3, <1>8, <2>1 DEF EraseOk
  <2> QED BY <1>6, <2>3, <2>4, <2>5 DEF ControlInv
<1> QED BY <1>2, <1>7, <1>8

(* the end of a pass, *)
LEMMA ControlStop ==
    ASSUME ControlInv, writeError \/ verifyStop
    PROVE  ControlInv'
<1>1. /\ pc \in {"write", "verify"} /\ ops = <<>> /\ pc' \in {"exit0", "exit1", "abort"}
      /\ pc' = "exit0" => pc = "verify"
      /\ UNCHANGED <<flash, ops, local, file, present, tool, failures, kills, torn>>
  BY DEF writeError, verifyStop, Stop
<1>2. ProgramTypeOK'
  BY <1>1 DEF ControlInv, ProgramTypeOK, local
<1>3. OpsOk' /\ ProgramOk' /\ ReaderInv'
  BY <1>1 DEF OpsOk, ProgramOk, ReaderInv, Reading
<1>4. EraseOk'
  BY <1>1 DEF ControlInv, EraseOk
<1>5. Settled'
  BY <1>1 DEF ControlInv, Settled, AtRest, Waiting
<1> QED BY <1>2, <1>3, <1>4, <1>5 DEF ControlInv

(* One turn of the loops over the file. *)
LEMMA PairStep ==
    ASSUME ControlInv, Reading, ~reader.endOfFile,
           read(file, reader).status >= 0, Pair(read(file, reader))
    PROVE  /\ ReaderOk(file, reader') /\ reader' \in Reader
           /\ byte' \in Bit /\ toggle' \in BOOLEAN /\ fileData' \in Bit
           /\ FullWord(read(file, reader)) = <<fileData, byte'>> /\ <<fileData, byte'>> \in FlashWord
<1> DEFINE x == read(file, reader)
           q == x.reader
<1>1. file \in DOMAIN Files /\ ReaderOk(file, reader) /\ byte \in Bit /\ fileData \in Bit /\ toggle \in BOOLEAN
  BY DEF ControlInv, ProgramTypeOK, ReaderInv
<1>2. \/ x.status \in {FAIL, ABORT}
      \/ /\ ReaderOk(file, q) /\ x.byte = <<Prefix(file, q.line)[Given(file, q)]>>
         /\ Given(file, q) = Given(file, reader) + 1 /\ Given(file, q) <= Len(Prefix(file, q.line))
      \/ ReaderOk(file, q) /\ x.byte = <<>>
  BY <1>1, ReadStep
<1>3. x.status \notin {FAIL, ABORT}
  BY DEF FAIL, ABORT
<1>4. ReaderOk(file, q) /\ reader' = q /\ q \in Reader
  BY <1>2, <1>3 DEF Pair, ReaderOk
<1>5. byte' \in Bit /\ FullWord(x) = <<fileData, byte'>>
  <2>1. CASE x.byte = <<>>
    BY <1>1, <2>1 DEF Pair, FullWord
  <2>2. CASE /\ x.byte = <<Prefix(file, q.line)[Given(file, q)]>>
             /\ Given(file, q) = Given(file, reader) + 1 /\ Given(file, q) <= Len(Prefix(file, q.line))
    <3> DEFINE p == Prefix(file, q.line)
               k == Given(file, q)
    <3>1. p \in Seq(Bit) /\ Len(p) \in Nat /\ Given(file, reader) \in Nat
      BY <1>1, <1>4, GivenRange
    <3>2. k \in 1 .. Len(p)
      <4> DEFINE j == Given(file, reader)
      <4> HIDE DEF j, k, p
      <4> QED BY <2>2, <3>1 DEF j, k, p
    <3>3. p[k] \in Bit
      <4> HIDE DEF k, p
      <4> QED BY <3>1, <3>2
    <3>4. x.byte = <<p[k]>>
      BY <2>2
    <3> HIDE DEF k, p
    <3>5. <<p[k]>> # <<>> /\ <<p[k]>>[1] = p[k]
      OBVIOUS
    <3>6. byte' = p[k] /\ FullWord(x) = <<fileData, p[k]>>
      BY <3>4, <3>5 DEF Pair, FullWord
    <3> QED BY <3>3, <3>6
  <2> QED BY <1>2, <1>3, <2>1, <2>2
<1>6. toggle' \in BOOLEAN /\ fileData' \in Bit
  BY <1>1, <1>5 DEF Pair
<1> QED BY <1>1, <1>4, <1>5, <1>6 DEF FlashWord

(* A buffer whose addresses are all set is complete. *)
LEMMA AllSet ==
    ASSUME NEW addr \in [Slot -> Nat \cup {UNSET}], \A i \in Slot : addr[i] # UNSET
    PROVE  addr \in Addresses /\ addr[0] \in Nat
<1>1. 0 \in Slot
  BY PromAssumption DEF Slot
<1> QED BY <1>1 DEF Addresses

(* a word of the write pass, *)
LEMMA ControlWriteWord ==
    ASSUME ControlInv, writeWord
    PROVE  ControlInv'
<1>1. /\ ProgramTypeOK /\ pc = "write" /\ ops = <<>> /\ ~reader.endOfFile /\ Reading
      /\ read(file, reader).status >= 0 /\ Pair(read(file, reader))
      /\ UNCHANGED <<flash, file, present, tool, failures, kills, torn>>
  BY DEF ControlInv, writeWord, Reading
<1>2. /\ ReaderOk(file, reader') /\ reader' \in Reader
      /\ byte' \in Bit /\ toggle' \in BOOLEAN /\ fileData' \in Bit
      /\ FullWord(read(file, reader)) = <<fileData, byte'>> /\ <<fileData, byte'>> \in FlashWord
  BY <1>1, PairStep
<1>3. ReaderInv'
  BY <1>1, <1>2 DEF ReaderInv
<1>4. tool = "load" /\ (\A i \in 0 .. (bufSize - 1) : bufAddr[i] # UNSET) /\ ~Waiting
  BY <1>1 DEF ControlInv, OpsOk, Settled, AtRest
<1>5. EraseOk'
  <2>1. flash'.mode = "load" => flash'.busy = "" /\ flash'.left <= BUF
    BY <1>1 DEF ControlInv, EraseOk
  <2>2. pc' \in {"write", "programPoll"}
    BY <1>1 DEF writeWord
  <2> QED BY <2>1, <2>2 DEF EraseOk
<1>6. Settled'
  BY <1>1, <1>4 DEF Settled, Waiting
<1>7. CASE ~toggle
  <2>1. UNCHANGED <<address, bufAddr, bufData, bufSize, ops, pc>>
    BY <1>7 DEF writeWord
  <2>2. ProgramTypeOK'
    BY <1>1, <1>2, <2>1 DEF ProgramTypeOK
  <2>3. OpsOk' /\ ProgramOk'
    BY <1>1, <1>4, <2>1 DEF OpsOk, ProgramOk
  <2> QED BY <1>3, <1>5, <1>6, <2>2, <2>3 DEF ControlInv
<1>8. CASE toggle
  <2>1. /\ bufAddr' = [bufAddr EXCEPT ![bufSize] = address]
        /\ bufData' = [bufData EXCEPT ![bufSize] = <<fileData, byte'>>]
        /\ address' = address + 1
        /\ IF bufSize + 1 = BUF
           THEN bufSize' = 0 /\ pc' = "programPoll" /\ ops' = ProgramOps(bufAddr', bufData')
           ELSE bufSize' = bufSize + 1 /\ pc' = pc /\ ops' = ops
    BY <1>2, <1>8 DEF writeWord
  <2>2. /\ address \in Nat /\ bufAddr \in [Slot -> Nat \cup {UNSET}] /\ bufData \in [Slot -> FlashWord]
        /\ bufSize \in Slot
    BY <1>1 DEF ProgramTypeOK
  <2>3. /\ bufAddr' \in [Slot -> Nat \cup {UNSET}] /\ bufData' \in [Slot -> FlashWord] /\ address' \in Nat
    BY <1>2, <2>1, <2>2
  <2>4. \A i \in 0 .. bufSize : i \in Slot /\ bufAddr'[i] # UNSET
    <3>1. \A i \in 0 .. bufSize : i \in Slot /\ (i = bufSize \/ i \in 0 .. (bufSize - 1))
      BY <2>2, PromAssumption DEF Slot
    <3>2. address # UNSET
      BY <2>2 DEF UNSET
    <3> QED BY <1>4, <2>1, <2>2, <3>1, <3>2
  <2>5. CASE bufSize + 1 = BUF
    <3>1. 0 .. bufSize = Slot /\ 0 \in Slot
      BY <2>2, <2>5, PromAssumption DEF Slot
    <3>2. pc' = "programPoll" /\ ops' = ProgramOps(bufAddr', bufData') /\ bufSize' = 0
      BY <2>1, <2>5
    <3>3. bufAddr' \in Addresses /\ BufferSet'
      BY <2>3, <2>4, <3>1, AllSet DEF BufferSet
    <3>4. ops' \in Seq(Op) /\ Len(ops') = BUF + 4
      BY <2>3, <3>2, <3>3, ProgramType
    <3>5. ProgramTypeOK'
      BY <1>1, <1>2, <2>3, <3>1, <3>2, <3>4 DEF ProgramTypeOK, Running
    <3>6. OpsOk'
      <4>1. Rest(ops', ProgramOps(bufAddr', bufData'))
        BY <3>2, <3>4, RestAll
      <4> QED BY <1>1, <1>4, <3>2, <3>3, <4>1 DEF OpsOk
    <3>7. ProgramOk'
      <4>1. /\ Len(ops') \notin 1 .. (BUF + 3) /\ Len(ops') \notin 1 .. (BUF + 2) /\ Len(ops') \notin 1 .. (BUF + 1)
        BY <3>4, PromAssumption
      <4>2. ops' # <<>>
        BY <3>4, PromAssumption
      <4>3. ~Waiting'
        BY <1>1, <1>4 DEF Waiting
      <4> QED BY <4>1, <4>2, <4>3 DEF ProgramOk
    <3> QED BY <1>3, <1>5, <1>6, <3>5, <3>6, <3>7 DEF ControlInv
  <2>6. CASE bufSize + 1 # BUF
    <3>1. bufSize' = bufSize + 1 /\ pc' = pc /\ ops' = ops
      BY <2>1, <2>6
    <3>2. bufSize' \in Slot /\ 0 .. (bufSize' - 1) = 0 .. bufSize
      BY <2>2, <2>6, <3>1, PromAssumption DEF Slot
    <3>3. ProgramTypeOK'
      BY <1>1, <1>2, <2>3, <3>1, <3>2 DEF ProgramTypeOK
    <3>4. OpsOk'
      BY <1>1, <1>4, <2>4, <3>1, <3>2 DEF OpsOk
    <3>5. ProgramOk'
      BY <1>1, <3>1 DEF ProgramOk
    <3> QED BY <1>3, <1>5, <1>6, <3>3, <3>4, <3>5 DEF ControlInv
  <2> QED BY <2>5, <2>6
<1> QED BY <1>1, <1>7, <1>8 DEF ProgramTypeOK

(* the end of the write pass, *)
LEMMA ControlWriteRest ==
    ASSUME ControlInv, writeRest
    PROVE  ControlInv'
<1>1. /\ ProgramTypeOK /\ pc = "write" /\ ops = <<>> /\ tool = "load" /\ ~Waiting
      /\ ReaderOk(file, reader)
      /\ UNCHANGED <<address, reader, byte, toggle, fileData, bufSize, flash, file, present, tool,
                     failures, kills, torn>>
  BY DEF ControlInv, writeRest, OpsOk, Settled, AtRest, ReaderInv, Reading
<1>2. pc' \in {"lastPoll", "openVerify"}
  BY DEF writeRest
<1>3. EraseOk'
  <2>1. flash'.mode = "load" => flash'.busy = "" /\ flash'.left <= BUF
    BY <1>1 DEF ControlInv, EraseOk
  <2> QED BY <1>2, <2>1 DEF EraseOk
<1>4. Settled' /\ ReaderInv'
  BY <1>1 DEF Settled, Waiting, ReaderInv
<1>5. CASE bufSize = 0
  <2>1. pc' = "openVerify" /\ UNCHANGED <<bufAddr, bufData, ops>>
    BY <1>5 DEF writeRest
  <2>2. ProgramTypeOK'
    BY <1>1, <2>1 DEF ProgramTypeOK, Running
  <2>3. OpsOk' /\ ProgramOk'
    BY <1>1, <2>1 DEF OpsOk, ProgramOk
  <2> QED BY <1>3, <1>4, <2>2, <2>3 DEF ControlInv
<1>6. CASE bufSize # 0
  <2>1. PICK a \in {0, BUF - 1}, w \in {<<0, 0>>, Ones} :
           /\ bufAddr' = [i \in Slot |-> IF bufAddr[i] = UNSET THEN a ELSE bufAddr[i]]
           /\ bufData' = [i \in Slot |-> IF i = bufSize THEN Ones
                                         ELSE IF bufAddr[i] = UNSET THEN w ELSE bufData[i]]
    BY <1>6 DEF writeRest
  <2>2. pc' = "lastPoll" /\ ops' = ProgramOps(bufAddr', bufData')
    BY <1>6 DEF writeRest
  <2>3. a \in Nat /\ a # UNSET /\ w \in FlashWord /\ Ones \in FlashWord
    BY PromAssumption DEF UNSET, FlashWord, Bit, Ones
  <2>4. bufAddr \in [Slot -> Nat \cup {UNSET}] /\ bufData \in [Slot -> FlashWord]
    BY <1>1 DEF ProgramTypeOK
  <2>5. bufAddr' \in [Slot -> Nat \cup {UNSET}] /\ \A i \in Slot : bufAddr'[i] # UNSET
    BY <2>1, <2>3, <2>4
  <2>6. bufData' \in [Slot -> FlashWord]
    BY <2>1, <2>3, <2>4
  <2>7. bufAddr' \in Addresses /\ BufferSet'
    BY <2>5, AllSet DEF BufferSet
  <2>8. ops' \in Seq(Op) /\ Len(ops') = BUF + 4
    BY <2>2, <2>6, <2>7, ProgramType
  <2>9. ProgramTypeOK'
    BY <1>1, <2>2, <2>5, <2>6, <2>8 DEF ProgramTypeOK, Running
  <2>10. OpsOk'
    <3>1. Rest(ops', ProgramOps(bufAddr', bufData'))
      BY <2>2, <2>8, RestAll
    <3> QED BY <1>1, <2>2, <2>7, <3>1 DEF OpsOk
  <2>11. ProgramOk'
    <3>1. /\ Len(ops') \notin 1 .. (BUF + 3) /\ Len(ops') \notin 1 .. (BUF + 2) /\ Len(ops') \notin 1 .. (BUF + 1)
      BY <2>8, PromAssumption
    <3>2. ops' # <<>>
      BY <2>8, PromAssumption
    <3>3. ~Waiting'
      BY <1>1 DEF Waiting
    <3> QED BY <3>1, <3>2, <3>3 DEF ProgramOk
  <2> QED BY <1>3, <1>4, <2>9, <2>10, <2>11 DEF ControlInv
<1> QED BY <1>5, <1>6

(* the status loop of the program command, *)
LEMMA ControlProgramCommand ==
    ASSUME ControlInv, bufferedProgramCommand
    PROVE  ControlInv'
<1> DEFINE to == IF pc = "programPoll" THEN "write" ELSE "openVerify"
<1>1. /\ ProgramTypeOK /\ pc \in {"programPoll", "lastPoll"} /\ ops = <<>>
      /\ Poll(pc, to, bufAddr[0], "program", ProgramOps(bufAddr, bufData)) /\ UNCHANGED local
  <2>1. CASE Poll("programPoll", "write", bufAddr[0], "program", ProgramOps(bufAddr, bufData))
    BY <2>1 DEF bufferedProgramCommand, Poll, ControlInv
  <2>2. CASE Poll("lastPoll", "openVerify", bufAddr[0], "program", ProgramOps(bufAddr, bufData))
    BY <2>2 DEF bufferedProgramCommand, Poll, ControlInv
  <2> QED BY <2>1, <2>2 DEF bufferedProgramCommand
<1>2. /\ BufferSet /\ tool = "load" /\ ReaderOk(file, reader) /\ flash.mode # "load"
      /\ flash.busy # "" => flash.busy = "program" /\ flash.at = bufAddr[0]
                            /\ flash.slots = Loaded(bufAddr, bufData, BUF)
  BY <1>1 DEF ControlInv, OpsOk, ReaderInv, Reading, ProgramOk
<1>3. bufAddr \in Addresses /\ bufAddr[0] \in Nat /\ bufData \in [Slot -> FlashWord]
  BY <1>1, <1>2, AllSet DEF ProgramTypeOK, BufferSet
<1> HIDE DEF to
<1>4. /\ flash' = Cycle(flash, bufAddr[0], Cmd("70"))
      /\ \/ pc' = pc /\ ops' = ProgramOps(bufAddr, bufData) /\ flash'.mode = "status" /\ flash'.busy = ""
         \/ pc' = to /\ ops' = LockOps(bufAddr[0]) /\ flash'.busy = ""
         \/ pc' = pc /\ ops' = ops /\ flash'.busy # ""
      /\ file' = file /\ present' = present /\ tool' = tool /\ failures' = failures
      /\ kills' = kills /\ torn' = torn
  BY <1>1, <1>3, PollStep
<1>5. flash \in FlashType /\ flash.pend = ""
  BY <1>1 DEF ProgramTypeOK
<1>6. /\ flash' \in FlashType /\ flash'.pend = "" /\ flash'.mode = "status" /\ flash'.busy = flash.busy
      /\ Same(flash', flash) /\ flash'.err = flash.err /\ flash'.unlocked = flash.unlocked
      /\ flash'.at = flash.at
  BY <1>2, <1>3, <1>4, <1>5, StatusCycle
<1>7. ops' \in Seq(Op)
  BY <1>1, <1>3, <1>4, ProgramType, LockType DEF ProgramTypeOK
<1>8. pc' \in Running /\ pc' \in {"programPoll", "lastPoll", "write", "openVerify"}
  BY <1>1, <1>4 DEF Running, to
<1>9. ProgramTypeOK'
  BY <1>1, <1>4, <1>6, <1>7, <1>8 DEF ProgramTypeOK, local
<1>10. ReaderInv'
  BY <1>1, <1>2, <1>4 DEF ReaderInv, local
<1>11. OpsOk'
  <2>1. UNCHANGED <<bufAddr, bufData, bufSize>> /\ BufferSet'
    BY <1>1, <1>2 DEF local, BufferSet
  <2>2. Rest(ProgramOps(bufAddr, bufData), ProgramOps(bufAddr, bufData))
    BY <1>3, ProgramType, RestAll
  <2>3. bufAddr[0] # UNSET /\ \A i \in 0 .. (bufSize - 1) : bufAddr[i] # UNSET
    <3>1. 0 \in Slot /\ 0 .. (bufSize - 1) \subseteq Slot
      <4>1. bufSize \in Slot
        BY <1>1 DEF ProgramTypeOK
      <4> QED BY <4>1, PromAssumption DEF Slot
    <3> QED BY <1>2, <3>1 DEF BufferSet
  <2>4. CASE pc' = pc
    <3>1. pc' # to
      BY <1>1, <2>4 DEF to
    <3>2. Rest(ops', ProgramOps(bufAddr', bufData'))
      BY <1>1, <1>4, <2>1, <2>2, <3>1 DEF ControlInv, OpsOk
    <3> QED BY <1>1, <1>2, <1>4, <2>1, <2>4, <3>2 DEF OpsOk
  <2>5. CASE pc' = to /\ ops' = LockOps(bufAddr[0])
    <3>1. to \in {"write", "openVerify"}
      BY <1>1 DEF to
    <3> QED BY <1>2, <1>4, <2>1, <2>3, <2>5, <3>1 DEF OpsOk
  <2> QED BY <1>4, <2>4, <2>5
<1>12. EraseOk'
  BY <1>6, <1>8 DEF EraseOk
<1>13. Settled'
  <2>1. pc' = to => ~Waiting'
    BY <1>1, <1>4, <1>6 DEF Waiting, to
  <2>2. pc' = to \/ pc' \in {"programPoll", "lastPoll"}
    BY <1>1, <1>4
  <2> QED BY <1>2, <1>4, <2>1, <2>2 DEF Settled, AtRest
<1>14. ProgramOk'
  <2>1. CASE pc' = pc /\ ops' = ops
    <3>1. Len(ops) = 0 /\ UNCHANGED <<bufAddr, bufData>>
      BY <1>1 DEF local
    <3>2. ~(Len(ops) >= BUF + 2) /\ Len(ops) \notin 1 .. (BUF + 3)
          /\ Len(ops) \notin 1 .. (BUF + 2) /\ Len(ops) \notin 1 .. (BUF + 1)
      BY <3>1, PromAssumption
    <3> QED BY <1>2, <1>6, <2>1, <3>1, <3>2 DEF ProgramOk, Same
  <2>2. CASE pc' = pc /\ ops' = ProgramOps(bufAddr, bufData) /\ flash'.busy = ""
    <3>1. Len(ops') = BUF + 4
      BY <1>3, <2>2, ProgramType
    <3>2. /\ Len(ops') \notin 1 .. (BUF + 3) /\ Len(ops') \notin 1 .. (BUF + 2) /\ Len(ops') \notin 1 .. (BUF + 1)
      BY <3>1, PromAssumption
    <3>3. ops' # <<>>
      BY <3>1, PromAssumption
    <3>4. ~Waiting'
      BY <1>6, <2>2 DEF Waiting
    <3> QED BY <3>2, <3>3, <3>4 DEF ProgramOk
  <2>3. CASE pc' = to
    BY <1>1, <2>3 DEF ProgramOk, to
  <2> QED BY <1>4, <2>1, <2>2, <2>3
<1> QED BY <1>9, <1>10, <1>11, <1>12, <1>13, <1>14 DEF ControlInv

(* a word of the verify pass, *)
LEMMA ControlVerifyWord ==
    ASSUME ControlInv, verifyWord
    PROVE  ControlInv'
<1> DEFINE g == Cycle(flash, address, Cmd("FF"))
<1>1. /\ ProgramTypeOK /\ pc = "verify" /\ ops = <<>> /\ ~reader.endOfFile /\ Reading
      /\ read(file, reader).status >= 0 /\ Pair(read(file, reader))
      /\ flash' = IF toggle THEN g ELSE flash
      /\ address' = IF toggle THEN address + 1 ELSE address
      /\ pc' \in {"verify", "exit1"}
      /\ UNCHANGED <<ops, bufAddr, bufData, bufSize, file, present, tool, failures, kills, torn>>
  BY DEF ControlInv, verifyWord, Reading
<1>2. /\ ReaderOk(file, reader') /\ reader' \in Reader
      /\ byte' \in Bit /\ toggle' \in BOOLEAN /\ fileData' \in Bit
  BY <1>1, PairStep
<1>3. /\ flash \in FlashType /\ flash.pend = "" /\ address \in Nat /\ address + 1 \in Nat
      /\ flash.mode = "load" => flash.busy = "" /\ flash.left <= BUF
  <2>1. address \in Nat
    BY <1>1 DEF ProgramTypeOK
  <2>2. address + 1 \in Nat
    BY <2>1, Count, Zenon
  <2> QED BY <2>1, <2>2 DEF ControlInv, ProgramTypeOK, EraseOk
<1>4. /\ g \in FlashType /\ g.pend = "" /\ g.mem = flash.mem
      /\ g.mode = "load" => g.busy = "" /\ flash.mode = "load" /\ Counts(flash.left, 1, g.left)
  BY <1>3, AnyCycle
<1>5. g.mode = "load" => g.left <= BUF
  BY <1>3, <1>4, CountsBound
<1>6. ~Waiting => Quiet(g)
  BY <1>1, <1>3, QuietNow, ArrayCycle
<1> HIDE DEF g
<1>7. ProgramTypeOK'
  BY <1>1, <1>2, <1>3, <1>4 DEF ProgramTypeOK, Running
<1>8. OpsOk' /\ ProgramOk'
  BY <1>1 DEF OpsOk, ProgramOk
<1>9. EraseOk'
  BY <1>1, <1>3, <1>4, <1>5 DEF EraseOk
<1>10. Settled'
  BY <1>1, <1>6 DEF ControlInv, Settled, AtRest, Waiting, Quiet
<1>11. ReaderInv'
  BY <1>1, <1>2 DEF ReaderInv
<1> QED BY <1>7, <1>8, <1>9, <1>10, <1>11 DEF ControlInv

(* What a finished operation leaves. *)
LEMMA AndType ==
    ASSUME NEW v \in FlashWord, NEW w \in FlashWord
    PROVE  /\ And(v, w) \in FlashWord /\ And(w, w) = w /\ And(Ones, w) = w
           /\ And(v, w) = w => And(And(v, w), w) = w
<1>1. v[1] \in Bit /\ v[2] \in Bit /\ w[1] \in Bit /\ w[2] \in Bit /\ w = <<w[1], w[2]>>
  BY DEF FlashWord
<1>2. Ones[1] = 1 /\ Ones[2] = 1
  BY DEF Ones
<1>3. And(v, w) \in FlashWord
  BY <1>1 DEF And, FlashWord, Bit
<1>4. And(w, w) = w
  BY <1>1 DEF And, Bit
<1>5. And(Ones, w) = w
  BY <1>1, <1>2 DEF And
<1> QED BY <1>3, <1>4, <1>5

(* What an operation makes of the array is an array. *)
LEMMA ResultType ==
    ASSUME NEW f \in FlashType
    PROVE  Result(f) \in [Word -> FlashWord]
<1>1. Ones \in FlashWord
  BY DEF Ones, FlashWord, Bit
<1>2. f.mem \in [Word -> FlashWord] /\ f.slots \in [Slot -> FlashWord]
  BY DEF FlashType
<1>3. \A a \in Word : f.slots[a % BUF] \in FlashWord
  BY <1>2, WordBlocks, SlotType
<1>4. \A a \in Word : And(f.mem[a], f.slots[a % BUF]) \in FlashWord
  BY <1>2, <1>3, AndType
<1> QED BY <1>1, <1>2, <1>4 DEF Result

(* A finished operation has taken effect, or it is reported as an error *)
(* and may have taken effect or not.                                    *)
LEMMA FinishStep ==
    ASSUME ControlInv, FlashFinish
    PROVE  /\ flash.busy # "" /\ flash.mode # "load" /\ flash' \in FlashType /\ flash'.pend = "" /\ flash'.busy = ""
           /\ flash'.mode = flash.mode /\ flash'.unlocked = flash.unlocked /\ flash'.at = flash.at
           /\ flash'.slots = flash.slots
           /\ \/ flash'.mem = Result(flash) /\ flash'.err = flash.err
              \/ flash'.mem \in {flash.mem, Result(flash)} /\ flash'.err = flash.err \cup {flash.busy}
           /\ failures' \in Nat
           /\ UNCHANGED <<file, present, tool, pc, ops, local, kills, torn>>
<1>1. flash \in FlashType /\ flash.pend = "" /\ failures \in Nat /\ flash.busy # ""
      /\ (flash.mode = "load" => flash.busy = "")
  BY DEF ControlInv, ProgramTypeOK, FlashFinish, EraseOk
<1>2. flash.busy \in {"erase", "program"}
  BY <1>1 DEF FlashType
<1> DEFINE R == Result(flash)
<1>3. R \in [Word -> FlashWord] /\ flash.mem \in [Word -> FlashWord]
  BY <1>1, ResultType DEF FlashType
<1> HIDE DEF R
<1>4. CASE flash' = [flash EXCEPT !.busy = "", !.mem = R] /\ UNCHANGED failures
  <2>1. /\ flash' \in FlashType /\ flash'.pend = "" /\ flash'.busy = ""
        /\ flash'.mode = flash.mode /\ flash'.unlocked = flash.unlocked /\ flash'.at = flash.at
        /\ flash'.slots = flash.slots /\ flash'.mem = R /\ flash'.err = flash.err
    BY <1>1, <1>3, <1>4 DEF FlashType
  <2> QED BY <1>1, <1>4, <2>1 DEF R, FlashFinish
<1>5. ASSUME failures > 0, failures' = failures - 1, NEW m \in {flash.mem, R},
             flash' = [flash EXCEPT !.busy = "", !.mem = m, !.err = @ \cup {flash.busy}]
      PROVE  /\ flash' \in FlashType /\ flash'.pend = "" /\ flash'.busy = ""
             /\ flash'.mode = flash.mode /\ flash'.unlocked = flash.unlocked /\ flash'.at = flash.at
             /\ flash'.slots = flash.slots /\ flash'.mem = m /\ flash'.err = flash.err \cup {flash.busy}
             /\ failures' \in Nat
  <2> DEFINE e == flash.err \cup {flash.busy}
  <2>1. e \in SUBSET {"erase", "program"}
    BY <1>1, <1>2 DEF FlashType
  <2>2. m \in [Word -> FlashWord]
    BY <1>3
  <2>3. flash' = [flash EXCEPT !.busy = "", !.mem = m, !.err = e]
    BY <1>1, <1>5 DEF FlashType
  <2>4. failures' \in Nat
    BY <1>1, <1>5, Count, Zenon
  <2> HIDE DEF e
  <2>5. /\ flash' \in FlashType /\ flash'.pend = "" /\ flash'.busy = ""
        /\ flash'.mode = flash.mode /\ flash'.unlocked = flash.unlocked /\ flash'.at = flash.at
        /\ flash'.slots = flash.slots /\ flash'.mem = m /\ flash'.err = e
    BY <1>1, <2>1, <2>2, <2>3 DEF FlashType
  <2> QED BY <2>4, <2>5 DEF e
<1>6. \/ flash' = [flash EXCEPT !.busy = "", !.mem = R] /\ UNCHANGED failures
      \/ /\ failures > 0 /\ failures' = failures - 1
         /\ \E m \in {flash.mem, R} :
               flash' = [flash EXCEPT !.busy = "", !.mem = m, !.err = @ \cup {flash.busy}]
  BY DEF FlashFinish, R
<1>7. UNCHANGED <<file, present, tool, pc, ops, local, kills, torn>>
  BY DEF FlashFinish
<1>8. CASE /\ failures > 0 /\ failures' = failures - 1
           /\ \E m \in {flash.mem, R} :
                 flash' = [flash EXCEPT !.busy = "", !.mem = m, !.err = @ \cup {flash.busy}]
  <2>1. PICK m \in {flash.mem, R} :
                 flash' = [flash EXCEPT !.busy = "", !.mem = m, !.err = @ \cup {flash.busy}]
    BY <1>8
  <2>2. /\ flash' \in FlashType /\ flash'.pend = "" /\ flash'.busy = ""
        /\ flash'.mode = flash.mode /\ flash'.unlocked = flash.unlocked /\ flash'.at = flash.at
        /\ flash'.slots = flash.slots /\ flash'.mem = m /\ flash'.err = flash.err \cup {flash.busy}
        /\ failures' \in Nat
    BY <1>5, <1>8, <2>1
  <2> QED BY <1>1, <1>7, <2>1, <2>2 DEF R
<1> QED BY <1>4, <1>6, <1>8

(* The flash that finishes an operation keeps ControlInv, *)
LEMMA ControlFinish ==
    ASSUME ControlInv, FlashFinish
    PROVE  ControlInv'
<1>1. /\ flash.busy # "" /\ flash.mode # "load" /\ flash' \in FlashType /\ flash'.pend = "" /\ flash'.busy = ""
      /\ flash'.mode = flash.mode /\ failures' \in Nat
      /\ UNCHANGED <<file, present, tool, pc, ops, local, kills, torn>>
  BY FinishStep
<1>2. ProgramTypeOK'
  BY <1>1 DEF ControlInv, ProgramTypeOK, local
<1>3. OpsOk' /\ ReaderInv'
  BY <1>1 DEF ControlInv, OpsOk, ReaderInv, Reading, BufferSet, local
<1>4. EraseOk'
  BY <1>1 DEF ControlInv, EraseOk, local
<1>5. Settled'
  BY <1>1 DEF ControlInv, Settled, AtRest, Waiting
<1>6. ProgramOk'
  <2>1. SUFFICES ASSUME pc \in {"programPoll", "lastPoll"} PROVE ProgramOk'
    BY <1>1 DEF ProgramOk
  <2>2. Waiting /\ ops \in Seq(Op)
    BY <1>1 DEF Waiting, ControlInv, ProgramTypeOK
  <2>3. ~(Len(ops) >= BUF + 2) /\ Len(ops) \notin 1 .. (BUF + 1)
    BY <1>1, <2>1, <2>2 DEF ControlInv, ProgramOk
  <2>4. Len(ops) = 0
    <3>1. Len(ops) \in Nat
      BY <2>2
    <3> QED BY <2>3, <3>1, PromAssumption
  <2>5. Len(ops) \notin 1 .. (BUF + 3) /\ Len(ops) \notin 1 .. (BUF + 2)
    BY <2>4
  <2>6. ops' = ops
    BY <1>1
  <2> QED BY <1>1, <2>3, <2>5, <2>6 DEF ProgramOk
<1> QED BY <1>2, <1>3, <1>4, <1>5, <1>6 DEF ControlInv

(* so does a program that is killed or run again, *)
LEMMA ControlExit ==
    ASSUME ControlInv, Kill \/ Again
    PROVE  ControlInv'
<1>1. /\ Exit /\ kills > 0 /\ kills' = kills - 1 /\ UNCHANGED <<flash, failures, torn>>
  BY DEF Kill, Again
<1>2. pc' = "off" /\ ops' = <<>> /\ address' = 0
  BY <1>1 DEF Exit
<1>3. ProgramTypeOK'
  <2>1. kills' \in Nat
    <3>1. kills \in Nat
      BY DEF ControlInv, ProgramTypeOK
    <3> QED BY <1>1, <3>1, Count, Zenon
  <2>2. <<>> \in Seq(Op)
    OBVIOUS
  <2> QED BY <1>1, <2>1, <2>2, FirstFile, FreshLocals DEF Exit, ControlInv, ProgramTypeOK
<1>4. OpsOk' /\ ProgramOk' /\ Settled' /\ ReaderInv'
  BY <1>2 DEF OpsOk, ProgramOk, Settled, AtRest, ReaderInv, Reading
<1>5. EraseOk'
  BY <1>1, <1>2 DEF ControlInv, EraseOk
<1> QED BY <1>3, <1>4, <1>5 DEF ControlInv

(* The next access, outside of bufferedProgramCommand. *)
LEMMA EraseAccess ==
    ASSUME ProgramTypeOK, pc = "erasePoll", Rest(ops, EraseOps(address)), ops # <<>>
    PROVE  /\ Len(ops) \in 1 .. 3 /\ Len(Tail(ops)) = Len(ops) - 1 /\ Len(Tail(ops)) \in Nat
           /\ Tail(ops) \in Seq(Op) /\ Rest(Tail(ops), EraseOps(address))
           /\ Len(ops) = 3 => Head(ops) = writeToFlash(address, Cmd("60"), Cmd("D0"))
           /\ Len(ops) = 2 => Head(ops) = writeToFlash(address, Cmd("50"), Cmd("50"))
           /\ Len(ops) = 1 => Head(ops) = writeToFlash(address, Cmd("20"), Cmd("D0"))
<1> DEFINE s == EraseOps(address)
           n == Len(ops)
<1>1. address \in Nat /\ ops \in Seq(Op)
  BY DEF ProgramTypeOK
<1>2. s \in Seq(Op) /\ Len(s) = 3
  BY <1>1, EraseType
<1>3. /\ Rest(Tail(ops), s) /\ Head(ops) = s[Len(s) - n + 1]
      /\ Tail(ops) \in Seq(Op) /\ n \in Nat \ {0} /\ Len(Tail(ops)) = n - 1
  BY <1>1, <1>2, RestNext
<1>4. n <= 3
  BY <1>2 DEF Rest
<1>5. /\ n = 3 => Head(ops) = s[1]
      /\ n = 2 => Head(ops) = s[2]
      /\ n = 1 => Head(ops) = s[3]
  <2> DEFINE h == Head(ops)
  <2> HIDE DEF n, s, h
  <2>1. h = s[3 - n + 1]
    BY <1>2, <1>3 DEF h
  <2>2. (n = 3 => 3 - n + 1 = 1) /\ (n = 2 => 3 - n + 1 = 2) /\ (n = 1 => 3 - n + 1 = 3)
    OBVIOUS
  <2>3. (n = 3 => h = s[1]) /\ (n = 2 => h = s[2]) /\ (n = 1 => h = s[3])
    BY <2>1, <2>2
  <2> QED BY <2>3 DEF h
<1>6. n \in 1 .. 3 /\ n - 1 \in Nat
  <2> HIDE DEF n
  <2> QED BY <1>3, <1>4
<1> QED BY <1>1, <1>3, <1>5, <1>6, EraseType

(* A flash that is at rest stays so while the block is locked. *)
LEMMA LockAccess ==
    ASSUME NEW f, Quiet(f), NEW a \in Nat, NEW o, o = Head(LockOps(a))
    PROVE  Quiet(Transfer(f, o)) /\ Same(Transfer(f, o), f)
<1>1. o = writeToFlash(a, Cmd("60"), Cmd("01"))
  BY LockType
<1> QED BY <1>1, QuietLock

(* The next access of the erase pass. *)
LEMMA EraseNext ==
    ASSUME ControlInv, Flash, pc \in {"fileExist", "erase", "erasePoll"}
    PROVE  LET n == Len(ops)
               o == Head(ops)
               t == Tail(ops)
           IN  /\ n \in Nat /\ Len(t) \in Nat /\ Len(t) = n - 1 /\ t \in Seq(Op)
               /\ pc = "fileExist" => t = <<>> /\ o = writeToFlash(1, Cmd("60"), Cmd("03"))
               /\ pc = "erase" => /\ n = 1 /\ t = <<>> /\ address - BlockSize \in Nat /\ address # 0
                                  /\ o = writeToFlash(address - BlockSize, Cmd("60"), Cmd("01"))
               /\ pc = "erasePoll" => /\ Rest(t, EraseOps(address)) /\ n \in 1 .. 3
                                      /\ n = 3 => o = writeToFlash(address, Cmd("60"), Cmd("D0"))
                                      /\ n = 2 => o = writeToFlash(address, Cmd("50"), Cmd("50"))
                                      /\ n = 1 => o = writeToFlash(address, Cmd("20"), Cmd("D0"))
<1> DEFINE o == Head(ops)
           t == Tail(ops)
           n == Len(ops)
           k == Len(t)
<1>1. ProgramTypeOK /\ ops # <<>>
  BY DEF ControlInv, Flash
<1>2. address \in Nat
  BY <1>1 DEF ProgramTypeOK
<1>3. /\ n \in Nat /\ k \in Nat /\ k = n - 1 /\ t \in Seq(Op)
      /\ pc = "fileExist" => t = <<>> /\ o = writeToFlash(1, Cmd("60"), Cmd("03"))
      /\ pc = "erase" => /\ n = 1 /\ t = <<>> /\ address - BlockSize \in Nat /\ address # 0
                         /\ o = writeToFlash(address - BlockSize, Cmd("60"), Cmd("01"))
      /\ pc = "erasePoll" => /\ Rest(t, EraseOps(address)) /\ n \in 1 .. 3
                             /\ n = 3 => o = writeToFlash(address, Cmd("60"), Cmd("D0"))
                             /\ n = 2 => o = writeToFlash(address, Cmd("50"), Cmd("50"))
                             /\ n = 1 => o = writeToFlash(address, Cmd("20"), Cmd("D0"))
  <2>1. CASE pc = "fileExist"
    <3> DEFINE s == <<writeToFlash(1, Cmd("60"), Cmd("03"))>>
    <3>1. ops \in Seq(Op) /\ s \in Seq(Op) /\ Rest(ops, s) /\ Len(s) = 1
          /\ s[1] = writeToFlash(1, Cmd("60"), Cmd("03"))
      BY <1>1, <2>1, StartType DEF ControlInv, ProgramTypeOK, OpsOk
    <3> HIDE DEF s
    <3>2. /\ o = s[Len(s) - n + 1] /\ t \in Seq(Op) /\ n \in Nat \ {0} /\ k = n - 1
      BY <1>1, <3>1, RestNext
    <3>3. n <= 1
      BY <3>1 DEF Rest
    <3>4. n = 1 /\ k = 0 /\ 1 - n + 1 = 1
      <4> HIDE DEF n, k
      <4> QED BY <3>2, <3>3
    <3>5. t = <<>>
      <4> HIDE DEF t
      <4> QED BY <3>2, <3>4
    <3> QED BY <2>1, <3>1, <3>2, <3>4, <3>5
  <2>2. CASE pc = "erase"
    <3>1. address >= BlockSize /\ ops = LockOps(address - BlockSize)
      BY <1>1, <2>2 DEF ControlInv, OpsOk
    <3>2. address - BlockSize \in Nat /\ address # 0
      BY <1>2, <3>1, PromAssumption, Back
    <3>3. /\ Len(ops) = 1 /\ Head(ops) = writeToFlash(address - BlockSize, Cmd("60"), Cmd("01"))
          /\ Tail(ops) = <<>>
      BY <3>1, <3>2, LockType
    <3>4. n = 1 /\ k = 0 /\ t = <<>> /\ t \in Seq(Op)
      <4>1. Len(<<>>) = 0 /\ <<>> \in Seq(Op)
        OBVIOUS
      <4> QED BY <3>3, <4>1, Zenon
    <3>5. n \in Nat /\ k \in Nat /\ k = n - 1
      <4> HIDE DEF n, k
      <4> QED BY <3>4
    <3>6. o = writeToFlash(address - BlockSize, Cmd("60"), Cmd("01"))
      BY <3>3
    <3> HIDE DEF n, k, t, o
    <3> QED BY <2>2, <3>2, <3>4, <3>5, <3>6
  <2>3. CASE pc = "erasePoll"
    <3>1. Rest(ops, EraseOps(address))
      BY <2>3 DEF ControlInv, OpsOk
    <3>2. Len(ops) \in Nat
      <4>1. ops \in Seq(Op)
        BY <1>1 DEF ProgramTypeOK
      <4> QED BY <4>1
    <3> QED BY <1>1, <2>3, <3>1, <3>2, EraseAccess
  <2> QED BY <2>1, <2>2, <2>3
<1> QED BY <1>3

(* an access of the erase pass or the constructor, *)
LEMMA ControlFlashErase ==
    ASSUME ControlInv, Flash, pc \in {"fileExist", "erase", "erasePoll"}
    PROVE  ControlInv'
<1> DEFINE o == Head(ops)
           g == Transfer(flash, o)
           t == Tail(ops)
<1>1. /\ ProgramTypeOK /\ ops # <<>> /\ flash' = g /\ ops' = t
      /\ UNCHANGED <<file, present, tool, pc, local, failures, kills, torn>>
  BY DEF ControlInv, Flash
<1>2. /\ flash \in FlashType /\ flash.pend = "" /\ address \in Nat /\ Block(address) \in Nat
      /\ flash.mode = "load" => flash.busy = "" /\ flash.left <= BUF
  BY BlockType DEF ControlInv, ProgramTypeOK, EraseOk
<1> DEFINE n == Len(ops)
           k == Len(t)
<1>3. /\ n \in Nat /\ k \in Nat /\ k = n - 1 /\ t \in Seq(Op)
      /\ pc = "fileExist" => t = <<>> /\ o = writeToFlash(1, Cmd("60"), Cmd("03"))
      /\ pc = "erase" => /\ n = 1 /\ t = <<>> /\ address - BlockSize \in Nat /\ address # 0
                         /\ o = writeToFlash(address - BlockSize, Cmd("60"), Cmd("01"))
      /\ pc = "erasePoll" => /\ Rest(t, EraseOps(address)) /\ n \in 1 .. 3
                             /\ n = 3 => o = writeToFlash(address, Cmd("60"), Cmd("D0"))
                             /\ n = 2 => o = writeToFlash(address, Cmd("50"), Cmd("50"))
                             /\ n = 1 => o = writeToFlash(address, Cmd("20"), Cmd("D0"))
  BY EraseNext
<1>4. /\ g \in FlashType /\ g.pend = ""
      /\ g.mode = "load" => g.busy = "" /\ flash.mode = "load" /\ Counts(flash.left, 2, g.left)
      /\ pc = "erase" /\ flash.busy = "" => g.busy = ""
  <2>1. CASE pc = "fileExist"
    <3>1. o = writeToFlash(1, Cmd("60"), Cmd("03"))
      BY <1>3, <2>1
    <3> DEFINE h == Transfer(flash, writeToFlash(1, Cmd("60"), Cmd("03")))
    <3>2. /\ h \in FlashType /\ h.pend = ""
          /\ h.mode = "load" => h.busy = "" /\ flash.mode = "load" /\ Counts(flash.left, 2, h.left)
      <4>1. flash.mode = "load" => flash.busy = ""
        BY <1>2
      <4>2. "60" \in {"60", "50", "20"} /\ "03" \in {"D0", "01", "03", "50"} /\ 1 \in Nat
        OBVIOUS
      <4> QED BY <1>2, <4>1, <4>2, TwoCycles, Zenon
    <3>3. g = h
      BY <3>1
    <3> HIDE DEF g, h
    <3> QED BY <2>1, <3>2, <3>3
  <2>2. CASE pc = "erase"
    <3> DEFINE a == address - BlockSize
    <3>1. a \in Nat /\ o = writeToFlash(a, Cmd("60"), Cmd("01"))
      BY <1>3, <2>2
    <3> HIDE DEF o, a
    <3> QED BY <1>2, <2>2, <3>1, TwoCycles, ZenonT(60)
  <2>3. CASE pc = "erasePoll"
    <3> DEFINE ok(h) == /\ h \in FlashType /\ h.pend = ""
                        /\ h.mode = "load" => h.busy = "" /\ flash.mode = "load" /\ Counts(flash.left, 2, h.left)
    <3>1. flash.mode = "load" => flash.busy = ""
      BY <1>2
    <3>2. ok(Transfer(flash, writeToFlash(address, Cmd("60"), Cmd("D0"))))
      <4>1. "60" \in {"60", "50", "20"} /\ "D0" \in {"D0", "01", "03", "50"}
        OBVIOUS
      <4> QED BY <1>2, <3>1, <4>1, TwoCycles, Zenon
    <3>3. ok(Transfer(flash, writeToFlash(address, Cmd("50"), Cmd("50"))))
      <4>1. "50" \in {"60", "50", "20"} /\ "50" \in {"D0", "01", "03", "50"}
        OBVIOUS
      <4> QED BY <1>2, <3>1, <4>1, TwoCycles, Zenon
    <3>4. ok(Transfer(flash, writeToFlash(address, Cmd("20"), Cmd("D0"))))
      <4>1. "20" \in {"60", "50", "20"} /\ "D0" \in {"D0", "01", "03", "50"}
        OBVIOUS
      <4> QED BY <1>2, <3>1, <4>1, TwoCycles, Zenon
    <3>5. n = 3 \/ n = 2 \/ n = 1
      BY <1>3, <2>3
    <3> HIDE DEF ok, n, o
    <3>6. ok(Transfer(flash, o))
      BY <1>3, <2>3, <3>2, <3>3, <3>4, <3>5
    <3> QED BY <2>3, <3>6 DEF ok
  <2> QED BY <2>1, <2>2, <2>3
<1>5. g.mode = "load" => g.left <= BUF
  BY <1>2, <1>4, CountsBound
<1>6. pc = "fileExist" /\ tool = "verify" /\ ~torn => Quiet(g)
  <2>1. SUFFICES ASSUME pc = "fileExist", tool = "verify", ~torn PROVE Quiet(g)
    OBVIOUS
  <2>2. Quiet(flash)
    BY <1>1, <2>1, QuietNow DEF ControlInv, Settled, AtRest
  <2>3. o = writeToFlash(1, Cmd("60"), Cmd("03"))
    BY <1>3, <2>1
  <2> HIDE DEF o
  <2> QED BY <2>2, <2>3, QuietLock
<1>7. \A m \in {0, 6} : g.mode = "load" /\ Within(flash.left, Block(address), m, n) =>
                           Within(g.left, Block(address), m, k)
  <2> HIDE DEF g, n, k
  <2> SUFFICES ASSUME NEW m \in {0, 6}, g.mode = "load", Within(flash.left, Block(address), m, n)
               PROVE  Within(g.left, Block(address), m, k)
    OBVIOUS
  <2>1. m \in Nat /\ n \in Nat /\ k \in Nat /\ k = n - 1 /\ Counts(flash.left, 2, g.left)
    <3>1. m \in Nat
      OBVIOUS
    <3> QED BY <1>3, <1>4, <3>1
  <2> QED BY <1>2, <2>1, WithinTake
<1>8. pc = "erase" /\ g.mode = "load" => Within(flash.left, Block(address), 0, n)
  BY <1>1, <1>4 DEF ControlInv, EraseOk
<1>9. pc = "erasePoll" /\ g.mode = "load" => Within(flash.left, Block(address), 6, n)
  BY <1>1, <1>4 DEF ControlInv, EraseOk
<1> HIDE DEF g, n, o
<1>10. ProgramTypeOK'
  BY <1>1, <1>3, <1>4 DEF ProgramTypeOK, local
<1>11. OpsOk'
  <2>1. UNCHANGED <<pc, tool, address>>
    BY <1>1 DEF local
  <2>2. CASE pc = "fileExist"
    <3>1. Rest(<<>>, <<writeToFlash(1, Cmd("60"), Cmd("03"))>>)
      BY StartType DEF Rest
    <3> QED BY <1>1, <1>3, <2>1, <2>2, <3>1 DEF OpsOk
  <2>3. CASE pc = "erase"
    BY <1>1, <1>3, <2>1, <2>3 DEF OpsOk, ControlInv
  <2>4. CASE pc = "erasePoll"
    BY <1>1, <1>3, <2>1, <2>4 DEF OpsOk, ControlInv
  <2> QED BY <2>2, <2>3, <2>4
<1>12. EraseOk'
  <2>1. UNCHANGED <<pc, tool, address>> /\ Len(ops') = k
    BY <1>1 DEF local
  <2> HIDE DEF k, t
  <2>2. /\ pc \in {"off", "fileExist"} => address = 0
        /\ pc \in {"erase", "erasePoll"} => address % BlockSize = 0
        /\ pc = "erase" => flash.busy = ""
    BY <1>3 DEF ControlInv, EraseOk
  <2> QED BY <1>1, <1>4, <1>5, <1>7, <1>8, <1>9, <2>1, <2>2 DEF EraseOk
<1>13. Settled'
  <2>1. AtRest' => pc = "fileExist" /\ tool = "verify" /\ ~torn
    BY <1>1 DEF AtRest
  <2> QED BY <1>1, <1>6, <2>1 DEF Settled, Waiting, Quiet
<1>14. ProgramOk' /\ ReaderInv'
  BY <1>1 DEF ProgramOk, ReaderInv, Reading
<1> QED BY <1>10, <1>11, <1>12, <1>13, <1>14 DEF ControlInv

(* the access that locks a block again, *)
LEMMA ControlFlashLock ==
    ASSUME ControlInv, Flash, pc \in {"write", "openVerify"}
    PROVE  ControlInv' /\ flash'.mem = flash.mem
<1> DEFINE a == bufAddr[0]
           g == Transfer(flash, Head(ops))
<1>1. /\ ProgramTypeOK /\ ops # <<>> /\ flash' = g /\ ops' = Tail(ops)
      /\ UNCHANGED <<file, present, tool, pc, local, failures, kills, torn>>
  BY DEF ControlInv, Flash
<1>2. a # UNSET /\ ops = LockOps(a)
  BY <1>1 DEF ControlInv, OpsOk
<1>3. CASE Waiting
  <2>1. tool = "verify" /\ torn /\ pc = "openVerify"
    BY <1>1, <1>3 DEF ControlInv, Settled, AtRest, OpsOk, ProgramTypeOK
  <2>2. ops = <<>>
    BY <2>1 DEF ControlInv, OpsOk
  <2> QED BY <1>1, <2>2
<1>4. CASE ~Waiting
  <2>1. Quiet(flash) /\ a \in Nat
    <3>1. 0 \in Slot /\ bufAddr \in [Slot -> Nat \cup {UNSET}]
      BY <1>1, FreshLocals DEF ProgramTypeOK
    <3>2. a \in Nat
      BY <1>2, <3>1
    <3> QED BY <1>1, <1>4, <3>2, QuietNow
  <2>2. Tail(ops) = <<>>
    BY <1>2, <2>1, LockType
  <2>3. Quiet(g) /\ Same(g, flash)
    BY <1>2, <2>1, LockAccess
  <2>4. ProgramTypeOK'
    <3>1. <<>> \in Seq(Op)
      OBVIOUS
    <3> QED BY <1>1, <2>2, <2>3, <3>1 DEF ProgramTypeOK, local, Quiet
  <2>5. OpsOk'
    BY <1>1, <2>2 DEF ControlInv, OpsOk, local
  <2>6. EraseOk'
    BY <1>1, <2>3 DEF EraseOk, Quiet
  <2>7. Settled' /\ ProgramOk' /\ ReaderInv'
    BY <1>1, <2>3 DEF ControlInv, Settled, Waiting, Quiet, ProgramOk, ReaderInv, Reading, local
  <2> QED BY <1>1, <2>3, <2>4, <2>5, <2>6, <2>7 DEF ControlInv, Same
<1> QED BY <1>3, <1>4


(* The next access of bufferedProgramCommand. *)
LEMMA ProgramAccess ==
    ASSUME ProgramTypeOK, BufferSet, Rest(ops, ProgramOps(bufAddr, bufData)), ops # <<>>
    PROVE  /\ bufAddr \in Addresses /\ bufAddr[0] \in Nat /\ bufData \in [Slot -> FlashWord]
           /\ Len(ops) \in 1 .. (BUF + 4) /\ Len(Tail(ops)) = Len(ops) - 1
           /\ Tail(ops) \in Seq(Op) /\ Rest(Tail(ops), ProgramOps(bufAddr, bufData))
           /\ Len(ops) = BUF + 4 => Head(ops) = writeToFlash(bufAddr[0], Cmd("60"), Cmd("D0"))
           /\ Len(ops) = BUF + 3 => Head(ops) = writeToFlash(bufAddr[0], Cmd("50"), Cmd("50"))
           /\ Len(ops) = BUF + 2 => Head(ops) = writeToFlash(bufAddr[0], Cmd("E8"), Size(BUF - 1))
           /\ \A i \in Slot : Len(ops) = BUF + 1 - i => Head(ops) = readFlash(bufAddr[i], Data(bufData[i]))
           /\ Len(ops) = 1 => Head(ops) = readFlash(bufAddr[0], Cmd("D0"))
<1> DEFINE s == ProgramOps(bufAddr, bufData)
           n == Len(ops)
           h == Head(ops)
<1>1. ops \in Seq(Op) /\ bufAddr \in Addresses /\ bufAddr[0] \in Nat /\ bufData \in [Slot -> FlashWord]
  BY AllSet DEF ProgramTypeOK, BufferSet
<1>2. s \in Seq(Op) /\ Len(s) = BUF + 4
  BY <1>1, ProgramType
<1>3. /\ Rest(Tail(ops), s) /\ Head(ops) = s[Len(s) - n + 1]
      /\ Tail(ops) \in Seq(Op) /\ n \in Nat \ {0} /\ Len(Tail(ops)) = n - 1
  BY <1>1, <1>2, RestNext
<1>4. n <= BUF + 4
  BY <1>2 DEF Rest
<1>5. h = s[(BUF + 4) - n + 1]
  BY <1>2, <1>3
<1>6. /\ n = BUF + 4 => h = s[1]
      /\ n = BUF + 3 => h = s[2]
      /\ n = BUF + 2 => h = s[3]
      /\ n = 1 => h = s[BUF + 4]
      /\ \A i \in Slot : n = BUF + 1 - i => h = s[i + 4]
  <2> HIDE DEF n, s, h
  <2>1. /\ n = BUF + 4 => (BUF + 4) - n + 1 = 1
        /\ n = BUF + 3 => (BUF + 4) - n + 1 = 2
        /\ n = BUF + 2 => (BUF + 4) - n + 1 = 3
        /\ n = 1 => (BUF + 4) - n + 1 = BUF + 4
    BY PromAssumption
  <2>2. \A i \in Slot : n = BUF + 1 - i => (BUF + 4) - n + 1 = i + 4
    BY PromAssumption DEF Slot
  <2> QED BY <1>5, <2>1, <2>2
<1>7. n \in 1 .. (BUF + 4)
  <2> HIDE DEF n
  <2> QED BY <1>3, <1>4, PromAssumption
<1>8. /\ s[1] = writeToFlash(bufAddr[0], Cmd("60"), Cmd("D0"))
      /\ s[2] = writeToFlash(bufAddr[0], Cmd("50"), Cmd("50"))
      /\ s[3] = writeToFlash(bufAddr[0], Cmd("E8"), Size(BUF - 1))
      /\ \A i \in Slot : s[i + 4] = readFlash(bufAddr[i], Data(bufData[i]))
      /\ s[BUF + 4] = readFlash(bufAddr[0], Cmd("D0"))
  BY <1>1, ProgramType
<1>9. /\ n = BUF + 4 => h = writeToFlash(bufAddr[0], Cmd("60"), Cmd("D0"))
      /\ n = BUF + 3 => h = writeToFlash(bufAddr[0], Cmd("50"), Cmd("50"))
      /\ n = BUF + 2 => h = writeToFlash(bufAddr[0], Cmd("E8"), Size(BUF - 1))
      /\ n = 1 => h = readFlash(bufAddr[0], Cmd("D0"))
      /\ \A i \in Slot : n = BUF + 1 - i => h = readFlash(bufAddr[i], Data(bufData[i]))
  <2> HIDE DEF n, s, h
  <2> QED BY <1>6, <1>8, Zenon
<1> QED BY <1>1, <1>3, <1>7, <1>9

(* A flash that takes the words of the buffer. *)
LEMMA LoadAccess ==
    ASSUME ControlInv, pc \in {"programPoll", "lastPoll"}, Len(ops) \in 1 .. (BUF + 1), NEW i, i = BUF + 1 - Len(ops),
           NEW g, g = Transfer(flash, Head(ops)), ops # <<>>
    PROVE  /\ i \in Slot => /\ g \in FlashType /\ g.pend = "" /\ g.mode = "load" /\ g.busy = ""
                            /\ g.left = Len(ops) - 2
                            /\ g.err = {} /\ Block(bufAddr[0]) \in g.unlocked
                            /\ g.slots = Loaded(bufAddr, bufData, i + 1)
           /\ i = BUF => /\ g \in FlashType /\ g.pend = "" /\ g.mode = "status" /\ g.busy = "program"
                         /\ g.at = bufAddr[0] /\ g.slots = Loaded(bufAddr, bufData, BUF)
           /\ g.mem = flash.mem
<1> DEFINE n == Len(ops)
<1>1. /\ ProgramTypeOK /\ BufferSet /\ Rest(ops, ProgramOps(bufAddr, bufData))
      /\ flash.mode = "load" /\ flash.left = n - 1 /\ flash.slots = Loaded(bufAddr, bufData, BUF + 1 - n)
      /\ flash.busy = ""
  BY DEF ControlInv, OpsOk, ProgramOk, EraseOk
<1>2. n \in 1 .. (BUF + 3) /\ n \in 1 .. (BUF + 2)
  BY PromAssumption
<1>3. Block(bufAddr[0]) \in flash.unlocked /\ flash.err = {}
  BY <1>2 DEF ControlInv, ProgramOk
<1>4. /\ bufAddr \in Addresses /\ bufAddr[0] \in Nat /\ bufData \in [Slot -> FlashWord]
      /\ \A j \in Slot : n = BUF + 1 - j => Head(ops) = readFlash(bufAddr[j], Data(bufData[j]))
      /\ n = 1 => Head(ops) = readFlash(bufAddr[0], Cmd("D0"))
  BY <1>1, ProgramAccess
<1>5. flash \in FlashType /\ flash.pend = ""
  BY <1>1 DEF ProgramTypeOK
<1>6. CASE i \in Slot
  <2>1. n = BUF + 1 - i /\ i + 1 \in Nat /\ i # BUF /\ n - 1 # 0
    <3> HIDE DEF n
    <3>1. i = BUF + 1 - n /\ n \in 1 .. (BUF + 1)
      BY DEF n
    <3> QED BY <1>6, <3>1, PromAssumption DEF Slot
  <2> DEFINE a == bufAddr[i]
             x == Data(bufData[i])
             e == Cycle(flash, a, x)
  <2>2. a \in Nat /\ x \in Bus /\ x.word = bufData[i] /\ x.cmd = ""
    <3>1. a \in Nat /\ bufData[i] \in FlashWord
      BY <1>4, <1>6 DEF Addresses
    <3> QED BY <3>1, BusType
  <2>3. g = e
    <3>1. Head(ops) = readFlash(a, x)
      BY <1>4, <1>6, <2>1
    <3> QED BY <3>1, OneCycleIs
  <2>4. e \in FlashType /\ e.mem = flash.mem
    <3>1. flash.mode = "load" => flash.busy = ""
      BY <1>1
    <3> HIDE DEF a, x
    <3> QED BY <1>5, <2>2, <3>1, CycleType
  <2>5. flash.left # 0
    BY <1>1, <2>1
  <2>6. /\ e.pend = flash.pend /\ e.mode = "load" /\ e.busy = "" /\ Counts(flash.left, 1, e.left)
        /\ e.err = flash.err /\ e.unlocked = flash.unlocked
        /\ e.slots = Stored(flash.slots, a, x.word)
    <3> HIDE DEF a, x
    <3> QED BY <1>1, <1>5, <2>2, <2>5, CycleFill
  <2>7. e.left = n - 2
    <3> DEFINE k == e.left
    <3>1. Counts(n - 1, 1, k)
      <4> HIDE DEF e, n
      <4> QED BY <1>1, <2>6
    <3> HIDE DEF k, n
    <3>0. n \in Nat
      BY <1>2
    <3>2. k = n - 2
      BY <3>0, <3>1 DEF Counts
    <3> QED BY <3>2 DEF k
  <2>8. e.slots = Loaded(bufAddr, bufData, i + 1)
    <3>1. Loaded(bufAddr, bufData, i + 1) = Stored(Loaded(bufAddr, bufData, i), bufAddr[i], bufData[i])
      BY <1>4, <1>6, LoadedNext
    <3>2. flash.slots = Loaded(bufAddr, bufData, i)
      BY <1>1
    <3> HIDE DEF e, n
    <3> QED BY <2>2, <2>6, <3>1, <3>2
  <2> HIDE DEF e
  <2> QED BY <1>3, <1>5, <1>6, <2>1, <2>3, <2>4, <2>6, <2>7, <2>8
<1>7. CASE i \notin Slot
  <2>1. n = 1 /\ i = BUF /\ BUF + 1 - n = BUF
    <3> HIDE DEF n
    <3>1. i = BUF + 1 - n /\ n \in 1 .. (BUF + 1)
      BY DEF n
    <3> QED BY <1>7, <3>1, PromAssumption DEF Slot
  <2> DEFINE a == bufAddr[0]
             x == Cmd("D0")
             e == Cycle(flash, a, x)
  <2>2. a \in Nat /\ x \in Bus /\ x.cmd = "D0"
    BY <1>4, BusType DEF Commands
  <2>3. g = e
    <3>1. Head(ops) = readFlash(a, x)
      BY <1>4, <2>1
    <3> QED BY <3>1, OneCycleIs
  <2>4. e \in FlashType /\ e.mem = flash.mem
    <3>1. flash.mode = "load" => flash.busy = ""
      BY <1>1
    <3> HIDE DEF a, x
    <3> QED BY <1>5, <2>2, <3>1, CycleType
  <2>5. flash.left = 0
    <3>1. n - 1 = 0
      BY <2>1
    <3> HIDE DEF n
    <3> QED BY <1>1, <3>1, Zenon
  <2>6. /\ e.pend = flash.pend /\ e.mode = "status" /\ e.busy = "program" /\ e.at = a
        /\ e.slots = flash.slots
    <3> HIDE DEF a, x
    <3>1. Block(a) \in flash.unlocked
      BY <1>3 DEF a
    <3> QED BY <1>1, <1>5, <2>2, <2>5, <3>1, CycleFill
  <2>7. flash.slots = Loaded(bufAddr, bufData, BUF)
    BY <1>1, <2>1
  <2> HIDE DEF e, n
  <2> QED BY <1>5, <1>7, <2>1, <2>3, <2>4, <2>6, <2>7
<1> QED BY <1>6, <1>7

(* an access that programs a buffer, *)
LEMMA ControlFlashProgram ==
    ASSUME ControlInv, Flash, pc \in {"programPoll", "lastPoll"}
    PROVE  ControlInv' /\ flash'.mem = flash.mem
<1> DEFINE o == Head(ops)
           g == Transfer(flash, o)
           t == Tail(ops)
           n == Len(ops)
           k == Len(t)
           b == Block(bufAddr[0])
<1>1. /\ ProgramTypeOK /\ ops # <<>> /\ flash' = g /\ ops' = t /\ BufferSet
      /\ UNCHANGED <<file, present, tool, pc, local, failures, kills, torn>>
      /\ Rest(ops, ProgramOps(bufAddr, bufData)) /\ tool = "load"
  BY DEF ControlInv, Flash, OpsOk
<1>2. /\ bufAddr \in Addresses /\ bufAddr[0] \in Nat /\ bufData \in [Slot -> FlashWord]
      /\ n \in 1 .. (BUF + 4) /\ k = n - 1
      /\ t \in Seq(Op) /\ Rest(t, ProgramOps(bufAddr, bufData))
      /\ n = BUF + 4 => o = writeToFlash(bufAddr[0], Cmd("60"), Cmd("D0"))
      /\ n = BUF + 3 => o = writeToFlash(bufAddr[0], Cmd("50"), Cmd("50"))
      /\ n = BUF + 2 => o = writeToFlash(bufAddr[0], Cmd("E8"), Size(BUF - 1))
  BY <1>1, ProgramAccess
<1>3. /\ n >= BUF + 2 => Quiet(flash)
      /\ n \in 1 .. (BUF + 3) => b \in flash.unlocked
      /\ n \in 1 .. (BUF + 2) => flash.err = {}
  BY <1>1, QuietNow DEF ControlInv, ProgramOk
<1>0. UNCHANGED <<pc, bufAddr, bufData, bufSize, reader, file, address, tool, torn>>
  BY <1>1 DEF local
<1> HIDE DEF o, t, b
<1>4. SUFFICES /\ g \in FlashType /\ g.pend = "" /\ g.mem = flash.mem
               /\ g.mode = "load" => g.busy = "" /\ g.left <= BUF
               /\ k >= BUF + 2 => g.mode # "load" /\ g.busy = ""
               /\ k \in 1 .. (BUF + 3) => b \in g.unlocked
               /\ k \in 1 .. (BUF + 2) => g.err = {}
               /\ k \in 1 .. (BUF + 1) => /\ g.mode = "load" /\ g.left = k - 1
                                          /\ g.slots = Loaded(bufAddr, bufData, BUF + 1 - k)
               /\ k = 0 => /\ g.mode # "load"
                           /\ g.busy # "" => g.busy = "program" /\ g.at = bufAddr[0]
                                             /\ g.slots = Loaded(bufAddr, bufData, BUF)
  <2> HIDE DEF g, n, k
  <2>1. ProgramTypeOK'
    BY <1>1, <1>2, <1>4 DEF ProgramTypeOK, local
  <2>2. OpsOk'
    <3>1. BufferSet' /\ Rest(ops', ProgramOps(bufAddr', bufData'))
      BY <1>0, <1>1, <1>2 DEF BufferSet
    <3> QED BY <1>0, <1>1, <3>1 DEF OpsOk
  <2>3. EraseOk'
    BY <1>0, <1>1, <1>4 DEF EraseOk
  <2>4. Settled' /\ ReaderInv'
    BY <1>0, <1>1 DEF ControlInv, Settled, AtRest, ReaderInv, Reading
  <2>5. ProgramOk'
    <3>1. Len(ops') = k /\ (ops' = <<>> => k = 0)
      <4>1. Len(<<>>) = 0
        OBVIOUS
      <4> QED BY <1>1, <4>1, Zenon DEF k
    <3>2. k >= BUF + 2 => ~Waiting'
      BY <1>1, <1>4 DEF Waiting
    <3> QED BY <1>0, <1>1, <1>4, <3>1, <3>2 DEF ProgramOk, b
  <2> QED BY <1>1, <1>4, <2>1, <2>2, <2>3, <2>4, <2>5 DEF ControlInv
<1>5. CASE n = BUF + 4
  <2>1. Quiet(g) /\ Same(g, flash) /\ b \in g.unlocked
    <3>1. Quiet(flash)
      <4>1. n >= BUF + 2
        <5> HIDE DEF n
        <5> QED BY <1>5, PromAssumption
      <4> QED BY <1>3, <4>1
    <3>2. o = writeToFlash(bufAddr[0], Cmd("60"), Cmd("D0"))
      BY <1>2, <1>5
    <3> QED BY <1>2, <3>1, <3>2, QuietLock DEF b
  <2>2. k = BUF + 3 /\ k \notin 1 .. (BUF + 2) /\ k \notin 1 .. (BUF + 1) /\ k # 0
    <3> HIDE DEF n, k
    <3> QED BY <1>2, <1>5, PromAssumption
  <2> HIDE DEF g
  <2> QED BY <2>1, <2>2 DEF Quiet, Same
<1>6. CASE n = BUF + 3
  <2>0. n >= BUF + 2 /\ n \in 1 .. (BUF + 3)
    <3> HIDE DEF n
    <3> QED BY <1>6, PromAssumption
  <2>1. Quiet(g) /\ Same(g, flash) /\ b \in g.unlocked /\ g.err = {}
    <3>1. o = writeToFlash(bufAddr[0], Cmd("50"), Cmd("50"))
      BY <1>2, <1>6
    <3>2. Quiet(flash) /\ b \in flash.unlocked
      BY <1>3, <2>0
    <3> QED BY <1>2, <3>1, <3>2, QuietClear
  <2>2. k = BUF + 2 /\ k \notin 1 .. (BUF + 1) /\ k # 0
    <3> HIDE DEF n, k
    <3> QED BY <1>2, <1>6, PromAssumption
  <2> HIDE DEF g
  <2> QED BY <2>1, <2>2 DEF Quiet, Same
<1>7. CASE n = BUF + 2
  <2>0. n >= BUF + 2 /\ n \in 1 .. (BUF + 3) /\ n \in 1 .. (BUF + 2)
    <3> HIDE DEF n
    <3> QED BY <1>7, PromAssumption
  <2>1. /\ g \in FlashType /\ g.pend = "" /\ g.mode = "load" /\ g.busy = "" /\ g.left = BUF
        /\ g.mem = flash.mem /\ g.slots = [s \in Slot |-> Ones] /\ b \in g.unlocked /\ g.err = {}
    <3>1. o = writeToFlash(bufAddr[0], Cmd("E8"), Size(BUF - 1))
      BY <1>2, <1>7
    <3>2. Quiet(flash) /\ b \in flash.unlocked /\ flash.err = {}
      BY <1>3, <2>0
    <3> QED BY <1>2, <3>1, <3>2, QuietBuffer
  <2>2. /\ k = BUF + 1 /\ ~(k >= BUF + 2) /\ k # 0 /\ k - 1 = BUF /\ BUF + 1 - k = 0 /\ BUF <= BUF
    <3> HIDE DEF n, k
    <3> QED BY <1>2, <1>7, PromAssumption
  <2>3. g.slots = Loaded(bufAddr, bufData, BUF + 1 - k)
    <3> HIDE DEF g, k
    <3> QED BY <2>1, <2>2, LoadedNone, ZenonT(60)
  <2> HIDE DEF g, k
  <2> QED BY <2>1, <2>2, <2>3
<1>8. CASE n \in 1 .. (BUF + 1)
  <2> DEFINE i == BUF + 1 - n
  <2>1. /\ i \in Slot => /\ g \in FlashType /\ g.pend = "" /\ g.mode = "load" /\ g.busy = ""
                         /\ g.left = n - 2 /\ g.err = {} /\ b \in g.unlocked
                         /\ g.slots = Loaded(bufAddr, bufData, i + 1)
        /\ i = BUF => /\ g \in FlashType /\ g.pend = "" /\ g.mode = "status" /\ g.busy = "program"
                      /\ g.at = bufAddr[0] /\ g.slots = Loaded(bufAddr, bufData, BUF)
        /\ g.mem = flash.mem
    BY <1>1, <1>8, LoadAccess DEF b, o
  <2>2. /\ ~(k >= BUF + 2) /\ (i \in Slot \/ i = BUF)
        /\ i \in Slot => k # 0 /\ n - 2 <= BUF /\ n - 2 = k - 1 /\ i + 1 = BUF + 1 - k
        /\ i = BUF => k = 0
    <3> HIDE DEF n, k
    <3> QED BY <1>2, <1>8, PromAssumption DEF Slot
  <2>3. k = 0 => k \notin 1 .. (BUF + 1) /\ k \notin 1 .. (BUF + 2) /\ k \notin 1 .. (BUF + 3)
    OBVIOUS
  <2> HIDE DEF g, k, n, i
  <2>4. CASE i \in Slot
    BY <2>1, <2>2, <2>4
  <2>5. CASE i = BUF
    BY <2>1, <2>2, <2>3, <2>5
  <2> QED BY <2>2, <2>4, <2>5
<1>9. n = BUF + 4 \/ n = BUF + 3 \/ n = BUF + 2 \/ n \in 1 .. (BUF + 1)
  <2> HIDE DEF n
  <2> QED BY <1>2, PromAssumption
<1> QED BY <1>5, <1>6, <1>7, <1>8, <1>9

(* Every step. *)
LEMMA ControlFlash ==
    ASSUME ControlInv, Flash
    PROVE  ControlInv'
<1>1. pc \in {"fileExist", "erase", "erasePoll", "write", "openVerify", "programPoll", "lastPoll"}
  BY DEF ControlInv, OpsOk, Flash, Running
<1> QED BY <1>1, ControlFlashErase, ControlFlashLock, ControlFlashProgram

(* a step of somebody else, *)
LEMMA ControlStutter ==
    ASSUME ControlInv, UNCHANGED vars
    PROVE  ControlInv'
<1>1. /\ UNCHANGED <<flash, file, present, tool, pc, ops, failures, kills, torn>>
      /\ UNCHANGED <<address, reader, byte, toggle, fileData, bufAddr, bufData, bufSize>>
  BY DEF vars, local
<1>2. ProgramTypeOK' /\ ReaderInv'
  BY <1>1 DEF ControlInv, ProgramTypeOK, ReaderInv, Reading
<1>3. OpsOk'
  BY <1>1 DEF ControlInv, OpsOk, BufferSet
<1>4. EraseOk' /\ Settled'
  BY <1>1 DEF ControlInv, EraseOk, Settled, AtRest, Waiting
<1>5. ProgramOk'
  BY <1>1 DEF ControlInv, ProgramOk, Waiting
<1> QED BY <1>2, <1>3, <1>4, <1>5 DEF ControlInv

(* and so every step. *)
LEMMA ControlStep ==
    ASSUME ControlInv, [Next]_vars
    PROVE  ControlInv'
<1>1. CASE Program
  BY <1>1, ControlStart, ControlOpenFile, ControlFlash, ControlErase, ControlEraseCommand, ControlStop,
     ControlWriteWord, ControlWriteRest, ControlProgramCommand, ControlVerifyWord DEF Program
<1>2. CASE FlashFinish
  BY <1>2, ControlFinish
<1>3. CASE Kill \/ Again
  BY <1>3, ControlExit
<1>4. CASE UNCHANGED vars
  BY <1>4, ControlStutter
<1> QED BY <1>1, <1>2, <1>3, <1>4 DEF Next

(* xPromLoad and xPromVerify never lose track of the flash: whatever was   *)
(* killed before, the erase pass begins with a flash whose state is known  *)
(* to be harmless, a buffer is loaded only into a flash that asked for it, *)
(* and the flash is at rest whenever the program reads it. This is the     *)
(* control part of all the invariants below.                               *)
THEOREM ControlSafe == Spec => []ControlInv
<1>1. Init => ControlInv
  BY ControlInit
<1>2. ControlInv /\ [Next]_vars => ControlInv'
  BY ControlStep
<1> QED BY <1>1, <1>2, PTL DEF Spec

-----------------------------------------------------------------------------
(* The loops over the file keep count of the bytes. *)
LEMMA CountPair ==
    ASSUME NEW a \in Nat, NEW g \in Nat, NEW h \in Nat
    PROVE  /\ h = g + 1 /\ g = 2 * a + 1 => h = 2 * (a + 1) + 0 /\ h > 0 /\ g = 2 * a + 1 /\ h = 2 * a + 2
           /\ h = g + 1 /\ g = 2 * a + 0 => h = 2 * a + 1 /\ h > 0
           /\ h = g /\ g = 2 * a + 1 => 2 * (a + 1) >= h /\ 2 * (a + 1) <= h + 1
           /\ h = g /\ g = 2 * a + 0 => 2 * a >= h /\ 2 * a <= h + 1
OBVIOUS

(* A byte that is read keeps the count. *)
LEMMA PassPair ==
    ASSUME ControlInv, Pass, Reading, ~reader.endOfFile, file' = file,
           read(file, reader).status >= 0, Pair(read(file, reader)),
           address' = IF toggle THEN address + 1 ELSE address
    PROVE  Pass'
<1> DEFINE x == read(file, reader)
           q == x.reader
           g == Given(file, reader)
           h == Given(file, q)
           p == Prefix(file, q.line)
<1>1. /\ file \in DOMAIN Files /\ ReaderOk(file, reader) /\ address \in Nat /\ toggle \in BOOLEAN
  BY DEF ControlInv, ProgramTypeOK, ReaderInv
<1>2. reader' = q /\ x.status \notin {FAIL, ABORT}
  BY DEF Pair, FAIL, ABORT
<1>3. \/ /\ ReaderOk(file, q) /\ ~q.endOfFile /\ h = g + 1 /\ x.byte = <<p[h]>>
         /\ Extends(Prefix(file, reader.line), p) /\ h <= Len(p)
      \/ ReaderOk(file, q) /\ q.endOfFile /\ h = g
  BY <1>1, <1>2, ReadStep DEF Advanced
<1>4. g \in Nat /\ h \in Nat
  BY <1>1, <1>3, GivenRange
<1>5. g = 2 * address + (IF toggle THEN 1 ELSE 0)
  BY DEF Pass
<1>6. /\ toggle' = ~toggle /\ fileData' = IF toggle THEN fileData ELSE byte'
      /\ byte' = IF x.byte = <<>> THEN byte ELSE x.byte[1]
  BY DEF Pair
<1> HIDE DEF x, q, g, h, p
<1>7. CASE ~q.endOfFile
  <2>1. byte' = p[h] /\ h = g + 1
    <3>1. x.byte = <<p[h]>> /\ h = g + 1
      BY <1>3, <1>7
    <3>2. <<p[h]>> # <<>> /\ <<p[h]>>[1] = p[h]
      OBVIOUS
    <3> QED BY <1>6, <3>1, <3>2
  <2>2. h = 2 * address' + (IF toggle' THEN 1 ELSE 0)
    BY <1>1, <1>4, <1>5, <1>6, <2>1, CountPair, ZenonT(60)
  <2>3. toggle' => fileData' = p[h]
    BY <1>6, <2>1
  <2>4. ~reader'.endOfFile /\ Given(file', reader') = h /\ Prefix(file', reader'.line) = p
    BY <1>2, <1>7 DEF h, p
  <2> QED BY <2>1, <2>2, <2>3, <2>4 DEF Pass
<1>8. CASE q.endOfFile
  <2>1. 2 * address' >= h /\ 2 * address' <= h + 1
    BY <1>1, <1>3, <1>4, <1>5, <1>8, CountPair
  <2>2. reader'.endOfFile /\ Given(file', reader') = h
    BY <1>2, <1>8 DEF h
  <2> QED BY <2>1, <2>2 DEF Pass
<1> QED BY <1>7, <1>8

(* A step of any other kind leaves the reader alone. *)
LEMMA PassKept ==
    ASSUME Pass, UNCHANGED <<file, reader, address, byte, toggle, fileData>>, Reading' => Reading
    PROVE  Pass'
BY DEF Pass

(* A pass begins with nothing read. *)
LEMMA PassOpen ==
    ASSUME ControlInv, OpenFile
    PROVE  Pass'
<1>1. CASE Reading'
  <2>1. pc' \in {"write", "verify"} /\ file' = file /\ file \in DOMAIN Files
    BY <1>1 DEF OpenFile, Reading, ControlInv, ProgramTypeOK
  <2>2. address' = 0 /\ reader' = open /\ toggle' = FALSE
    <3>1. pc' = "verify" => pc # "fileExist"
      BY DEF OpenFile
    <3> QED BY <2>1, <3>1 DEF OpenFile
  <2>3. ~reader'.endOfFile /\ Given(file', reader') = 0
    BY <2>1, <2>2, OpenReader
  <2> QED BY <2>2, <2>3 DEF Pass
<1> QED BY <1>1 DEF Pass

(* Only the readers touch the variables of the pass. *)
LEMMA OtherSteps ==
    ASSUME ControlInv, [Next]_vars
    PROVE  \/ OpenFile
           \/ writeWord
           \/ verifyWord
           \/ UNCHANGED <<file, reader, address, byte, toggle, fileData>> /\ (Reading' => Reading)
           \/ ~Reading'
<1>1. CASE Start
  BY <1>1 DEF Start, Reading
<1>2. CASE OpenFile \/ writeWord \/ verifyWord
  BY <1>2
<1>3. CASE Flash \/ FlashFinish
  BY <1>3 DEF Flash, FlashFinish, local, Reading
<1>4. CASE eraseBootProm
  BY <1>4 DEF eraseBootProm, Reading
<1>5. CASE eraseCommand
  BY <1>5 DEF eraseCommand, Poll, Reading
<1>6. CASE writeError \/ verifyStop
  BY <1>6 DEF writeError, verifyStop, Stop, Reading
<1>7. CASE writeRest
  BY <1>7 DEF writeRest, Reading
<1>8. CASE bufferedProgramCommand
  BY <1>8 DEF bufferedProgramCommand, Poll, local, Reading
<1>9. CASE Kill \/ Again
  BY <1>9 DEF Kill, Again, Exit, Reading
<1>10. CASE UNCHANGED vars
  BY <1>10 DEF vars, local, Reading
<1> QED BY <1>1, <1>2, <1>3, <1>4, <1>5, <1>6, <1>7, <1>8, <1>9, <1>10 DEF Next, Program

(* Every step keeps what a pass knows of its file. *)
LEMMA PassStep ==
    ASSUME ControlInv, Pass, [Next]_vars
    PROVE  Pass'
<1>1. CASE writeWord
  <2>1. /\ Reading /\ ~reader.endOfFile /\ file' = file
        /\ read(file, reader).status >= 0 /\ Pair(read(file, reader))
        /\ address' = IF toggle THEN address + 1 ELSE address
    BY <1>1 DEF writeWord, Reading
  <2> QED BY <2>1, PassPair
<1>2. CASE verifyWord
  <2>1. /\ Reading /\ ~reader.endOfFile /\ file' = file
        /\ read(file, reader).status >= 0 /\ Pair(read(file, reader))
        /\ address' = IF toggle THEN address + 1 ELSE address
    BY <1>2 DEF verifyWord, Reading
  <2> QED BY <2>1, PassPair
<1>3. CASE ~Reading'
  BY <1>3 DEF Pass
<1> QED BY <1>1, <1>2, <1>3, OtherSteps, PassOpen, PassKept

-----------------------------------------------------------------------------
(* The verify pass compares the flash with the image, word by word. *)
LEMMA BeforeWord ==
    ASSUME NEW a \in Nat, NEW j \in 0 .. (a - 1), NEW n \in Nat, 2 * a <= n
    PROVE  2 * j + 1 \in 1 .. n /\ 2 * j + 2 \in 1 .. n
OBVIOUS

(* A word that agrees with the image still does when the image grows. *)
LEMMA WordKept ==
    ASSUME NEW m, NEW p \in Seq(Bit), NEW q \in Seq(Bit), Extends(p, q), NEW a \in Nat, 2 * a <= Len(p),
           NEW j \in 0 .. (a - 1), WordIs(m, p, j)
    PROVE  WordIs(m, q, j)
<1>1. 2 * j + 1 \in 1 .. Len(p) /\ 2 * j + 2 \in 1 .. Len(p)
  <2>1. Len(p) \in Nat
    OBVIOUS
  <2> QED BY <2>1, BeforeWord
<1>2. q[2 * j + 1] = p[2 * j + 1] /\ q[2 * j + 2] = p[2 * j + 2]
  BY <1>1 DEF Extends
<1>3. 2 * j + 1 <= Len(p) /\ 2 * j + 2 <= Len(p)
  BY <1>1
<1> QED BY <1>2, <1>3 DEF WordIs

(* A word that was compared agrees with the image. *)
LEMMA ComparedWord ==
    ASSUME ImageInv, verifyWord
    PROVE  Compared'
<1> DEFINE x == read(file, reader)
           q == x.reader
           g == Given(file, reader)
           h == Given(file, q)
           p == Prefix(file, reader.line)
           r == Prefix(file, q.line)
           e == Cycle(flash, address, Cmd("FF"))
           m == flash.mem
<1>1. /\ ControlInv /\ Pass /\ Compared /\ ProgramTypeOK /\ pc = "verify" /\ ~reader.endOfFile /\ Reading
      /\ x.status >= 0 /\ Pair(x) /\ flash' = IF toggle THEN e ELSE flash
      /\ address' = IF toggle THEN address + 1 ELSE address
      /\ pc' = IF toggle /\ Differs(ReadWord(e, address), FullWord(x)) THEN "exit1" ELSE pc
      /\ UNCHANGED <<ops, file, present, tool, torn>>
  BY DEF ImageInv, ControlInv, verifyWord, Reading
<1>2. LoadedImage'
  BY <1>1 DEF LoadedImage
<1>3. SUFFICES ASSUME pc' = "verify", Reliable
               PROVE  \A j \in 0 .. (address' - 1) : WordIs(flash'.mem, r, j)
  BY <1>1, <1>2 DEF Compared, Reliable, Pair
<1>4. /\ file \in DOMAIN Files /\ ReaderOk(file, reader) /\ address \in Nat /\ toggle \in BOOLEAN
      /\ flash \in FlashType
  BY <1>1 DEF ControlInv, ProgramTypeOK, ReaderInv
<1>5. Quiet(flash)
  BY <1>1, <1>3, QuietNow DEF ControlInv, Settled, AtRest, Reliable, ProgramTypeOK
<1>6. Quiet(e) /\ Same(e, flash) /\ ReadWord(e, address) = m[address]
  BY <1>4, <1>5, ArrayCycle
<1>7. flash'.mem = m
  BY <1>1, <1>6 DEF Same
<1>8. x.status \notin {FAIL, ABORT}
  BY <1>1 DEF FAIL, ABORT
<1>9. \/ /\ ReaderOk(file, q) /\ h = g + 1 /\ h <= Len(r) /\ x.byte = <<r[h]>> /\ Extends(p, r)
      \/ /\ ReaderOk(file, q) /\ h = g /\ r = p /\ h = Len(r) /\ x.byte = <<>>
  BY <1>1, <1>4, <1>8, ReadStep DEF Advanced
<1>10. /\ g \in Nat /\ h \in Nat /\ p \in Seq(Bit) /\ r \in Seq(Bit) /\ Len(p) \in Nat /\ Len(r) \in Nat
       /\ g <= Len(p)
  BY <1>4, <1>9, GivenRange
<1>11. /\ g = 2 * address + (IF toggle THEN 1 ELSE 0)
       /\ toggle => fileData = p[g]
       /\ \A j \in 0 .. (address - 1) : WordIs(m, p, j)
  BY <1>1, <1>3 DEF Pass, Compared
<1>12. toggle => m[address] = FullWord(x)
  BY <1>1, <1>3, <1>6 DEF Differs
<1>13. FullWord(x) = <<fileData, IF x.byte = <<>> THEN byte ELSE x.byte[1]>>
  BY DEF FullWord
<1> HIDE DEF x, q, g, h, p, r, e, m
<1>14. 2 * address <= Len(p)
  BY <1>4, <1>10, <1>11
<1>15. \A j \in 0 .. (address - 1) : WordIs(m, r, j)
  <2>1. CASE Extends(p, r)
    BY <1>4, <1>10, <1>11, <1>14, <2>1, WordKept
  <2>2. CASE r = p
    BY <1>11, <2>2
  <2> QED BY <1>9, <2>1, <2>2
<1>16. toggle => WordIs(m, r, address)
  <2> SUFFICES ASSUME toggle PROVE WordIs(m, r, address)
    OBVIOUS
  <2>1. g = 2 * address + 1 /\ g >= 1
    BY <1>4, <1>11
  <2>2. m[address][1] = p[g]
    BY <1>11, <1>12, <1>13
  <2>3. CASE h = g + 1 /\ h <= Len(r) /\ x.byte = <<r[h]>> /\ Extends(p, r)
    <3>1. m[address][2] = r[h]
      <4>1. <<r[h]>> # <<>> /\ <<r[h]>>[1] = r[h]
        OBVIOUS
      <4> QED BY <1>12, <1>13, <2>3, <4>1
    <3>2. r[g] = p[g]
      <4>1. g \in 1 .. Len(p)
        BY <1>10, <2>1
      <4> QED BY <2>3, <4>1 DEF Extends
    <3>3. h = 2 * address + 2
      BY <1>4, <2>1, <2>3
    <3> QED BY <2>1, <2>2, <3>1, <3>2, <3>3 DEF WordIs
  <2>4. CASE h = g /\ r = p /\ h = Len(r)
    <3>1. ~(2 * address + 2 <= Len(r))
      BY <1>4, <2>1, <2>4
    <3> QED BY <2>1, <2>2, <2>4, <3>1 DEF WordIs
  <2> QED BY <1>9, <2>3, <2>4
<1>17. CASE toggle
  <2>1. \A j \in 0 .. (address' - 1) : j \in 0 .. (address - 1) \/ j = address
    BY <1>1, <1>4, <1>17
  <2> QED BY <1>7, <1>15, <1>16, <1>17, <2>1
<1>18. CASE ~toggle
  <2>1. address' = address
    BY <1>1, <1>18
  <2> QED BY <1>7, <1>15, <2>1
<1> QED BY <1>17, <1>18

(* The pass ends at the end-of-file record. *)
LEMMA ByteWord ==
    ASSUME NEW k \in Nat \ {0}, NEW a \in Nat, k <= 2 * a
    PROVE  LET j == (k - 1) \div 2
           IN  /\ j \in 0 .. (a - 1)
               /\ k % 2 = 1 => 2 - (k % 2) = 1 /\ k = 2 * j + 1
               /\ k % 2 # 1 => 2 - (k % 2) = 2 /\ k = 2 * j + 2
OBVIOUS

(* At the end of the file every byte of the image has been compared. *)
LEMMA ComparedEnd ==
    ASSUME ImageInv, verifyStop
    PROVE  Compared'
<1> DEFINE n == reader.line
           p == Prefix(file, n)
           m == flash.mem
<1>1. /\ ControlInv /\ Pass /\ Compared /\ ProgramTypeOK /\ pc = "verify" /\ pc' # "verify"
      /\ pc' = "exit0" => reader.endOfFile
      /\ UNCHANGED <<flash, file, present, tool, torn>>
  BY DEF ImageInv, ControlInv, verifyStop, Stop
<1>2. SUFFICES ASSUME pc' = "exit0", Reliable
               PROVE  /\ IsGood[file]
                      /\ \A k \in 1 .. Len(ImageBytes[file]) : m[(k - 1) \div 2][2 - (k % 2)] = ImageBytes[file][k]
  BY <1>1 DEF Compared, Reliable, LoadedImage
<1>3. file \in DOMAIN Files /\ ReaderOk(file, reader) /\ reader.endOfFile /\ address \in Nat
  BY <1>1, <1>2 DEF ControlInv, ProgramTypeOK, ReaderInv, Reading
<1>4. IsGood[file]
  <2>1. n \in Nat /\ n > 0 /\ n <= Len(Files[file].lines) /\ Len(Files[file].lines) \in Nat
    BY <1>3, FileType DEF ReaderOk, Reader
  <2>2. n \in 1 .. Len(Files[file].lines) /\ \A k \in 1 .. (n - 1) : k \in 1 .. n /\ k # n
    <3> HIDE DEF n
    <3> QED BY <2>1
  <2>3. Record(Files[file].lines[n]) = EOF
    BY <1>3 DEF ReaderOk
  <2>4. \A k \in 1 .. (n - 1) : Record(Files[file].lines[k]) \in {DATA, ELA}
    BY <1>3, <2>2 DEF ReaderOk
  <2> QED BY <1>3, <2>2, <2>3, <2>4, EndFirst
<1>5. p = ImageBytes[file] /\ Len(p) \in Nat /\ Given(file, reader) = Len(p)
  BY <1>3, <1>4, GoodReader, GivenRange
<1>6. 2 * address >= Len(p) /\ \A j \in 0 .. (address - 1) : WordIs(m, p, j)
  BY <1>1, <1>2, <1>3, <1>5 DEF Pass, Reading, Compared
<1> HIDE DEF n, p, m
<1>7. ASSUME NEW k \in 1 .. Len(p)
      PROVE  m[(k - 1) \div 2][2 - (k % 2)] = p[k]
  <2> DEFINE j == (k - 1) \div 2
             c == 2 - (k % 2)
  <2>1. k \in Nat \ {0} /\ k <= 2 * address /\ k <= Len(p)
    BY <1>3, <1>5, <1>6
  <2>2. /\ j \in 0 .. (address - 1)
        /\ k % 2 = 1 => c = 1 /\ k = 2 * j + 1
        /\ k % 2 # 1 => c = 2 /\ k = 2 * j + 2
    BY <1>3, <2>1, ByteWord
  <2> HIDE DEF j, c
  <2>3. WordIs(m, p, j)
    BY <1>6, <2>2
  <2>4. m[j][c] = p[k]
    BY <2>1, <2>2, <2>3 DEF WordIs
  <2> QED BY <2>4 DEF j, c
<1> QED BY <1>4, <1>5, <1>7 DEF m

(* No other step reaches or disturbs a comparison. *)
LEMMA ComparedOther ==
    ASSUME ImageInv, [Next]_vars, ~verifyWord, ~verifyStop
    PROVE  Compared'
<1>1. CASE pc' \notin {"verify", "exit0"}
  BY <1>1 DEF Compared, LoadedImage
<1>2. CASE OpenFile
  <2>1. pc' = "exit0" => ~present'
    BY <1>2 DEF OpenFile
  <2>2. pc' = "verify" => address' = 0
    BY <1>2 DEF OpenFile
  <2> QED BY <2>1, <2>2 DEF Compared, LoadedImage
<1>3. CASE FlashFinish
  <2>1. Waiting /\ pc' = pc /\ tool' = tool /\ torn' = torn
    BY <1>3 DEF FlashFinish, Waiting
  <2>2. pc \in {"verify", "exit0"} => ~Reliable
    BY <2>1 DEF ImageInv, ControlInv, Settled, AtRest, Reliable, ProgramTypeOK
  <2> QED BY <2>1, <2>2 DEF Compared, Reliable, LoadedImage
<1>4. CASE Flash
  <2>1. pc' = pc /\ pc # "verify" /\ pc # "exit0"
    BY <1>4 DEF Flash, ImageInv, ControlInv, OpsOk, Running
  <2> QED BY <2>1 DEF Compared, LoadedImage
<1>5. CASE UNCHANGED vars
  <2>1. UNCHANGED <<flash, file, present, tool, pc, torn, address, reader>>
    BY <1>5 DEF vars, local
  <2> QED BY <2>1 DEF ImageInv, Compared, Reliable, LoadedImage
<1>6. CASE Start \/ eraseBootProm \/ eraseCommand \/ writeError \/ writeWord \/ writeRest \/ bufferedProgramCommand
  <2>1. pc' \notin {"verify", "exit0"}
    BY <1>6 DEF Start, eraseBootProm, eraseCommand, Poll, writeError, Stop, writeWord, writeRest,
       bufferedProgramCommand
  <2> QED BY <1>1, <2>1
<1>7. CASE Kill \/ Again
  BY <1>1, <1>7 DEF Kill, Again, Exit
<1> QED BY <1>2, <1>3, <1>4, <1>5, <1>6, <1>7 DEF Next, Program

(* A run of main() that returns 0 while the file can be read leaves, or  *)
(* finds, every byte of the file in the flash, for every flash size that *)
(* the assumptions admit, every set of .mcs files, any number of failed  *)
(* commands and of kills.                                                *)
THEOREM ImageSafe == Spec => []LoadedImage
<1>1. Init => ImageInv
  <2>1. Init => Pass /\ Compared
    BY DEF Init, Pass, Reading, Compared, LoadedImage
  <2> QED BY <2>1, ControlInit DEF ImageInv
<1>2. ImageInv /\ [Next]_vars => ImageInv'
  <2> SUFFICES ASSUME ImageInv, [Next]_vars PROVE ImageInv'
    OBVIOUS
  <2>1. ControlInv' /\ Pass'
    BY ControlStep, PassStep DEF ImageInv
  <2>2. Compared'
    BY ComparedWord, ComparedEnd, ComparedOther
  <2> QED BY <2>1, <2>2 DEF ImageInv
<1>3. ImageInv => LoadedImage
  BY DEF ImageInv, Compared
<1> QED BY <1>1, <1>2, <1>3, PTL DEF Spec

-----------------------------------------------------------------------------
(* The erase pass of a run that found the flash at rest. *)
LEMMA EraseFlash ==
    ASSUME ControlInv, EraseSafe, Flash, Clean
    PROVE  /\ EraseSafe'
           /\ pc \in {"fileExist", "erase", "erasePoll"} => flash'.busy # "program"
<1> DEFINE o == Head(ops)
           t == Tail(ops)
           n == Len(ops)
           g == Transfer(flash, o)
           b == Block(address)
<1>1. /\ ProgramTypeOK /\ ops # <<>> /\ flash' = g /\ ops' = t /\ pc' = pc
      /\ UNCHANGED <<file, present, tool, pc, local, failures, kills, torn>>
      /\ UNCHANGED <<address, tool, torn>> /\ address \in Nat /\ flash \in FlashType
  BY DEF ControlInv, ProgramTypeOK, Flash, local
<1>2. CASE pc \in {"fileExist", "erase"}
  <2>1. Quiet(flash)
    BY <1>1, <1>2, QuietNow DEF EraseSafe
  <2>2. Quiet(g) /\ Same(g, flash)
    <3>1. CASE pc = "fileExist"
      <4>1. o = writeToFlash(1, Cmd("60"), Cmd("03"))
        BY <3>1, EraseNext
      <4> HIDE DEF o
      <4> QED BY <2>1, <4>1, QuietLock
    <3>2. CASE pc = "erase"
      <4> DEFINE a == address - BlockSize
      <4>1. a \in Nat /\ o = writeToFlash(a, Cmd("60"), Cmd("01"))
        BY <3>2, EraseNext
      <4> HIDE DEF o, a
      <4> QED BY <2>1, <4>1, QuietLock
    <3> QED BY <1>2, <3>1, <3>2
  <2> HIDE DEF g, t
  <2>3. ~Waiting' /\ flash'.mem = flash.mem /\ flash'.busy = ""
    BY <1>1, <2>2 DEF Quiet, Same, Waiting
  <2> QED BY <1>1, <1>2, <2>3 DEF EraseSafe, Clean
<1>3. CASE pc = "erasePoll"
  <2>1. /\ n \in 1 .. 3 /\ Len(t) = n - 1
        /\ n = 3 => o = writeToFlash(address, Cmd("60"), Cmd("D0"))
        /\ n = 2 => o = writeToFlash(address, Cmd("50"), Cmd("50"))
        /\ n = 1 => o = writeToFlash(address, Cmd("20"), Cmd("D0"))
    BY <1>3, EraseNext
  <2>2. Quiet(flash) /\ (n \in 1 .. 2 => b \in flash.unlocked)
    BY <1>1, <1>3, <2>1, QuietNow DEF EraseSafe, Erasing
  <2> DEFINE k == Len(t)
  <2> HIDE DEF o, t, b
  <2>0. n \in 1 .. 3 /\ k = n - 1
    BY <2>1
  <2> HIDE DEF n, k
  <2>8. (k \in 1 .. 3 => n # 1) /\ (k \in 1 .. 2 => n # 1) /\ (k = 0 => n = 1)
    BY <2>0
  <2>9. (n = 3 => n # 1) /\ (n = 2 => n # 1)
    OBVIOUS
  <2>3. SUFFICES /\ g.mem = flash.mem /\ g.busy # "program"
                 /\ n # 1 => g.mode # "load" /\ g.busy = "" /\ b \in g.unlocked
                 /\ n = 1 => g.mode # "load" /\ g.busy = "erase" /\ g.at = address
    <3> HIDE DEF g
    <3>2. Erasing'
      BY <1>1, <2>3, <2>8 DEF Erasing, Waiting, k, b
    <3> QED BY <1>1, <1>3, <2>3, <3>2 DEF EraseSafe, Clean
  <2>4. CASE n = 3
    <3>1. Quiet(g) /\ Same(g, flash) /\ b \in g.unlocked
      BY <1>1, <2>1, <2>2, <2>4, QuietLock DEF b
    <3> HIDE DEF g
    <3> QED BY <2>4, <2>9, <3>1, Zenon DEF Quiet, Same
  <2>5. CASE n = 2
    <3>1. Quiet(g) /\ Same(g, flash) /\ b \in g.unlocked
      BY <1>1, <2>1, <2>2, <2>5, QuietClear
    <3> HIDE DEF g
    <3> QED BY <2>5, <2>9, <3>1, Zenon DEF Quiet, Same
  <2>6. CASE n = 1
    <3>1. g.mode = "status" /\ g.busy = "erase" /\ g.at = address /\ Same(g, flash)
      <4>1. b \in flash.unlocked
        BY <2>2, <2>6
      <4>2. o = writeToFlash(address, Cmd("20"), Cmd("D0"))
        BY <2>1, <2>6
      <4> QED BY <1>1, <2>2, <4>1, <4>2, QuietErase DEF b
    <3> HIDE DEF g
    <3> QED BY <2>6, <3>1 DEF Same
  <2>7. n = 3 \/ n = 2 \/ n = 1
    BY <2>0
  <2> QED BY <2>4, <2>5, <2>6, <2>7
<1>4. CASE pc \notin {"fileExist", "erase", "erasePoll"}
  <2>1. pc # "openWrite"
    BY <1>1 DEF ControlInv, OpsOk
  <2> QED BY <1>1, <1>4, <2>1 DEF EraseSafe
<1> QED BY <1>2, <1>3, <1>4

(* The erase pass goes to the next block, or ends when all are erased. *)
LEMMA EraseBegin ==
    ASSUME ControlInv, EraseSafe, eraseBootProm, Clean
    PROVE  EraseSafe'
<1>1. /\ ProgramTypeOK /\ pc = "erase" /\ address \in Nat /\ Block(address) \in Nat /\ address % BlockSize = 0
      /\ UNCHANGED <<flash, address, tool, torn>>
  BY BlockType DEF ControlInv, ProgramTypeOK, EraseOk, eraseBootProm
<1>2. ~Waiting /\ \A a \in Word : Block(a) < Block(address) => flash.mem[a] = Ones
  BY <1>1 DEF EraseSafe
<1>3. CASE address <= PROM_SIZE
  <2>1. pc' = "erasePoll" /\ Len(ops') = 3
    BY <1>1, <1>3, EraseType DEF eraseBootProm
  <2>2. Len(ops') \notin 1 .. 2 /\ Len(ops') # 0
    BY <2>1
  <2>3. ~Waiting'
    BY <1>1, <1>2 DEF Waiting
  <2>4. Erasing'
    BY <2>2, <2>3 DEF Erasing
  <2> QED BY <1>1, <1>2, <2>1, <2>4 DEF EraseSafe
<1>4. CASE ~(address <= PROM_SIZE)
  <2>1. pc' = "openWrite"
    BY <1>4 DEF eraseBootProm
  <2>2. Block(address) >= LastBlock + 1
    <3>1. address > PROM_SIZE
      BY <1>1, <1>4, PromAssumption
    <3> QED BY <1>1, <3>1, BlockPast
  <2>3. LastBlock \in Nat
    BY PromAssumption, DivMod DEF LastBlock
  <2>4. ASSUME NEW a \in Word PROVE flash.mem[a] = Ones
    <3>1. Block(a) \in Nat /\ Block(a) <= LastBlock
      BY WordBlocks
    <3>2. Block(a) < Block(address)
      BY <1>1, <2>2, <2>3, <3>1
    <3> QED BY <1>2, <3>2
  <2> QED BY <1>1, <2>1, <2>4 DEF EraseSafe
<1> QED BY <1>3, <1>4

(* The status loop leaves a block only when it is erased. *)
LEMMA ErasePolled ==
    ASSUME ControlInv, EraseSafe, eraseCommand, Clean
    PROVE  EraseSafe' /\ flash'.busy # "program"
<1>1. /\ ProgramTypeOK /\ address \in Nat /\ flash \in FlashType /\ flash.pend = ""
      /\ Poll("erasePoll", "erase", address, "erase", EraseOps(address))
  BY DEF ControlInv, ProgramTypeOK, eraseCommand
<1>2. /\ pc = "erasePoll" /\ ops = <<>> /\ flash' = Cycle(flash, address, Cmd("70"))
      /\ \/ pc' = pc /\ ops' = EraseOps(address) /\ flash'.busy = ""
         \/ pc' = "erase" /\ flash'.busy = "" /\ (flash'.mode = "status" => "erase" \notin flash'.err)
         \/ pc' = pc /\ ops' = ops /\ flash'.busy # ""
      /\ tool' = tool /\ torn' = torn
  BY <1>1, PollStep
<1>3. Len(ops) = 0
  BY <1>2
<1>4. /\ flash.mode # "load" /\ (flash.busy # "" => flash.busy = "erase" /\ flash.at = address)
      /\ flash.busy = "" /\ "erase" \notin flash.err =>
            \A a \in Word : Block(a) = Block(address) => flash.mem[a] = Ones
      /\ \A a \in Word : Block(a) < Block(address) => flash.mem[a] = Ones
  BY <1>2, <1>3 DEF EraseSafe, Erasing
<1>5. /\ flash'.mode = "status" /\ flash'.busy = flash.busy /\ flash'.mem = flash.mem
      /\ flash'.err = flash.err /\ flash'.at = flash.at
  BY <1>1, <1>2, <1>4, StatusCycle DEF Same
<1>6. CASE pc' = pc /\ ops' = EraseOps(address) /\ flash'.busy = ""
  <2>1. Len(ops') = 3 /\ address' = address
    BY <1>1, <1>2, <1>6, EraseType DEF eraseCommand
  <2>2. Len(ops') \notin 1 .. 2 /\ Len(ops') # 0
    BY <2>1
  <2>3. ~Waiting'
    BY <1>5, <1>6 DEF Waiting
  <2>4. Erasing'
    BY <2>2, <2>3 DEF Erasing
  <2> QED BY <1>2, <1>4, <1>5, <1>6, <2>1, <2>4 DEF EraseSafe
<1>7. CASE pc' = "erase" /\ flash'.busy = "" /\ (flash'.mode = "status" => "erase" \notin flash'.err)
  <2>1. Block(address') = Block(address) + 1 /\ Block(address) \in Nat
    <3>1. address % BlockSize = 0
      BY <1>2 DEF ControlInv, EraseOk
    <3>2. address' = address + BlockSize
      BY <1>7 DEF eraseCommand
    <3> QED BY <1>1, <3>1, <3>2, BlockNext, BlockType
  <2>2. ASSUME NEW a \in Word, Block(a) < Block(address') PROVE flash'.mem[a] = Ones
    <3>1. Block(a) \in Nat
      BY WordBlocks
    <3>2. Block(a) < Block(address) \/ Block(a) = Block(address)
      BY <2>1, <2>2, <3>1
    <3> QED BY <1>4, <1>5, <1>7, <3>2
  <2>3. ~Waiting'
    BY <1>5, <1>7 DEF Waiting
  <2> QED BY <1>5, <1>7, <2>2, <2>3 DEF EraseSafe
<1>8. CASE pc' = pc /\ ops' = ops /\ flash'.busy # ""
  <2>1. address' = address
    BY <1>2, <1>8 DEF eraseCommand
  <2>2. Len(ops') \notin 1 .. 3 /\ Len(ops') \notin 1 .. 2
    <3>1. Len(ops') = 0
      BY <1>3, <1>8
    <3> QED BY <3>1
  <2>3. Erasing'
    BY <1>4, <1>5, <1>8, <2>1, <2>2 DEF Erasing
  <2> QED BY <1>2, <1>4, <1>5, <1>8, <2>1, <2>3 DEF EraseSafe
<1> QED BY <1>2, <1>4, <1>5, <1>6, <1>7, <1>8

(* A finished erase operation has erased its block, or left an error. *)
LEMMA EraseFinish ==
    ASSUME ControlInv, EraseSafe, FlashFinish, Clean
    PROVE  EraseSafe'
<1>1. /\ flash.busy # "" /\ flash.mode # "load" /\ flash'.busy = "" /\ flash'.mode = flash.mode
      /\ \/ flash'.mem = Result(flash)
         \/ flash'.mem = flash.mem /\ flash'.err = flash.err \cup {flash.busy}
      /\ flash \in FlashType
      /\ UNCHANGED <<file, present, tool, pc, ops, local, kills, torn>> /\ address' = address
  <2>1. flash \in FlashType
    BY DEF ControlInv, ProgramTypeOK
  <2> QED BY <2>1, FinishStep DEF local
<1>2. Waiting /\ pc \notin {"fileExist", "erase", "openWrite"}
  BY <1>1 DEF Waiting, EraseSafe, ControlInv, Settled, AtRest, Clean
<1>3. CASE pc = "erasePoll"
  <2>1. ops # <<>> => Len(ops) \in 1 .. 3
    BY <1>1, <1>3, EraseAccess DEF ControlInv, ProgramTypeOK, OpsOk
  <2>2. Len(ops) = 0
    <3>1. Len(ops) \notin 1 .. 3
      BY <1>2, <1>3 DEF EraseSafe, Erasing
    <3>2. ops = <<>>
      BY <2>1, <3>1
    <3> QED BY <3>2
  <2>3. flash.busy = "erase" /\ flash.at = address
    <3>1. Erasing
      BY <1>3 DEF EraseSafe
    <3> QED BY <1>1, <2>2, <3>1 DEF Erasing
  <2>4. \A a \in Word : Result(flash)[a] = IF Block(a) = Block(address) THEN Ones ELSE flash.mem[a]
    BY <2>3 DEF Result
  <2>5. \A a \in Word : Block(a) < Block(address) => flash'.mem[a] = Ones
    BY <1>1, <1>3, <2>4 DEF EraseSafe
  <2>6. "erase" \notin flash'.err => \A a \in Word : Block(a) = Block(address) => flash'.mem[a] = Ones
    BY <1>1, <2>3, <2>4
  <2>7. Erasing'
    <3>1. Len(ops') \notin 1 .. 3 /\ Len(ops') \notin 1 .. 2
      <4>1. Len(ops') = 0
        BY <1>1, <2>2
      <4> QED BY <4>1
    <3> QED BY <1>1, <2>6, <3>1 DEF Erasing
  <2> QED BY <1>1, <1>3, <2>5, <2>7 DEF EraseSafe
<1> QED BY <1>1, <1>2, <1>3 DEF EraseSafe

(* The other steps leave what is erased alone. *)
LEMMA EraseOther ==
    ASSUME ControlInv, EraseSafe, [Next]_vars, ~Flash, ~eraseBootProm, ~eraseCommand, ~FlashFinish
    PROVE  EraseSafe'
<1>1. CASE Start
  <2>1. pc' = "fileExist" /\ flash' = flash /\ torn' = Waiting
    BY <1>1 DEF Start, Waiting
  <2> QED BY <2>1 DEF EraseSafe, Clean, Waiting
<1>2. CASE OpenFile
  <2>1. /\ UNCHANGED <<flash, tool, torn>> /\ pc' \notin {"fileExist", "erasePoll", "openWrite"}
        /\ pc' = "erase" => pc = "fileExist" /\ address' = address
    BY <1>2 DEF OpenFile, local
  <2>2. pc' = "erase" => address' = 0
    BY <2>1 DEF ControlInv, EraseOk
  <2>3. \A a \in Word : ~(Block(a) < Block(0))
    BY WordBlocks, BlockZero
  <2> QED BY <2>1, <2>2, <2>3 DEF EraseSafe, Clean, Waiting
<1>3. CASE UNCHANGED vars
  <2>1. UNCHANGED <<flash, tool, torn, pc, ops, address>>
    BY <1>3 DEF vars, local
  <2> QED BY <2>1 DEF EraseSafe, Erasing, Clean, Waiting
<1>4. CASE pc' \notin {"fileExist", "erase", "openWrite", "erasePoll"}
  BY <1>4 DEF EraseSafe
<1>5. CASE writeError \/ writeWord \/ writeRest \/ bufferedProgramCommand \/ verifyStop \/ verifyWord \/ Kill \/ Again
  <2>1. pc' \notin {"fileExist", "erase", "openWrite", "erasePoll"}
    BY <1>5 DEF writeError, writeWord, writeRest, bufferedProgramCommand, Poll, verifyStop, Stop, verifyWord,
       Kill, Again, Exit
  <2> QED BY <1>4, <2>1
<1> QED BY <1>1, <1>2, <1>3, <1>5 DEF Next, Program

(* Every step keeps what the erase pass has reached. *)
LEMMA EraseStep ==
    ASSUME ControlInv, EraseSafe, [Next]_vars
    PROVE  EraseSafe'
<1>1. Flash \/ eraseBootProm \/ eraseCommand \/ FlashFinish => tool' = tool /\ torn' = torn
  BY DEF Flash, eraseBootProm, eraseCommand, Poll, FlashFinish
<1>2. ~Clean' => EraseSafe'
  BY DEF EraseSafe
<1>3. Flash \/ eraseBootProm \/ eraseCommand \/ FlashFinish => (Clean' <=> Clean)
  BY <1>1 DEF Clean
<1> QED BY <1>2, <1>3, EraseFlash, EraseBegin, ErasePolled, EraseFinish, EraseOther

-----------------------------------------------------------------------------
(* The write pass of a run that found the flash at rest. *)
LEMMA BufferIs ==
    ASSUME NEW b, Aligned(b)
    PROVE  /\ \A i \in Slot : (b + i) \div BUF = b \div BUF /\ (b + i) % BUF = i
           /\ \A a \in Nat : a \div BUF = b \div BUF => a - b \in Slot /\ a >= b /\ b + (a - b) = a
           /\ Aligned(b + BUF)
<1> DEFINE q == b \div BUF
           m == BUF * q
<1>1. b \in Nat /\ BUF \in Nat \ {0} /\ b % BUF = 0
  BY PromAssumption DEF Aligned
<1>2. q \in Nat /\ b = m
  <2>1. q \in Nat /\ b = m + (b % BUF)
    BY <1>1, DivMod
  <2>2. m \in Nat
    BY <1>1, <2>1
  <2> HIDE DEF m
  <2> QED BY <1>1, <2>1, <2>2
<1> HIDE DEF q
<1>3. ASSUME NEW i \in Slot
      PROVE  (b + i) \div BUF = q /\ (b + i) % BUF = i
  <2>1. (BUF * q + i) \div BUF = q /\ (BUF * q + i) % BUF = i
    BY <1>1, <1>2, DivUnique DEF Slot
  <2>2. b + i = BUF * q + i
    BY <1>2
  <2> QED BY <2>1, <2>2
<1>4. ASSUME NEW a \in Nat, a \div BUF = q
      PROVE  a - b \in Slot /\ a >= b /\ b + (a - b) = a
  <2> DEFINE r == a % BUF
  <2>1. r \in 0 .. (BUF - 1) /\ a = BUF * (a \div BUF) + r
    BY <1>1, DivMod
  <2>2. a = m + r
    BY <1>4, <2>1
  <2> HIDE DEF r, m
  <2>3. a = b + r
    BY <1>2, <2>2
  <2> QED BY <1>1, <2>1, <2>3 DEF Slot
<1>5. Aligned(b + BUF)
  <2>1. b + BUF = BUF * (q + 1) + 0
    BY <1>1, <1>2
  <2>2. q + 1 \in Nat /\ 0 \in 0 .. (BUF - 1)
    BY <1>1, <1>2
  <2>3. (BUF * (q + 1) + 0) % BUF = 0
    BY <1>1, <2>2, DivUnique
  <2>4. (b + BUF) % BUF = 0
    BY <2>1, <2>3, Zenon
  <2>5. b + BUF \in Nat
    BY <1>1
  <2> QED BY <2>4, <2>5 DEF Aligned
<1> QED BY <1>3, <1>4, <1>5 DEF q

(* The buffer before an aligned one is aligned. *)
LEMMA AlignedBack ==
    ASSUME NEW b \in Nat, Aligned(b + BUF)
    PROVE  b % BUF = 0
<1> DEFINE q == b \div BUF
           r == b % BUF
<1>1. BUF \in Nat \ {0} /\ (b + BUF) % BUF = 0
  BY PromAssumption DEF Aligned
<1>2. q \in Nat /\ r \in 0 .. (BUF - 1) /\ b = BUF * q + r
  BY <1>1, DivMod
<1> HIDE DEF q, r
<1>3. b + BUF = BUF * (q + 1) + r /\ q + 1 \in Nat
  BY <1>1, <1>2
<1>4. (BUF * (q + 1) + r) % BUF = r
  BY <1>1, <1>2, <1>3, DivUnique
<1>5. r = 0
  BY <1>1, <1>3, <1>4, Zenon
<1> QED BY <1>5 DEF r

(* The entries of the program's buffer. *)
LEMMA BufferFits ==
    ASSUME ProgramTypeOK
    PROVE  /\ bufSize \in Nat /\ bufSize < BUF /\ bufSize + 1 <= BUF /\ BUF \in Nat \ {0} /\ 0 \in Slot
           /\ 0 .. (bufSize - 1) \subseteq Slot /\ bufSize .. (BUF - 1) \subseteq Slot
           /\ \A i \in Slot : i \in Nat /\ (i \in 0 .. (bufSize - 1) \/ i \in bufSize .. (BUF - 1))
<1>1. bufSize \in Slot
  BY DEF ProgramTypeOK
<1> QED BY <1>1, PromAssumption DEF Slot

(* The write pass begins with an erased flash, *)
LEMMA WriteOpen ==
    ASSUME ControlInv, EraseSafe, OpenFile, Clean
    PROVE  WriteSafe'
<1>1. pc' \notin {"programPoll", "lastPoll"} /\ flash' = flash
  BY DEF OpenFile
<1>2. CASE pc' = "write"
  <2>1. pc = "openWrite" /\ address' = 0 /\ bufSize' = 0
    BY <1>2 DEF OpenFile
  <2>2. \A a \in Word : flash'.mem[a] = Ones
    BY <1>1, <2>1 DEF EraseSafe
  <2>3. Base' = 0 /\ Aligned(0)
    BY <2>1, PromAssumption DEF Base, Aligned
  <2>4. Filling'
    BY <2>1, <2>2, <2>3 DEF Filling, ErasedFrom, Aligned
  <2> QED BY <1>1, <1>2, <2>4 DEF WriteSafe
<1> QED BY <1>1, <1>2 DEF WriteSafe

(* What the write pass knows before a word and after it. *)
LEMMA FillNext ==
    ASSUME ControlInv, WriteSafe, writeWord, Clean, toggle
    PROVE  /\ Filling /\ Base \in Nat /\ address = Base + bufSize
           /\ bufSize + 1 # BUF => Base' = Base /\ bufSize' = bufSize + 1 /\ pc' = "write"
           /\ bufSize + 1 = BUF => address' = Base + BUF /\ bufSize' = 0 /\ pc' = "programPoll"
           /\ \A i \in 0 .. bufSize : i \in Slot /\ bufAddr'[i] = Base + i
           /\ \A i \in (bufSize + 1) .. (BUF - 1) : i \in bufSize .. (BUF - 1) /\ bufAddr'[i] = bufAddr[i]
           /\ \A i \in Slot : i # bufSize => bufData'[i] = bufData[i]
           /\ bufData'[bufSize] = FullWord(read(file, reader))
<1> DEFINE n == bufSize
           b == Base
<1>1. /\ ProgramTypeOK /\ pc = "write" /\ address' = address + 1 /\ Filling /\ address \in Nat
      /\ bufAddr' = [bufAddr EXCEPT ![n] = address]
      /\ bufData' = [bufData EXCEPT ![n] = FullWord(read(file, reader))]
      /\ n + 1 = BUF => bufSize' = 0 /\ pc' = "programPoll"
      /\ n + 1 # BUF => bufSize' = n + 1 /\ pc' = "write"
  BY DEF ControlInv, ProgramTypeOK, WriteSafe, writeWord
<1>2. /\ n \in Nat /\ n < BUF /\ BUF \in Nat \ {0} /\ n \in Slot
      /\ bufAddr \in [Slot -> Nat \cup {UNSET}] /\ bufData \in [Slot -> FlashWord]
  BY <1>1, BufferFits DEF ProgramTypeOK
<1>3. b \in Nat /\ b = address - n
  BY <1>1 DEF Filling, Aligned, Base
<1>4. address = b + n
  <2> HIDE DEF n, b
  <2> QED BY <1>1, <1>2, <1>3
<1>5. n + 1 # BUF => Base' = b
  <2>1. n + 1 # BUF => Base' = (address + 1) - (n + 1)
    BY <1>1 DEF Base
  <2> HIDE DEF n, b
  <2> QED BY <1>1, <1>2, <1>3, <1>4, <2>1
<1>6. n + 1 = BUF => address' = b + BUF
  <2> HIDE DEF n, b
  <2> QED BY <1>1, <1>2, <1>3, <1>4
<1>7. ASSUME NEW i \in 0 .. n
      PROVE  i \in Slot /\ bufAddr'[i] = b + i
  <2>1. i \in Slot /\ (i = n \/ i \in 0 .. (n - 1))
    <3> HIDE DEF n
    <3> QED BY <1>2 DEF Slot
  <2>2. i \in 0 .. (n - 1) => bufAddr[i] = b + i /\ i # n
    BY <1>1, <1>2 DEF Filling
  <2> HIDE DEF n, b
  <2> QED BY <1>1, <1>2, <1>4, <2>1, <2>2
<1>8. ASSUME NEW i \in (n + 1) .. (BUF - 1)
      PROVE  i \in n .. (BUF - 1) /\ bufAddr'[i] = bufAddr[i]
  <2>1. i \in Slot /\ i # n /\ i \in n .. (BUF - 1)
    <3> HIDE DEF n
    <3> QED BY <1>2 DEF Slot
  <2> HIDE DEF n
  <2> QED BY <1>1, <1>2, <2>1
<1>9. (\A i \in Slot : i # n => bufData'[i] = bufData[i]) /\ bufData'[n] = FullWord(read(file, reader))
  BY <1>1, <1>2
<1> QED BY <1>1, <1>3, <1>4, <1>5, <1>6, <1>7, <1>8, <1>9

(* stays behind the address it writes to, *)
LEMMA WriteWordStep ==
    ASSUME ControlInv, WriteSafe, writeWord, Clean
    PROVE  WriteSafe'
<1> DEFINE n == bufSize
           b == Base
<1>1. /\ ProgramTypeOK /\ pc = "write" /\ flash' = flash /\ ops = <<>> /\ Filling
  BY DEF ControlInv, WriteSafe, writeWord
<1>2. CASE ~toggle
  <2>1. UNCHANGED <<address, bufAddr, bufData, bufSize, ops, pc>>
    BY <1>2 DEF writeWord
  <2>2. Filling'
    BY <1>1, <2>1 DEF Filling, Aligned, ErasedFrom, Base
  <2> QED BY <1>1, <2>1, <2>2 DEF WriteSafe
<1>3. CASE toggle
  <2>1. /\ Filling /\ b \in Nat /\ address = b + n
        /\ n + 1 # BUF => Base' = b /\ bufSize' = n + 1 /\ pc' = "write"
        /\ n + 1 = BUF => address' = b + BUF /\ bufSize' = 0 /\ pc' = "programPoll"
        /\ \A i \in 0 .. n : i \in Slot /\ bufAddr'[i] = b + i
        /\ \A i \in (n + 1) .. (BUF - 1) : i \in n .. (BUF - 1) /\ bufAddr'[i] = bufAddr[i]
    BY <1>3, FillNext
  <2>2. n \in Nat /\ n < BUF /\ BUF \in Nat \ {0}
    BY <1>1, BufferFits
  <2>3. CASE n + 1 # BUF
    <3>1. \A i \in 0 .. (bufSize' - 1) : bufAddr'[i] = b + i
      <4>1. (n + 1) - 1 = n
        BY <2>2
      <4> QED BY <2>1, <2>3, <4>1
    <3>2. b > 0 => \A i \in bufSize' .. (BUF - 1) : bufAddr'[i] = b - BUF + i
      BY <1>1, <2>1, <2>3 DEF Filling
    <3>3. ErasedFrom(b)' /\ Aligned(b)
      BY <1>1, <2>1, <2>3 DEF Filling, ErasedFrom
    <3>4. Filling'
      BY <1>1, <2>1, <2>3, <3>1, <3>2, <3>3 DEF Filling, Aligned, ErasedFrom
    <3> QED BY <2>1, <2>3, <3>4 DEF WriteSafe
  <2>4. CASE n + 1 = BUF
    <3>1. Slot = 0 .. n
      BY <2>2, <2>4 DEF Slot
    <3>2. address' = b + BUF /\ address' > 0 /\ address' - BUF = b
      <4> HIDE DEF n, b
      <4> QED BY <2>1, <2>2, <2>4
    <3>3. \A i \in Slot : bufAddr'[i] = address' - BUF + i
      BY <2>1, <3>1, <3>2
    <3>4. Aligned(b) /\ Aligned(b + BUF) /\ \A a \in Nat : a \div BUF = b \div BUF => a >= b
      BY <1>1, BufferIs DEF Filling
    <3>5. \A a \in Word : a \in Nat /\ (a >= b => flash.mem[a] = Ones)
      BY <1>1, WordBlocks DEF Filling, ErasedFrom
    <3>6. Aligned(address')
      BY <3>2, <3>4
    <3>7. ErasedFrom(address)'
      <4>1. \A a \in Word : a >= address' => a >= b
        <5> HIDE DEF b
        <5> QED BY <2>1, <2>2, <3>2, <3>5
      <4> QED BY <1>1, <3>5, <4>1 DEF ErasedFrom
    <3>8. Programming'
      <4>1. bufAddr'[0] = b
        <5>1. 0 \in 0 .. n /\ b + 0 = b
          BY <2>1, <2>2
        <5> QED BY <2>1, <5>1
      <4>2. \A a \in Buffer(b) : flash.mem[a] = Ones
        BY <3>4, <3>5 DEF Buffer
      <4>3. ops' # <<>>
        <5>1. ops' = ProgramOps(bufAddr', bufData')
          BY <1>3, <2>4 DEF writeWord
        <5>2. ops' # <<>>
          <6>1. ControlInv'
            BY ControlWriteWord
          <6>2. bufAddr' \in Addresses /\ bufData' \in [Slot -> FlashWord]
            <7>1. /\ bufAddr' \in [Slot -> Nat \cup {UNSET}] /\ bufData' \in [Slot -> FlashWord]
              BY <6>1 DEF ControlInv, ProgramTypeOK
            <7>2. \A i \in Slot : bufAddr'[i] # UNSET
              BY <2>1, <2>4, <6>1 DEF ControlInv, OpsOk, BufferSet
            <7> QED BY <7>1, <7>2, AllSet
          <6>3. Len(ops') = BUF + 4
            BY <5>1, <6>2, ProgramType
          <6> QED BY <6>3, PromAssumption
        <5> QED BY <5>2
      <4> QED BY <1>1, <4>1, <4>2, <4>3 DEF Programming, Buffer
    <3> QED BY <2>1, <2>4, <3>3, <3>6, <3>7, <3>8, <3>2 DEF WriteSafe
  <2> QED BY <2>3, <2>4
<1> QED BY <1>2, <1>3

(* and ends with a buffer whose words are still erased. *)
LEMMA WriteRestStep ==
    ASSUME ControlInv, WriteSafe, writeRest, Clean
    PROVE  WriteSafe'
<1> DEFINE n == bufSize
           b == Base
<1>1. /\ ProgramTypeOK /\ pc = "write" /\ flash' = flash /\ ops = <<>> /\ Filling
      /\ address' = address /\ bufSize' = n
  BY DEF ControlInv, WriteSafe, writeRest
<1>2. CASE n = 0
  <2>1. pc' = "openVerify"
    BY <1>2 DEF writeRest
  <2> QED BY <2>1 DEF WriteSafe
<1>3. CASE n # 0
  <2>1. PICK a \in {0, BUF - 1}, w \in {<<0, 0>>, Ones} :
            bufAddr' = [i \in Slot |-> IF bufAddr[i] = UNSET THEN a ELSE bufAddr[i]]
    BY <1>3 DEF writeRest
  <2>2. pc' = "lastPoll" /\ ops' = ProgramOps(bufAddr', bufData')
    BY <1>3 DEF writeRest
  <2>3. n > 0 /\ 0 \in 0 .. (n - 1) /\ 0 \in Slot
    <3>1. n \in Nat /\ 0 \in Slot
      BY <1>1, BufferFits
    <3> QED BY <1>3, <3>1
  <2>4. bufAddr'[0] = b /\ Aligned(b) /\ Base' = b
    <3>1. bufAddr[0] = b + 0 /\ b \in Nat
      BY <1>1, <2>3 DEF Filling, Aligned
    <3>2. bufAddr[0] = b /\ b # UNSET
      BY <3>1 DEF UNSET
    <3>3. Base' = b
      BY <1>1 DEF Base
    <3> QED BY <1>1, <2>1, <2>3, <3>2, <3>3 DEF Filling
  <2>5. ops' # <<>>
    <3>1. ControlInv'
      BY ControlWriteRest
    <3>2. bufAddr' \in Addresses /\ bufData' \in [Slot -> FlashWord]
      <4>1. /\ bufAddr' \in [Slot -> Nat \cup {UNSET}] /\ bufData' \in [Slot -> FlashWord]
        BY <3>1 DEF ControlInv, ProgramTypeOK
      <4>2. \A i \in Slot : bufAddr'[i] # UNSET
        BY <2>2, <3>1 DEF ControlInv, OpsOk, BufferSet
      <4> QED BY <4>1, <4>2, AllSet
    <3>3. Len(ops') = BUF + 4
      BY <2>2, <3>2, ProgramType
    <3> QED BY <3>3, PromAssumption
  <2>6. Programming'
    <3>1. \A x \in Nat : x \div BUF = b \div BUF => x >= b
      BY <2>4, BufferIs
    <3>2. \A x \in Buffer(b) : flash.mem[x] = Ones
      BY <1>1, <3>1, WordBlocks DEF Filling, ErasedFrom, Buffer
    <3> QED BY <1>1, <2>4, <2>5, <3>2 DEF Programming, Buffer
  <2> QED BY <1>1, <2>2, <2>3, <2>4, <2>6 DEF WriteSafe
<1> QED BY <1>2, <1>3

(* Loading a buffer leaves the array as it is; the confirmation starts a *)
(* program operation that overwrites nothing.                            *)
LEMMA WriteFlash ==
    ASSUME ControlInv, WriteSafe, Flash, Clean, pc \notin {"fileExist", "erase", "erasePoll"}
    PROVE  WriteSafe' /\ (flash'.busy = "program" => NoOverwrite')
<1>1. /\ ops # <<>> /\ UNCHANGED <<pc, tool, torn, address, bufAddr, bufData, bufSize>>
      /\ ControlInv' /\ flash' = Transfer(flash, Head(ops)) /\ ops' = Tail(ops)
  BY ControlFlash DEF Flash, local
<1>2. pc \in {"write", "openVerify", "programPoll", "lastPoll"}
  BY <1>1 DEF ControlInv, OpsOk, Flash, Running
<1>3. CASE pc \in {"write", "openVerify"}
  <2>1. flash'.mem = flash.mem
    BY <1>3, ControlFlashLock
  <2>2. pc = "write" => Filling'
    BY <1>1, <2>1 DEF WriteSafe, Filling, ErasedFrom, Aligned, Base
  <2>3. flash'.busy # "program"
    BY <1>1, <1>3 DEF ControlInv, Settled, AtRest, Waiting, Clean
  <2> QED BY <1>1, <1>3, <2>2, <2>3 DEF WriteSafe
<1>4. CASE pc \in {"programPoll", "lastPoll"}
  <2> DEFINE n == Len(ops)
             k == Len(ops')
  <2>1. flash'.mem = flash.mem
    BY <1>4, ControlFlashProgram
  <2>2. Programming /\ ProgramTypeOK /\ BufferSet /\ Rest(ops, ProgramOps(bufAddr, bufData))
    BY <1>4 DEF WriteSafe, ControlInv, OpsOk
  <2>3. n \in 1 .. (BUF + 4) /\ k = n - 1 /\ bufAddr \in Addresses /\ bufData \in [Slot -> FlashWord]
    BY <1>1, <2>2, ProgramAccess
  <2>4. ops' = <<>> => flash'.busy = "program"
    <3> SUFFICES ASSUME ops' = <<>> PROVE flash'.busy = "program"
      OBVIOUS
    <3>1. k = 0
      OBVIOUS
    <3>2. n \in 1 .. (BUF + 1) /\ BUF + 1 - n = BUF
      <4> HIDE DEF n, k
      <4> QED BY <2>3, <3>1, PromAssumption
    <3> QED BY <1>1, <1>4, <3>2, LoadAccess
  <2>5. Programming'
    BY <1>1, <2>1, <2>2, <2>4 DEF Programming, Buffer, Target
  <2>6. flash'.busy = "program" => flash'.at = bufAddr[0] /\ flash'.slots = Target
    <3> SUFFICES ASSUME flash'.busy = "program" PROVE flash'.at = bufAddr[0] /\ flash'.slots = Target
      OBVIOUS
    <3>1. flash'.mode # "load" /\ Waiting'
      BY <1>1 DEF ControlInv, EraseOk, Waiting
    <3>2. ~(k >= BUF + 2) /\ k \notin 1 .. (BUF + 1)
      BY <1>1, <1>4, <3>1 DEF ControlInv, ProgramOk
    <3>3. k = 0
      <4> HIDE DEF n, k
      <4> QED BY <2>3, <3>2, PromAssumption
    <3>4. ops' = <<>>
      <4>1. ops' \in Seq(Op)
        BY <1>1 DEF ControlInv, ProgramTypeOK
      <4> QED BY <3>3, <4>1
    <3> QED BY <1>1, <1>4, <3>4 DEF ControlInv, ProgramOk, Target
  <2>7. flash'.busy = "program" => NoOverwrite'
    <3> SUFFICES ASSUME flash'.busy = "program", NEW a \in Word, a \div BUF = flash'.at \div BUF
                 PROVE  And(flash'.mem[a], flash'.slots[a % BUF]) = flash'.slots[a % BUF]
      BY DEF NoOverwrite
    <3>1. a \in Buffer(bufAddr[0])
      BY <2>6 DEF Buffer
    <3>2. flash.mem[a] \in {Ones, Target[a % BUF]}
      BY <2>2, <3>1 DEF Programming
    <3>3. flash'.slots \in [Slot -> FlashWord] /\ a % BUF \in Slot
      BY <1>1, WordBlocks, SlotType DEF ControlInv, ProgramTypeOK, FlashType
    <3>4. flash'.slots[a % BUF] \in FlashWord /\ flash'.slots[a % BUF] = Target[a % BUF]
      BY <2>6, <3>3
    <3> QED BY <2>1, <3>2, <3>4, AndType
  <2>8. WriteSafe'
    BY <1>1, <1>4, <2>1, <2>5 DEF WriteSafe, Aligned, ErasedFrom, Base, Clean
  <2> QED BY <2>7, <2>8
<1> QED BY <1>2, <1>3, <1>4

(* The flash when the status loop of the program command looks at it. *)
LEMMA ProgramPolled ==
    ASSUME ControlInv, bufferedProgramCommand
    PROVE  /\ pc \in {"programPoll", "lastPoll"} /\ ops = <<>> /\ UNCHANGED <<local, tool, torn, file, present>>
           /\ flash'.mem = flash.mem /\ flash'.slots = flash.slots /\ flash'.busy = flash.busy
           /\ flash'.at = flash.at /\ flash'.err = flash.err
           /\ \/ pc' = pc /\ ops' # <<>>
              \/ /\ pc = "programPoll" => pc' = "write"
                 /\ pc = "lastPoll" => pc' = "openVerify"
                 /\ flash.busy = "" /\ "program" \notin flash.err
              \/ pc' = pc /\ flash'.busy # ""
<1> DEFINE to == IF pc = "programPoll" THEN "write" ELSE "openVerify"
<1>1. /\ ProgramTypeOK /\ pc \in {"programPoll", "lastPoll"} /\ ops = <<>>
      /\ Poll(pc, to, bufAddr[0], "program", ProgramOps(bufAddr, bufData)) /\ UNCHANGED local
  <2>1. CASE Poll("programPoll", "write", bufAddr[0], "program", ProgramOps(bufAddr, bufData))
    BY <2>1 DEF bufferedProgramCommand, Poll, ControlInv
  <2>2. CASE Poll("lastPoll", "openVerify", bufAddr[0], "program", ProgramOps(bufAddr, bufData))
    BY <2>2 DEF bufferedProgramCommand, Poll, ControlInv
  <2> QED BY <2>1, <2>2 DEF bufferedProgramCommand
<1>2. BufferSet /\ flash.mode # "load"
  BY <1>1 DEF ControlInv, OpsOk, ProgramOk
<1>3. bufAddr \in Addresses /\ bufAddr[0] \in Nat /\ bufData \in [Slot -> FlashWord]
  BY <1>1, <1>2, AllSet DEF ProgramTypeOK, BufferSet
<1> HIDE DEF to
<1>4. /\ flash' = Cycle(flash, bufAddr[0], Cmd("70"))
      /\ \/ pc' = pc /\ ops' = ProgramOps(bufAddr, bufData)
         \/ pc' = to /\ flash'.busy = "" /\ (flash'.mode = "status" => "program" \notin flash'.err)
         \/ pc' = pc /\ flash'.busy # ""
      /\ file' = file /\ present' = present /\ tool' = tool /\ torn' = torn
  BY <1>1, <1>3, PollStep
<1>5. flash \in FlashType /\ flash.pend = ""
  BY <1>1 DEF ProgramTypeOK
<1>6. /\ flash'.mode = "status" /\ flash'.busy = flash.busy /\ flash'.at = flash.at
      /\ flash'.mem = flash.mem /\ flash'.slots = flash.slots /\ flash'.err = flash.err
  BY <1>2, <1>3, <1>4, <1>5, StatusCycle DEF Same
<1>7. ProgramOps(bufAddr, bufData) # <<>>
  <2>1. Len(ProgramOps(bufAddr, bufData)) = BUF + 4
    BY <1>3, ProgramType
  <2> QED BY <2>1, PromAssumption
<1>8. (pc = "programPoll" => to = "write") /\ (pc = "lastPoll" => to = "openVerify")
  BY DEF to
<1> QED BY <1>1, <1>4, <1>6, <1>7, <1>8

(* The status loop goes on only with a stored buffer. *)
LEMMA WritePolled ==
    ASSUME ControlInv, WriteSafe, bufferedProgramCommand, Clean
    PROVE  WriteSafe'
<1>1. /\ pc \in {"programPoll", "lastPoll"} /\ ops = <<>> /\ UNCHANGED <<tool, torn>>
      /\ UNCHANGED <<address, bufAddr, bufData, bufSize>> /\ flash'.mem = flash.mem
      /\ \/ pc' = pc /\ (ops' # <<>> \/ flash'.busy # "")
         \/ (pc = "programPoll" => pc' = "write") /\ (pc = "lastPoll" => pc' = "openVerify")
  BY ProgramPolled DEF local
<1>2. Programming
  BY <1>1 DEF WriteSafe
<1>3. CASE pc' = pc /\ (ops' # <<>> \/ flash'.busy # "")
  <2>1. Programming'
    BY <1>1, <1>2, <1>3 DEF Programming, Buffer, Target
  <2> QED BY <1>1, <1>3, <2>1 DEF WriteSafe, Aligned, ErasedFrom, Base, Clean
<1>4. CASE pc = "programPoll" /\ pc' = "write"
  <2>1. bufSize = 0 /\ Aligned(address) /\ ErasedFrom(address) /\ \A i \in Slot : bufAddr[i] = address - BUF + i
    BY <1>4 DEF WriteSafe
  <2>2. Base = address /\ Base' = address
    <3>1. address \in Nat /\ address - 0 = address
      BY <2>1 DEF Aligned
    <3>2. Base = address - bufSize /\ Base' = address - bufSize
      BY <1>1 DEF Base
    <3> QED BY <2>1, <3>1, <3>2, Zenon
  <2>3. 0 .. (bufSize - 1) = {} /\ bufSize .. (BUF - 1) = Slot
    BY <2>1 DEF Slot
  <2>4. Filling'
    BY <1>1, <2>1, <2>2, <2>3 DEF Filling, Aligned, ErasedFrom
  <2> QED BY <1>4, <2>4 DEF WriteSafe
<1>5. CASE pc' = "openVerify"
  BY <1>5 DEF WriteSafe
<1> QED BY <1>1, <1>3, <1>4, <1>5

(* A finished program operation. *)
LEMMA ProgramFinished ==
    ASSUME ControlInv, FlashFinish, pc \in {"programPoll", "lastPoll"}
    PROVE  /\ ops = <<>> /\ flash.busy = "program" /\ flash.at = bufAddr[0] /\ flash.slots = Target
           /\ \A a \in Word : Result(flash)[a] = IF a \in Buffer(bufAddr[0])
                                                 THEN And(flash.mem[a], Target[a % BUF]) ELSE flash.mem[a]
<1>1. flash.busy # "" /\ Waiting
  BY DEF FlashFinish, Waiting
<1>2. ops \in Seq(Op) /\ flash.mode # "load"
  BY <1>1 DEF ControlInv, ProgramTypeOK, EraseOk
<1>3. ~(Len(ops) >= BUF + 2) /\ Len(ops) \notin 1 .. (BUF + 1)
  BY <1>1, <1>2 DEF ControlInv, ProgramOk
<1>4. Len(ops) = 0
  <2>1. Len(ops) \in Nat
    BY <1>2
  <2> QED BY <1>3, <2>1, PromAssumption
<1>5. ops = <<>>
  BY <1>2, <1>4
<1>6. flash.busy = "program" /\ flash.at = bufAddr[0] /\ flash.slots = Target
  BY <1>1, <1>5 DEF ControlInv, ProgramOk, Target
<1>7. \A a \in Word : a \in Buffer(bufAddr[0]) <=> a \div BUF = flash.at \div BUF
  BY <1>6 DEF Buffer
<1>8. \A a \in Word : Result(flash)[a] = IF a \div BUF = flash.at \div BUF
                                         THEN And(flash.mem[a], flash.slots[a % BUF]) ELSE flash.mem[a]
  BY <1>6 DEF Result
<1> QED BY <1>5, <1>6, <1>7, <1>8

(* A finished program operation has stored the buffer or left an error, *)
(* and it has not touched any other word.                               *)
LEMMA WriteFinish ==
    ASSUME ControlInv, WriteSafe, FlashFinish, Clean
    PROVE  /\ WriteSafe'
           /\ pc \in {"programPoll", "lastPoll"} =>
                 \A a \in Word : a \notin Buffer(bufAddr[0]) => flash'.mem[a] = flash.mem[a]
<1>1. /\ flash'.busy = "" /\ \/ flash'.mem = Result(flash)
                             \/ flash'.mem = flash.mem /\ "program" \in flash'.err
                             \/ flash.busy # "program"
      /\ UNCHANGED <<tool, torn, pc, ops, address, bufAddr, bufData, bufSize>>
      /\ flash \in FlashType
  <2>1. flash \in FlashType
    BY DEF ControlInv, ProgramTypeOK
  <2> QED BY <2>1, FinishStep DEF local
<1>2. pc # "write"
  BY DEF ControlInv, Settled, AtRest, Waiting, Clean, FlashFinish
<1>3. CASE pc \in {"programPoll", "lastPoll"}
  <2>1. /\ ops = <<>> /\ flash.busy = "program" /\ flash.slots = Target
        /\ \A a \in Word : Result(flash)[a] = IF a \in Buffer(bufAddr[0])
                                              THEN And(flash.mem[a], Target[a % BUF]) ELSE flash.mem[a]
    BY <1>3, ProgramFinished
  <2>2. \A a \in Word : a \notin Buffer(bufAddr[0]) => flash'.mem[a] = flash.mem[a]
    BY <1>1, <2>1
  <2>3. Programming
    BY <1>3 DEF WriteSafe
  <2>4. ASSUME NEW a \in Buffer(bufAddr[0])
        PROVE  And(flash.mem[a], Target[a % BUF]) = Target[a % BUF]
    <3>1. a % BUF \in Slot /\ flash.slots \in [Slot -> FlashWord]
      BY <1>1, WordBlocks, SlotType DEF FlashType, Buffer
    <3>2. Target[a % BUF] \in FlashWord
      BY <2>1, <3>1
    <3>3. flash.mem[a] \in {Ones, Target[a % BUF]}
      BY <2>3 DEF Programming
    <3> QED BY <3>2, <3>3, AndType
  <2>5. Programming'
    <3>1. ASSUME NEW a \in Buffer(bufAddr[0])
          PROVE  /\ flash'.mem[a] \in {Ones, Target[a % BUF]}
                 /\ "program" \notin flash'.err => flash'.mem[a] = Target[a % BUF]
      <4>1. a \in Word /\ Result(flash)[a] = Target[a % BUF]
        BY <2>1, <2>4 DEF Buffer
      <4>2. flash.mem[a] \in {Ones, Target[a % BUF]}
        BY <2>3 DEF Programming
      <4> QED BY <1>1, <2>1, <4>1, <4>2
    <3> QED BY <1>1, <3>1 DEF Programming, Buffer, Target
  <2>6. pc = "programPoll" => ErasedFrom(address)'
    <3> SUFFICES ASSUME pc = "programPoll", NEW a \in Word, a >= address PROVE flash'.mem[a] = Ones
      BY <1>1 DEF ErasedFrom
    <3>1. /\ Aligned(address) /\ address > 0 /\ bufAddr[0] = address - BUF + 0 /\ flash.mem[a] = Ones
      BY PromAssumption DEF WriteSafe, ErasedFrom, Slot
    <3>2. address \in Nat /\ a \in Nat /\ BUF \in Nat \ {0}
      BY <3>1, PromAssumption, WordBlocks DEF Aligned
    <3>3. a \notin Buffer(bufAddr[0])
      <4> DEFINE b == address - BUF
      <4>1. bufAddr[0] = b /\ b + BUF = address
        BY <3>1, <3>2
      <4>2. bufAddr[0] \in Nat
        BY <1>3, AllSet DEF ControlInv, ProgramTypeOK, OpsOk, BufferSet
      <4>3. b \in Nat
        BY <4>1, <4>2
      <4>4. b % BUF = 0
        <5>1. Aligned(b + BUF)
          BY <3>1, <4>1
        <5> HIDE DEF b
        <5> QED BY <4>3, <5>1, AlignedBack
      <4> HIDE DEF b
      <4>5. a \div BUF = b \div BUF => a - b \in Slot
        BY <3>2, <4>3, <4>4, BufferIs DEF Aligned
      <4>6. a - b \notin Slot
        BY <3>2, <4>1, <4>3 DEF Slot
      <4> QED BY <4>1, <4>5, <4>6 DEF Buffer
    <3> QED BY <2>2, <3>1, <3>3
  <2>7. WriteSafe'
    BY <1>1, <1>2, <1>3, <2>5, <2>6 DEF WriteSafe, Aligned, ErasedFrom, Base
  <2> QED BY <2>2, <2>7
<1>4. CASE pc \notin {"programPoll", "lastPoll"}
  BY <1>1, <1>2, <1>4 DEF WriteSafe
<1> QED BY <1>3, <1>4

(* The other steps leave the write pass alone. *)
LEMMA WriteOther ==
    ASSUME ControlInv, WriteSafe, [Next]_vars, ~OpenFile, ~Flash, ~writeWord, ~writeRest, ~bufferedProgramCommand,
           ~FlashFinish
    PROVE  WriteSafe'
<1>1. CASE UNCHANGED vars
  <2>1. UNCHANGED <<flash, tool, torn, pc, ops, address, bufAddr, bufData, bufSize>>
    BY <1>1 DEF vars, local
  <2> QED BY <2>1 DEF WriteSafe, Filling, Programming, Buffer, Target, ErasedFrom, Aligned, Base, Clean
<1>2. CASE Start \/ eraseBootProm \/ eraseCommand \/ writeError \/ verifyStop \/ verifyWord \/ Kill \/ Again
  <2>1. pc' \notin {"write", "programPoll", "lastPoll"}
    BY <1>2 DEF Start, eraseBootProm, eraseCommand, Poll, writeError, verifyStop, Stop, verifyWord,
       Kill, Again, Exit
  <2> QED BY <2>1 DEF WriteSafe
<1> QED BY <1>1, <1>2 DEF Next, Program

(* Every step keeps what the write pass has reached. *)
LEMMA WriteStep ==
    ASSUME ControlInv, EraseSafe, WriteSafe, [Next]_vars
    PROVE  WriteSafe'
<1>1. OpenFile \/ Flash \/ writeWord \/ writeRest \/ bufferedProgramCommand \/ FlashFinish => tool' = tool /\ torn' = torn
  BY DEF OpenFile, Flash, writeWord, writeRest, bufferedProgramCommand, Poll, FlashFinish
<1>2. ~Clean' => WriteSafe'
  BY DEF WriteSafe
<1>3. OpenFile \/ Flash \/ writeWord \/ writeRest \/ bufferedProgramCommand \/ FlashFinish => (Clean' <=> Clean)
  BY <1>1 DEF Clean
<1>4. CASE Flash /\ pc \in {"fileExist", "erase", "erasePoll"}
  BY <1>4 DEF Flash, WriteSafe
<1> QED BY <1>2, <1>3, <1>4, WriteOpen, WriteFlash, WriteWordStep, WriteRestStep, WritePolled, WriteFinish, WriteOther

(* Every program command finds its words erased or already stored. *)
LEMMA OverwriteStep ==
    ASSUME OverwriteInv, [Next]_vars
    PROVE  NoOverwrite'
<1>0. ControlInv /\ EraseSafe /\ WriteSafe /\ NoOverwrite /\ ControlInv' /\ ProgramTypeOK
  BY ControlStep DEF OverwriteInv, ControlInv
<1> SUFFICES ASSUME flash'.busy = "program", ~torn' PROVE NoOverwrite'
  BY DEF NoOverwrite
<1>1. CASE /\ torn' = torn /\ flash'.busy = flash.busy /\ flash'.mem = flash.mem
           /\ flash'.slots = flash.slots /\ flash'.at = flash.at
  BY <1>0, <1>1 DEF NoOverwrite
<1>2. CASE Start
  BY <1>2 DEF Start
<1>3. CASE Flash
  <2>1. /\ ops # <<>> /\ UNCHANGED <<pc, tool, torn>>
    BY <1>3 DEF Flash
  <2>2. CASE tool = "load"
    BY <1>0, <1>3, <2>1, <2>2, EraseFlash, WriteFlash DEF Clean
  <2>3. CASE tool = "verify"
    <3>1. pc = "fileExist"
      BY <1>0, <1>3, <2>1, <2>3 DEF ControlInv, OpsOk, Flash, Running
    <3>2. ~Waiting'
      BY <1>0, <2>1, <2>3, <3>1 DEF ControlInv, Settled, AtRest
    <3> QED BY <3>2 DEF Waiting
  <2> QED BY <1>0, <2>2, <2>3 DEF ProgramTypeOK
<1>4. CASE FlashFinish
  BY <1>0, <1>4, FinishStep
<1>5. CASE eraseCommand
  <2>1. pc = "erasePoll" /\ torn' = torn
    BY <1>5 DEF eraseCommand, Poll
  <2>2. Clean
    BY <1>0, <2>1 DEF ControlInv, OpsOk, Clean
  <2> QED BY <1>0, <1>5, <2>2, ErasePolled
<1>6. CASE bufferedProgramCommand
  BY <1>0, <1>1, <1>6, ProgramPolled
<1>7. CASE verifyWord
  <2>1. /\ pc = "verify" /\ UNCHANGED <<tool, torn>> /\ address \in Nat
        /\ flash' = IF toggle THEN Cycle(flash, address, Cmd("FF")) ELSE flash
    BY <1>0, <1>7 DEF verifyWord, ProgramTypeOK
  <2>2. Quiet(flash)
    BY <1>0, <2>1, QuietNow DEF ControlInv, Settled, AtRest, ProgramTypeOK
  <2>3. flash'.busy = ""
    BY <2>1, <2>2, ArrayCycle DEF Quiet
  <2> QED BY <2>3
<1>8. CASE OpenFile \/ eraseBootProm \/ writeError \/ writeWord \/ writeRest \/ verifyStop \/ Kill \/ Again
  <2>1. flash' = flash /\ torn' = torn
    BY <1>8 DEF OpenFile, eraseBootProm, writeError, writeWord, writeRest, verifyStop, Stop, Kill, Again
  <2> QED BY <1>1, <2>1
<1>9. CASE UNCHANGED vars
  BY <1>1, <1>9 DEF vars
<1> QED BY <1>2, <1>3, <1>4, <1>5, <1>6, <1>7, <1>8, <1>9 DEF Next, Program

(* OverwriteInv holds at first, *)
LEMMA OverwriteInit ==
    ASSUME Init
    PROVE  OverwriteInv
<1>1. EraseSafe /\ WriteSafe /\ NoOverwrite
  BY DEF Init, EraseSafe, WriteSafe, NoOverwrite
<1> QED BY <1>1, ControlInit DEF OverwriteInv

(* and every step keeps it. *)
LEMMA OverwriteKept ==
    ASSUME OverwriteInv, [Next]_vars
    PROVE  OverwriteInv'
BY OverwriteStep, ControlStep, EraseStep, WriteStep DEF OverwriteInv

(* bufferedProgramCommand never asks the flash to turn a 0 into a 1, in a  *)
(* run that found the flash at rest: each word of its buffer is erased, or *)
(* already stored by an attempt that was reported as failed.               *)
THEOREM OverwriteSafe == Spec => []NoOverwrite
<1>1. OverwriteInv => NoOverwrite
  BY DEF OverwriteInv
<1> QED BY <1>1, OverwriteInit, OverwriteKept, PTL DEF Spec

-----------------------------------------------------------------------------
(* A run of xPromLoad with a good file. *)
LEMMA HalfWords ==
    ASSUME NEW n \in Nat, NEW a \in Nat
    PROVE  /\ (n + 1) \div 2 \in Nat
           /\ 2 * a >= n /\ 2 * a <= n + 1 => a = (n + 1) \div 2
           /\ 2 * a + 1 <= n => a + 1 <= (n + 1) \div 2
           /\ 2 * a <= n => a <= (n + 1) \div 2
           /\ n <= 2 * a => (n + 1) \div 2 <= a
           /\ n >= 2 * a => (n + 1) \div 2 >= a
OBVIOUS

(* A good file has a number of words, and all of them fit in the array. *)
LEMMA GoodWords ==
    ASSUME NEW f \in DOMAIN Files, IsGood[f], Len(ImageBytes[f]) \in Nat
    PROVE  /\ Words(f) \in Nat /\ 0 .. (Words(f) - 1) \subseteq Word
           /\ Len(ImageBytes[f]) >= 2 * BUF => Words(f) >= BUF
<1> DEFINE n == Len(ImageBytes[f])
           l == PROM_SIZE \div BlockSize
           s == BlockSize * (l + 1)
           w == (n + 1) \div 2
<1>1. n <= 2 * s
  BY FitAssumption
<1>2. s \in Nat
  <2>1. l \in Nat
    BY PromAssumption, DivMod
  <2> HIDE DEF l
  <2> QED BY <2>1, PromAssumption
<1>3. w \in Nat /\ w <= s /\ (n >= 2 * BUF => w >= BUF)
  <2>1. n \in Nat /\ BUF \in Nat
    BY PromAssumption
  <2> HIDE DEF n, s
  <2> QED BY <1>1, <1>2, <2>1, HalfWords
<1>4. Word = 0 .. (s - 1) /\ Words(f) = w
  BY DEF Word, Words
<1> HIDE DEF n, s, w
<1>5. 0 .. (w - 1) \subseteq 0 .. (s - 1)
  BY <1>2, <1>3
<1> QED BY <1>3, <1>4, <1>5 DEF n

(* A pass over a good file stays within its words and ends with the last *)
(* one.                                                                  *)
LEMMA AddressWords ==
    ASSUME ControlInv, Pass, Reading, IsGood[file]
    PROVE  /\ address \in Nat /\ Words(file) \in Nat /\ address <= Words(file)
           /\ reader.endOfFile => address = Words(file)
<1> DEFINE p == Prefix(file, reader.line)
           q == ImageBytes[file]
           g == Given(file, reader)
<1>1. file \in DOMAIN Files /\ ReaderOk(file, reader) /\ address \in Nat
  BY DEF ControlInv, ProgramTypeOK, ReaderInv
<1>2. /\ g \in Nat /\ g <= Len(p) /\ Len(p) \in Nat /\ Len(q) \in Nat /\ Len(p) <= Len(q)
      /\ reader.endOfFile => p = q /\ g = Len(p)
  BY <1>1, GivenRange, GoodReader DEF Extends
<1>3. /\ ~reader.endOfFile => g = 2 * address + (IF toggle THEN 1 ELSE 0)
      /\ reader.endOfFile => 2 * address >= g /\ 2 * address <= g + 1
  BY DEF Pass
<1> DEFINE n == Len(q)
           m == Len(p)
<1>4. Words(file) = (n + 1) \div 2
  BY DEF Words
<1>5. reader.endOfFile => g = n
  BY <1>2
<1> HIDE DEF p, q, g, n, m
<1>6. n \in Nat /\ m \in Nat /\ g \in Nat /\ g <= m /\ m <= n
  BY <1>2 DEF n, m
<1>7. CASE reader.endOfFile
  <2>1. 2 * address >= n /\ 2 * address <= n + 1
    BY <1>3, <1>5, <1>7
  <2>2. address = (n + 1) \div 2
    BY <1>1, <1>6, <2>1, HalfWords
  <2> QED BY <1>1, <1>4, <2>2
<1>8. CASE ~reader.endOfFile
  <2>1. 2 * address <= n
    BY <1>1, <1>3, <1>6, <1>8
  <2>2. address <= (n + 1) \div 2 /\ (n + 1) \div 2 \in Nat
    BY <1>1, <1>6, <2>1, HalfWords
  <2> QED BY <1>1, <1>4, <1>8, <2>2
<1> QED BY <1>7, <1>8

(* The word that a pass over the file has put together. *)
LEMMA WordRead ==
    ASSUME ControlInv, Pass, Reading, IsGood[file], ~reader.endOfFile, toggle,
           read(file, reader).status >= 0
    PROVE  FullWord(read(file, reader)) = Wd(file, address) /\ address \in 0 .. (Words(file) - 1)
<1> DEFINE x == read(file, reader)
           y == x.reader
           p == Prefix(file, reader.line)
           r == Prefix(file, y.line)
           q == ImageBytes[file]
           g == Given(file, reader)
           h == Given(file, y)
           a == address
<1>1. file \in DOMAIN Files /\ ReaderOk(file, reader) /\ a \in Nat
  BY DEF ControlInv, ProgramTypeOK, ReaderInv
<1>2. g = 2 * a + 1 /\ fileData = p[g] /\ (g > 0 => byte = p[g])
  BY DEF Pass
<1>3. x.status \notin {FAIL, ABORT}
  BY DEF FAIL, ABORT
<1>4. \/ /\ ReaderOk(file, y) /\ h = g + 1 /\ h <= Len(r) /\ x.byte = <<r[h]>>
      \/ /\ ReaderOk(file, y) /\ y.endOfFile /\ h = g /\ r = p /\ h = Len(r) /\ x.byte = <<>>
  BY <1>1, <1>3, ReadStep
<1>5. /\ Extends(p, q) /\ Extends(r, q) /\ g \in Nat /\ g <= Len(p) /\ Len(p) \in Nat /\ Len(r) \in Nat /\ Len(q) \in Nat
      /\ y.endOfFile => r = q
  BY <1>1, <1>4, GivenRange, GoodReader
<1>6. FullWord(x) = <<fileData, IF x.byte = <<>> THEN byte ELSE x.byte[1]>>
  BY DEF FullWord
<1>7. Wd(file, a) = <<q[2 * a + 1], IF 2 * a + 2 <= Len(q) THEN q[2 * a + 2] ELSE q[Len(q)]>>
  BY DEF Wd
<1>8. Words(file) = (Len(q) + 1) \div 2
  BY DEF Words
<1> HIDE DEF x, y, p, q, r, g, h
<1>9. g \in 1 .. Len(p) /\ Len(p) <= Len(q) /\ q[g] = p[g]
  <2>1. g \in 1 .. Len(p)
    BY <1>1, <1>2, <1>5
  <2> QED BY <1>5, <2>1 DEF Extends
<1>10. a \in 0 .. (Words(file) - 1)
  <2> DEFINE n == Len(q)
             m == Len(p)
  <2>1. n \in Nat /\ m \in Nat /\ g <= m /\ m <= n
    BY <1>5, <1>9
  <2> HIDE DEF n, m
  <2>2. 2 * a + 1 <= n
    BY <1>1, <1>2, <2>1
  <2>3. a + 1 <= (n + 1) \div 2 /\ (n + 1) \div 2 \in Nat
    BY <1>1, <2>1, <2>2, HalfWords
  <2>4. Words(file) = (n + 1) \div 2
    BY <1>8 DEF n
  <2> QED BY <1>1, <2>3, <2>4
<1>11. CASE h = g + 1 /\ h <= Len(r) /\ x.byte = <<r[h]>>
  <2>1. h = 2 * a + 2 /\ h \in 1 .. Len(r) /\ Len(r) <= Len(q) /\ h <= Len(q)
    <3>1. Len(r) <= Len(q)
      BY <1>5 DEF Extends
    <3> QED BY <1>1, <1>2, <1>5, <1>11, <3>1
  <2>2. q[h] = r[h]
    BY <1>5, <2>1 DEF Extends
  <2>3. FullWord(x) = <<p[g], r[h]>>
    <3>1. <<r[h]>> # <<>> /\ <<r[h]>>[1] = r[h]
      OBVIOUS
    <3> QED BY <1>2, <1>6, <1>11, <3>1
  <2>4. Wd(file, a) = <<q[g], q[h]>>
    <3>1. 2 * a + 2 <= Len(q)
      BY <2>1
    <3> QED BY <1>2, <1>7, <2>1, <3>1
  <2>5. FullWord(x) = Wd(file, a)
    BY <1>9, <2>2, <2>3, <2>4, Zenon
  <2> QED BY <1>10, <2>5 DEF x
<1>12. CASE y.endOfFile /\ h = g /\ r = p /\ h = Len(r) /\ x.byte = <<>>
  <2>1. g > 0 /\ ~(2 * a + 2 <= Len(q)) /\ Len(q) = g
    <3>1. Len(q) = g
      BY <1>5, <1>12
    <3> QED BY <1>1, <1>2, <3>1
  <2>2. FullWord(x) = <<p[g], p[g]>>
    BY <1>2, <1>6, <1>12, <2>1
  <2>3. Wd(file, a) = <<q[g], q[g]>>
    BY <1>2, <1>7, <2>1
  <2>4. FullWord(x) = Wd(file, a)
    BY <1>9, <2>2, <2>3, Zenon
  <2> QED BY <1>10, <2>4 DEF x
<1> QED BY <1>4, <1>11, <1>12

(* A step that changes neither the array nor the buffer, nor where the     *)
(* program is, keeps what a good run has reached.                          *)
LEMMA RecoverKept ==
    ASSUME RecoverOk, UNCHANGED <<file, present, tool, torn, pc, address, bufAddr, bufData, bufSize>>,
           flash'.mem = flash.mem
    PROVE  RecoverOk'
BY DEF RecoverOk, GoodRun, Clean, Written, Held, Base

(* Only a good run has something to keep. *)
LEMMA RunKept ==
    /\ UNCHANGED <<file, tool, torn>> => (GoodRun' <=> GoodRun)
    /\ ~GoodRun' => RecoverOk'
    /\ pc' \in {"off", "fileExist", "erase", "erasePoll", "openWrite", "exit0"} => RecoverOk'
<1>1. UNCHANGED <<file, tool, torn>> => (GoodRun' <=> GoodRun)
  BY DEF GoodRun, Clean
<1>2. (~GoodRun' \/ pc' \in {"off", "fileExist", "erase", "erasePoll", "openWrite", "exit0"}) => RecoverOk'
  BY DEF RecoverOk
<1> QED BY <1>1, <1>2

(* The buffer before an aligned address that is not 0. *)
LEMMA BufferBefore ==
    ASSUME NEW b, Aligned(b), b > 0
    PROVE  b - BUF \in Nat /\ Aligned(b - BUF) /\ (b - BUF) + BUF = b
<1>1. b \in Nat /\ BUF \in Nat \ {0} /\ b % BUF = 0
  BY PromAssumption DEF Aligned
<1>2. b >= BUF
  <2> SUFFICES ASSUME ~(b >= BUF) PROVE FALSE
    OBVIOUS
  <2>1. 0 \in Nat /\ b \in 0 .. (BUF - 1) /\ BUF * 0 + b = b
    BY <1>1
  <2>2. (BUF * 0 + b) % BUF = b
    BY <1>1, <2>1, DivUnique
  <2>3. b % BUF = b
    BY <2>1, <2>2, Zenon
  <2> QED BY <1>1, <2>3
<1> DEFINE d == b - BUF
<1>3. d \in Nat /\ d + BUF = b
  BY <1>1, <1>2
<1> HIDE DEF d
<1>4. d % BUF = 0
  <2>1. Aligned(d + BUF)
    BY <1>3
  <2> QED BY <1>3, <2>1, AlignedBack
<1> QED BY <1>3, <1>4 DEF d, Aligned

(* A good run puts the words of the file into the buffer, *)
LEMMA RecoverWord ==
    ASSUME RecoverInv, writeWord, GoodRun
    PROVE  RecoverOk'
<1> DEFINE n == bufSize
           b == Base
<1>1. /\ ControlInv /\ WriteSafe /\ Pass /\ RecoverOk /\ ProgramTypeOK /\ Clean /\ IsGood[file]
      /\ pc = "write" /\ Reading /\ ~reader.endOfFile /\ read(file, reader).status >= 0
      /\ UNCHANGED <<flash, file, present, tool, torn>>
  BY DEF RecoverInv, OverwriteInv, ControlInv, GoodRun, writeWord, Reading
<1>2. Written(b) /\ Held(n, b)
  BY <1>1 DEF RecoverOk
<1>3. CASE ~toggle
  <2>1. UNCHANGED <<address, bufAddr, bufData, bufSize, pc>>
    BY <1>3 DEF writeWord
  <2> QED BY <1>1, <2>1, RecoverKept
<1>4. CASE toggle
  <2>1. /\ b \in Nat /\ address = b + n
        /\ n + 1 # BUF => Base' = b /\ bufSize' = n + 1 /\ pc' = "write"
        /\ n + 1 = BUF => address' = b + BUF /\ bufSize' = 0 /\ pc' = "programPoll"
        /\ \A i \in 0 .. n : i \in Slot
        /\ \A i \in Slot : i # n => bufData'[i] = bufData[i]
        /\ bufData'[n] = FullWord(read(file, reader))
    BY <1>1, <1>4, FillNext
  <2>2. n \in Nat /\ BUF \in Nat \ {0}
    BY <1>1, BufferFits
  <2>3. bufData'[n] = Wd(file, b + n)
    BY <1>1, <1>4, <2>1, WordRead
  <2>4. ASSUME NEW i \in 0 .. n
        PROVE  bufData'[i] = Wd(file, b + i)
    <3>1. CASE i = n
      BY <2>3, <3>1
    <3>2. CASE i # n
      <4>1. i \in 0 .. (n - 1)
        <5> HIDE DEF n
        <5> QED BY <2>2, <3>2
      <4> QED BY <1>2, <2>1, <3>2, <4>1 DEF Held
    <3> QED BY <3>1, <3>2
  <2>5. \A j \in 0 .. (b - 1) : flash'.mem[j] = Wd(file', j)
    BY <1>1, <1>2 DEF Written
  <2>6. CASE n + 1 # BUF
    <3>1. bufSize' - 1 = n
      <4> HIDE DEF n
      <4> QED BY <2>1, <2>2, <2>6
    <3>2. (Written(Base) /\ Held(bufSize, Base))'
      BY <1>1, <2>1, <2>4, <2>5, <2>6, <3>1 DEF Written, Held
    <3> QED BY <2>1, <2>6, <3>2 DEF RecoverOk
  <2>7. CASE n + 1 = BUF
    <3>1. BUF - 1 = n /\ address' - BUF = b
      <4> HIDE DEF n, b
      <4> QED BY <2>1, <2>2, <2>7
    <3>2. (Written(address - BUF) /\ Held(BUF, address - BUF))'
      BY <1>1, <2>4, <2>5, <3>1 DEF Written, Held
    <3> QED BY <2>1, <2>7, <3>2 DEF RecoverOk
  <2> QED BY <2>6, <2>7
<1> QED BY <1>3, <1>4

(* and at its end has the words that are left in the last one, which still *)
(* has an address for every entry because a buffer was filled before it.   *)
LEMMA RecoverRest ==
    ASSUME RecoverInv, writeRest, GoodRun
    PROVE  RecoverOk'
<1> DEFINE n == bufSize
           b == Base
           w == Words(file)
<1>1. /\ ControlInv /\ WriteSafe /\ Pass /\ RecoverOk /\ ProgramTypeOK /\ Clean /\ IsGood[file]
      /\ pc = "write" /\ Reading /\ reader.endOfFile /\ ReaderOk(file, reader) /\ file \in DOMAIN Files
      /\ UNCHANGED <<flash, file, present, tool, torn, address, bufSize>>
  BY DEF RecoverInv, OverwriteInv, ControlInv, ReaderInv, ProgramTypeOK, GoodRun, writeRest, Reading
<1>2. Written(b) /\ Held(n, b)
  BY <1>1 DEF RecoverOk
<1>3. address = w /\ w \in Nat
  BY <1>1, AddressWords
<1>4. /\ Filling /\ n \in Nat /\ n < BUF /\ BUF \in Nat \ {0} /\ b = address - n
      /\ bufAddr \in [Slot -> Nat \cup {UNSET}] /\ bufData \in [Slot -> FlashWord]
  BY <1>1, BufferFits DEF WriteSafe, Base, ProgramTypeOK
<1>5. w >= BUF
  <2>1. Len(ImageBytes[file]) \in Nat /\ Len(ImageBytes[file]) >= 2 * BUF
    BY <1>1, GoodReader DEF GoodRun
  <2> QED BY <1>1, <2>1, GoodWords
<1>6. CASE n = 0
  <2>1. pc' = "openVerify"
    BY <1>6 DEF writeRest
  <2>2. b = w
    <3> HIDE DEF b, n, w
    <3> QED BY <1>3, <1>4, <1>6
  <2>3. Written(Words(file))'
    BY <1>1, <1>2, <2>2 DEF Written
  <2> QED BY <2>1, <2>3 DEF RecoverOk
<1>7. CASE n # 0
  <2>1. PICK a \in {0, BUF - 1}, v \in {<<0, 0>>, Ones} :
            /\ bufAddr' = [i \in Slot |-> IF bufAddr[i] = UNSET THEN a ELSE bufAddr[i]]
            /\ bufData' = [i \in Slot |-> IF i = bufSize THEN Ones
                                          ELSE IF bufAddr[i] = UNSET THEN v ELSE bufData[i]]
    BY <1>7 DEF writeRest
  <2>2. pc' = "lastPoll"
    BY <1>7 DEF writeRest
  <2>3. Aligned(b) /\ b \in Nat /\ \A i \in 0 .. (n - 1) : bufAddr[i] = b + i
    BY <1>4 DEF Filling, Aligned
  <2>4. b > 0
    <3> HIDE DEF b, n, w
    <3> QED BY <1>3, <1>4, <1>5, <2>3
  <2>5. \A i \in n .. (BUF - 1) : bufAddr[i] = b - BUF + i
    BY <1>4, <2>4 DEF Filling
  <2>6. /\ 0 .. (n - 1) \subseteq Slot /\ n .. (BUF - 1) \subseteq Slot
        /\ \A i \in Slot : i \in Nat /\ (i \in 0 .. (n - 1) \/ i \in n .. (BUF - 1))
    BY <1>1, BufferFits
  <2>7. b - BUF \in Nat /\ Aligned(b - BUF)
    BY <2>3, <2>4, BufferBefore
  <2>8. ASSUME NEW i \in Slot
        PROVE  bufAddr[i] # UNSET /\ bufAddr[i] % BUF = i
    <3>1. CASE i \in 0 .. (n - 1)
      <4>1. bufAddr[i] = b + i /\ (b + i) % BUF = i
        BY <2>3, <3>1, BufferIs
      <4>2. b + i # UNSET
        <5>1. i \in Nat
          BY <2>6
        <5> HIDE DEF b
        <5> QED BY <2>3, <5>1 DEF UNSET
      <4> QED BY <4>1, <4>2
    <3>2. CASE i \in n .. (BUF - 1)
      <4> DEFINE d == b - BUF
      <4>1. bufAddr[i] = d + i
        BY <2>5, <3>2
      <4>2. d \in Nat /\ Aligned(d)
        BY <2>7
      <4> HIDE DEF d
      <4>3. (d + i) % BUF = i
        BY <4>2, BufferIs
      <4>4. d + i # UNSET
        BY <2>6, <4>2 DEF UNSET
      <4> QED BY <4>1, <4>3, <4>4
    <3> QED BY <2>6, <3>1, <3>2
  <2>9. \A i \in Slot : bufAddr'[i] = bufAddr[i] /\ (i # n => bufData'[i] = bufData[i])
    BY <2>1, <2>8
  <2>10. \A i \in 0 .. (n - 1) : i # n
    <3> HIDE DEF n
    <3> QED BY <1>4
  <2>11. Base' = b
    BY <1>1 DEF Base
  <2>12. (Written(Base) /\ Held(bufSize, Base))'
    BY <1>1, <1>2, <2>6, <2>9, <2>10, <2>11 DEF Written, Held
  <2>13. (address = Words(file) /\ \A i \in Slot : bufAddr[i] % BUF = i)'
    BY <1>1, <1>3, <2>8, <2>9
  <2> QED BY <2>2, <2>12, <2>13 DEF RecoverOk
<1> QED BY <1>6, <1>7

(* When a program command has succeeded, the flash holds the words that    *)
(* the buffer had.                                                         *)
LEMMA RecoverBuffer ==
    ASSUME NEW b, Aligned(b), bufAddr[0] = b, bufAddr \in Addresses, bufData \in [Slot -> FlashWord],
           \A i \in Slot : bufAddr[i] % BUF = i,
           NEW n \in Nat, n <= BUF, Written(b), Held(n, b), 0 .. ((b + n) - 1) \subseteq Word,
           \A a \in Buffer(bufAddr[0]) : flash.mem[a] = Target[a % BUF]
    PROVE  Written(b + n)
<1>1. b \in Nat /\ BUF \in Nat \ {0}
  BY PromAssumption DEF Aligned
<1> SUFFICES ASSUME NEW j \in 0 .. ((b + n) - 1) PROVE flash.mem[j] = Wd(file, j)
  BY DEF Written
<1>2. j \in Word /\ j \in Nat
  BY <1>1
<1>3. CASE j < b
  <2>1. j \in 0 .. (b - 1)
    BY <1>1, <1>2, <1>3
  <2> QED BY <2>1 DEF Written
<1>4. CASE ~(j < b)
  <2> DEFINE i == j - b
  <2>1. i \in 0 .. (n - 1) /\ i \in Slot /\ b + i = j
    BY <1>1, <1>2, <1>4 DEF Slot
  <2> HIDE DEF i
  <2>2. (b + i) \div BUF = b \div BUF /\ (b + i) % BUF = i
    BY <2>1, BufferIs
  <2>3. j \div BUF = b \div BUF /\ j % BUF = i
    BY <2>1, <2>2, Zenon
  <2>4. flash.mem[j] = Target[i]
    BY <1>2, <2>3 DEF Buffer
  <2>5. Target[i] = bufData[i]
    BY <2>1, LoadedEach DEF Target
  <2>6. bufData[i] = Wd(file, b + i)
    BY <2>1 DEF Held
  <2>7. Wd(file, b + i) = Wd(file, j)
    BY <2>1, Zenon
  <2> QED BY <2>4, <2>5, <2>6, <2>7, Zenon
<1> QED BY <1>3, <1>4

(* The status loop leaves a buffer only when it is stored. *)
LEMMA RecoverPolled ==
    ASSUME RecoverInv, bufferedProgramCommand, GoodRun
    PROVE  RecoverOk'
<1>1. /\ ControlInv /\ WriteSafe /\ Pass /\ RecoverOk /\ ProgramTypeOK /\ Clean /\ IsGood[file]
      /\ file \in DOMAIN Files /\ bufAddr \in [Slot -> Nat \cup {UNSET}] /\ bufData \in [Slot -> FlashWord]
  BY DEF RecoverInv, OverwriteInv, ControlInv, ProgramTypeOK, GoodRun
<1>2. /\ pc \in {"programPoll", "lastPoll"} /\ ops = <<>>
      /\ UNCHANGED <<address, bufAddr, bufData, bufSize, tool, torn, file, present>> /\ flash'.mem = flash.mem
      /\ \/ pc' = pc
         \/ /\ pc = "programPoll" => pc' = "write"
            /\ pc = "lastPoll" => pc' = "openVerify"
            /\ flash.busy = "" /\ "program" \notin flash.err
  BY <1>1, ProgramPolled DEF local
<1>3. CASE pc' = pc
  BY <1>1, <1>2, <1>3, RecoverKept
<1>4. CASE pc' # pc
  <2>1. \A a \in Buffer(bufAddr[0]) : flash.mem[a] = Target[a % BUF]
    BY <1>1, <1>2, <1>4 DEF WriteSafe, Programming
  <2>2. bufAddr \in Addresses
    BY <1>1, <1>2, AllSet DEF ControlInv, OpsOk, BufferSet
  <2>3. Reading /\ ReaderOk(file, reader)
    BY <1>1, <1>2 DEF Reading, ControlInv, ReaderInv
  <2>4. address \in Nat /\ Words(file) \in Nat /\ address <= Words(file)
    BY <1>1, <2>3, AddressWords
  <2>5. 0 .. (Words(file) - 1) \subseteq Word
    <3>1. Len(ImageBytes[file]) \in Nat
      BY <1>1, <2>3, GoodReader
    <3> QED BY <1>1, <3>1, GoodWords
  <2>6. BUF \in Nat \ {0} /\ 0 \in Slot
    BY <1>1, BufferFits
  <2>7. CASE pc = "programPoll"
    <3> DEFINE b == address - BUF
    <3>1. /\ bufSize = 0 /\ Aligned(address) /\ address > 0 /\ \A i \in Slot : bufAddr[i] = b + i
          /\ Written(b) /\ Held(BUF, b)
      BY <1>1, <2>7 DEF WriteSafe, RecoverOk
    <3>2. b \in Nat /\ Aligned(b) /\ b + BUF = address
      BY <3>1, BufferBefore
    <3> HIDE DEF b
    <3>3. bufAddr[0] = b
      BY <2>6, <3>1, <3>2
    <3>4. \A i \in Slot : bufAddr[i] % BUF = i
      BY <3>1, <3>2, BufferIs
    <3>5. 0 .. ((b + BUF) - 1) \subseteq Word
      BY <2>4, <2>5, <3>2
    <3>6. Written(b + BUF)
      BY <1>1, <2>1, <2>2, <2>6, <3>1, <3>2, <3>3, <3>4, <3>5, RecoverBuffer
    <3>7. Base' = address /\ bufSize' = 0
      <4>1. address - 0 = address
        BY <2>4
      <4>2. Base' = address - bufSize
        BY <1>2 DEF Base
      <4> QED BY <1>2, <3>1, <4>1, <4>2, Zenon
    <3>8. (Written(Base) /\ Held(bufSize, Base))'
      <4>1. \A j \in 0 .. (address - 1) : flash'.mem[j] = Wd(file', j)
        BY <1>2, <3>2, <3>6 DEF Written
      <4>2. Written(Base)'
        BY <3>7, <4>1 DEF Written
      <4>3. \A i \in 0 .. (0 - 1) : FALSE
        OBVIOUS
      <4>4. Held(bufSize, Base)'
        BY <3>7, <4>3 DEF Held
      <4> QED BY <4>2, <4>4
    <3>9. pc' = "write"
      BY <1>2, <1>4, <2>7
    <3> QED BY <3>8, <3>9 DEF RecoverOk
  <2>8. CASE pc = "lastPoll"
    <3> DEFINE b == Base
               n == bufSize
               w == Words(file)
    <3>1. /\ Aligned(b) /\ bufAddr[0] = b /\ Written(b) /\ Held(n, b) /\ address = w
          /\ \A i \in Slot : bufAddr[i] % BUF = i
      BY <1>1, <2>8 DEF WriteSafe, RecoverOk
    <3>2. n \in Nat /\ n <= BUF /\ b = address - n /\ b \in Nat
      <4>1. n \in Nat /\ n < BUF
        BY <1>1, BufferFits
      <4>2. b = address - n /\ b \in Nat
        BY <3>1 DEF Base, Aligned
      <4> HIDE DEF n, b
      <4> QED BY <2>6, <4>1, <4>2
    <3> HIDE DEF b, n, w
    <3>3. b + n = w
      BY <2>4, <3>1, <3>2
    <3>4. 0 .. ((b + n) - 1) \subseteq Word
      BY <2>5, <3>3 DEF w
    <3>5. Written(b + n)
      BY <1>1, <2>1, <2>2, <3>1, <3>2, <3>4, RecoverBuffer
    <3>6. Written(Words(file))'
      BY <1>2, <3>3, <3>5 DEF Written, w
    <3>7. pc' = "openVerify"
      BY <1>2, <1>4, <2>8
    <3> QED BY <3>6, <3>7 DEF RecoverOk
  <2> QED BY <1>2, <2>7, <2>8
<1> QED BY <1>3, <1>4

(* The flash finishes a program operation: the buffers before stay. *)
LEMMA RecoverFinish ==
    ASSUME RecoverInv, FlashFinish, GoodRun
    PROVE  RecoverOk'
<1>1. /\ ControlInv /\ WriteSafe /\ Pass /\ RecoverOk /\ ProgramTypeOK /\ Clean /\ IsGood[file] /\ file \in DOMAIN Files
      /\ UNCHANGED <<file, present, tool, torn, pc, address, bufAddr, bufData, bufSize>> /\ Waiting
  BY DEF RecoverInv, OverwriteInv, ControlInv, ProgramTypeOK, GoodRun, FlashFinish, local, Waiting
<1>2. pc \notin {"write", "openVerify", "verify"}
  BY <1>1 DEF ControlInv, Settled, AtRest, Clean
<1>3. CASE pc \in {"exit1", "abort"}
  <2>1. ~present
    BY <1>1, <1>3 DEF RecoverOk
  <2> QED BY <1>1, <1>3, <2>1 DEF RecoverOk
<1>4. CASE pc \in {"programPoll", "lastPoll"}
  <2>1. \A a \in Word : a \notin Buffer(bufAddr[0]) => flash'.mem[a] = flash.mem[a]
    BY <1>1, <1>4, WriteFinish
  <2>2. Reading /\ ReaderOk(file, reader)
    BY <1>1, <1>4 DEF Reading, ControlInv, ReaderInv
  <2>3. address \in Nat /\ Words(file) \in Nat /\ address <= Words(file)
    BY <1>1, <2>2, AddressWords
  <2>4. 0 .. (Words(file) - 1) \subseteq Word
    <3>1. Len(ImageBytes[file]) \in Nat
      BY <1>1, <2>2, GoodReader
    <3> QED BY <1>1, <3>1, GoodWords
  <2>5. BUF \in Nat \ {0} /\ 0 \in Slot /\ bufSize \in Nat
    BY <1>1, BufferFits
  <2>6. ASSUME NEW b, Aligned(b), bufAddr[0] = b, b <= address, Written(b)
        PROVE  \A j \in 0 .. (b - 1) : flash'.mem[j] = Wd(file', j)
    <3> SUFFICES ASSUME NEW j \in 0 .. (b - 1) PROVE flash'.mem[j] = Wd(file', j)
      OBVIOUS
    <3>1. b \in Nat
      BY <2>6 DEF Aligned
    <3>2. j \in Nat /\ ~(j >= b) /\ j \in Word
      BY <2>3, <2>4, <2>6, <3>1
    <3>3. j \notin Buffer(bufAddr[0])
      BY <2>6, <3>2, BufferIs DEF Buffer
    <3>4. flash.mem[j] = Wd(file, j)
      BY <2>6 DEF Written
    <3> QED BY <1>1, <2>1, <3>2, <3>3, <3>4
  <2>7. CASE pc = "programPoll"
    <3> DEFINE b == address - BUF
    <3>1. /\ Aligned(address) /\ address > 0 /\ bufAddr[0] = b + 0 /\ Written(b) /\ Held(BUF, b)
      BY <1>1, <2>5, <2>7 DEF WriteSafe, RecoverOk
    <3>2. b \in Nat /\ Aligned(b) /\ b + BUF = address
      BY <3>1, BufferBefore
    <3>3. b' = b
      BY <1>1
    <3>4. (Held(BUF, address - BUF))'
      BY <1>1, <3>1 DEF Held
    <3> HIDE DEF b
    <3>5. bufAddr[0] = b /\ b <= address
      BY <2>5, <3>1, <3>2
    <3>6. \A j \in 0 .. (b - 1) : flash'.mem[j] = Wd(file', j)
      BY <2>6, <3>1, <3>2, <3>5
    <3>7. (Written(address - BUF))'
      BY <1>1, <3>6 DEF Written, b
    <3> QED BY <1>1, <2>7, <3>4, <3>7 DEF RecoverOk
  <2>8. CASE pc = "lastPoll"
    <3> DEFINE b == Base
    <3>1. /\ Aligned(b) /\ bufAddr[0] = b /\ Written(b) /\ Held(bufSize, b) /\ address = Words(file)
          /\ \A i \in Slot : bufAddr[i] % BUF = i
      BY <1>1, <2>8 DEF WriteSafe, RecoverOk
    <3>2. b = address - bufSize /\ Base' = b
      BY <1>1 DEF Base
    <3>3. (Held(bufSize, Base) /\ address = Words(file) /\ \A i \in Slot : bufAddr[i] % BUF = i)'
      BY <1>1, <3>1, <3>2 DEF Held
    <3> HIDE DEF b
    <3>4. b <= address
      BY <2>3, <2>5, <3>2
    <3>5. \A j \in 0 .. (b - 1) : flash'.mem[j] = Wd(file', j)
      BY <2>6, <3>1, <3>4
    <3>6. Written(Base)'
      BY <3>2, <3>5 DEF Written
    <3> QED BY <1>1, <2>8, <3>3, <3>6 DEF RecoverOk
  <2> QED BY <1>4, <2>7, <2>8
<1>5. CASE pc \notin {"exit1", "abort", "programPoll", "lastPoll"}
  BY <1>1, <1>2, <1>5 DEF RecoverOk
<1> QED BY <1>3, <1>4, <1>5

(* The verify pass of a good run finds every word. *)
LEMMA RecoverVerify ==
    ASSUME RecoverInv, verifyWord, GoodRun
    PROVE  RecoverOk'
<1> DEFINE x == read(file, reader)
           f == Cycle(flash, address, Cmd("FF"))
<1>1. /\ ControlInv /\ Pass /\ RecoverOk /\ ProgramTypeOK /\ Clean /\ IsGood[file] /\ address \in Nat
      /\ pc = "verify" /\ Reading /\ ~reader.endOfFile /\ x.status >= 0
      /\ flash' = IF toggle THEN f ELSE flash
      /\ pc' = IF toggle /\ Differs(ReadWord(f, address), FullWord(x)) THEN "exit1" ELSE pc
      /\ UNCHANGED <<file, present, tool, torn>>
  BY DEF RecoverInv, OverwriteInv, ControlInv, ProgramTypeOK, GoodRun, verifyWord, Reading
<1>2. Written(Words(file))
  BY <1>1 DEF RecoverOk
<1>3. Quiet(flash)
  BY <1>1, QuietNow DEF ControlInv, Settled, AtRest, Clean
<1>4. ReadWord(f, address) = flash.mem[address] /\ f.mem = flash.mem
  BY <1>1, <1>3, ArrayCycle DEF Same
<1>5. toggle => FullWord(x) = flash.mem[address]
  <2> SUFFICES ASSUME toggle PROVE FullWord(x) = flash.mem[address]
    OBVIOUS
  <2>1. FullWord(x) = Wd(file, address) /\ address \in 0 .. (Words(file) - 1)
    BY <1>1, WordRead
  <2> QED BY <1>2, <2>1 DEF Written
<1>6. pc' = "verify" /\ flash'.mem = flash.mem
  BY <1>1, <1>4, <1>5 DEF Differs
<1>7. Written(Words(file))'
  BY <1>1, <1>2, <1>6 DEF Written
<1> QED BY <1>6, <1>7 DEF RecoverOk

(* A good file has no line that stops the program. *)
LEMMA RecoverStop ==
    ASSUME RecoverInv, writeError \/ verifyStop, GoodRun
    PROVE  RecoverOk'
<1>1. /\ ControlInv /\ IsGood[file] /\ file \in DOMAIN Files /\ pc \in {"write", "verify"}
  BY DEF RecoverInv, OverwriteInv, ControlInv, ProgramTypeOK, GoodRun, writeError, verifyStop
<1>2. ReaderOk(file, reader)
  BY <1>1 DEF ControlInv, ReaderInv, Reading
<1>3. ~reader.endOfFile => read(file, reader).status \notin {FAIL, ABORT}
  BY <1>1, <1>2, GoodReader DEF DATA, EOF, FAIL, ABORT
<1>4. pc' = "exit0"
  BY <1>3 DEF writeError, verifyStop, Stop
<1> QED BY <1>4, RunKept

(* A pass starts from what the pass before it has left. *)
LEMMA RecoverOpen ==
    ASSUME RecoverInv, OpenFile, GoodRun
    PROVE  RecoverOk'
<1>1. /\ RecoverOk /\ Clean /\ UNCHANGED <<flash, file, tool, torn>>
  BY DEF RecoverInv, GoodRun, OpenFile
<1>2. CASE ~present'
  <2>1. pc' \in {"exit0", "exit1"}
    BY <1>2 DEF OpenFile
  <2> QED BY <1>2, <2>1 DEF RecoverOk
<1>3. CASE present' /\ pc = "fileExist"
  <2>1. pc' = "erase"
    BY <1>1, <1>3 DEF OpenFile, Clean
  <2> QED BY <2>1, RunKept
<1>4. CASE present' /\ pc = "openWrite"
  <2>1. pc' = "write" /\ address' = 0 /\ bufSize' = 0
    BY <1>4 DEF OpenFile
  <2>2. Base' = 0
    BY <2>1 DEF Base
  <2>3. (Written(Base) /\ Held(bufSize, Base))'
    BY <2>1, <2>2 DEF Written, Held
  <2> QED BY <2>1, <2>3 DEF RecoverOk
<1>5. CASE present' /\ pc = "openVerify"
  <2>1. pc' = "verify"
    BY <1>5 DEF OpenFile
  <2>2. Written(Words(file))
    BY <1>1, <1>5 DEF RecoverOk
  <2>3. Written(Words(file))'
    BY <1>1, <2>2 DEF Written
  <2> QED BY <2>1, <2>3 DEF RecoverOk
<1> QED BY <1>2, <1>3, <1>4, <1>5 DEF OpenFile

(* Accesses to the flash leave what was written alone. *)
LEMMA RecoverFlash ==
    ASSUME RecoverInv, Flash
    PROVE  RecoverOk'
<1>1. /\ ControlInv /\ RecoverOk /\ ops # <<>> /\ pc \in Running
      /\ UNCHANGED <<file, present, tool, torn, pc, address, bufAddr, bufData, bufSize>>
  BY DEF RecoverInv, OverwriteInv, Flash, local
<1>2. CASE pc \in {"fileExist", "erase", "erasePoll"}
  BY <1>1, <1>2, RunKept
<1>3. CASE pc \in {"write", "openVerify"}
  BY <1>1, <1>3, ControlFlashLock, RecoverKept
<1>4. CASE pc \in {"programPoll", "lastPoll"}
  BY <1>1, <1>4, ControlFlashProgram, RecoverKept
<1>5. pc \notin {"openWrite", "verify"}
  BY <1>1 DEF ControlInv, OpsOk
<1> QED BY <1>1, <1>2, <1>3, <1>4, <1>5 DEF Running

(* Every step keeps what a good run has reached. *)
LEMMA RecoverStep ==
    ASSUME RecoverInv, [Next]_vars
    PROVE  RecoverOk'
<1>1. CASE OpenFile \/ writeWord \/ writeRest \/ writeError \/ verifyStop \/ verifyWord
           \/ bufferedProgramCommand \/ FlashFinish
  <2>1. UNCHANGED <<file, tool, torn>>
    BY <1>1 DEF OpenFile, writeWord, writeRest, writeError, verifyStop, Stop, verifyWord,
       bufferedProgramCommand, Poll, FlashFinish
  <2>2. CASE GoodRun
    BY <1>1, <2>2, RecoverOpen, RecoverWord, RecoverRest, RecoverStop, RecoverVerify, RecoverPolled, RecoverFinish
  <2> QED BY <2>1, <2>2, RunKept
<1>2. CASE Flash
  BY <1>2, RecoverFlash
<1>3. CASE Start \/ eraseBootProm \/ eraseCommand \/ Kill \/ Again
  <2>1. pc' \in {"off", "fileExist", "erase", "erasePoll", "openWrite"}
    BY <1>3 DEF Start, eraseBootProm, eraseCommand, Poll, Kill, Again, Exit
  <2> QED BY <2>1, RunKept
<1>4. CASE UNCHANGED vars
  <2>1. UNCHANGED <<flash, file, present, tool, torn, pc, address, bufAddr, bufData, bufSize>> /\ RecoverOk
    BY <1>4 DEF vars, local, RecoverInv
  <2> QED BY <2>1, RecoverKept
<1> QED BY <1>1, <1>2, <1>3, <1>4 DEF Next, Program

(* RunRecovers holds for every flash, every set of files and any number of *)
(* kills and failures: a run of xPromLoad with a good file of at least one *)
(* buffer, started on a flash at rest, does not end with an error.         *)
THEOREM RecoverSafe == Spec => []RunRecovers
<1>1. Init => RecoverInv
  <2>1. Init => Pass /\ RecoverOk
    BY DEF Init, Pass, Reading, RecoverOk
  <2> QED BY <2>1, OverwriteInit DEF RecoverInv
<1>2. RecoverInv /\ [Next]_vars => RecoverInv'
  <2> SUFFICES ASSUME RecoverInv, [Next]_vars PROVE RecoverInv'
    OBVIOUS
  <2>1. OverwriteInv' /\ Pass'
    BY OverwriteKept, PassStep DEF RecoverInv, OverwriteInv
  <2>2. RecoverOk'
    BY RecoverStep
  <2> QED BY <2>1, <2>2 DEF RecoverInv
<1>3. RecoverInv => RunRecovers
  <2> SUFFICES ASSUME RecoverInv, pc \in {"exit1", "abort"}, tool = "load", present, ~torn, IsGood[file],
                      ~(Len(ImageBytes[file]) < 2 * BUF)
               PROVE  FALSE
    BY DEF RunRecovers
  <2>1. Len(ImageBytes[file]) \in Nat
    <3>1. file \in DOMAIN Files
      BY DEF RecoverInv, OverwriteInv, ControlInv, ProgramTypeOK
    <3> QED BY <3>1, OpenReader, GoodReader
  <2>2. Len(ImageBytes[file]) >= 2 * BUF
    BY <2>1, PromAssumption
  <2> QED BY <2>2 DEF RecoverInv, RecoverOk, GoodRun, Clean
<1> QED BY <1>1, <1>2, <1>3, PTL DEF Spec
=============================================================================
