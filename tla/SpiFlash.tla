------------------------------- MODULE SpiFlash -----------------------------
(***************************************************************************)
(* The serial flash driver (sw/spiflash.c) on the SPI controller           *)
(* (perio/spi.vhdl) and a flash as the driver uses it.  A step is one      *)
(* register access of the CPU, a phase of a transfer, which lasts any time,*)
(* or of a programming cycle of the flash.                                 *)
(*                                                                         *)
(* A transfer carries a unit: a command with its address or its answer, a  *)
(* word of data, and in the build for 8 bits each byte of a read command.  *)
(* Addresses are counted in words.  The flash is one sector.               *)
(***************************************************************************)
EXTENDS Integers, Sequences

CONSTANTS
  Words,      \* words of the flash
  PageWords,  \* words of a page: 256 bytes
  MaxRead,    \* bound: words read in a call
  Lengths     \* bound: words written in a call

ASSUME FlashAssumption ==
  /\ {Words, PageWords} \subseteq Nat \ {0}
  /\ Words % PageWords = 0
  /\ MaxRead \in Nat \ {0} /\ Lengths \subseteq Nat

VARIABLES
  spi32,    \* the build: SPI_32BIT
  pump, spics, tx, rx,  \* SPI_CONTROL, SPI_TX and the shift register
  state,    \* spi_core: "S_IDLE", "S_SETUP", "S_TRANSFER"
  out,      \* what is shifted out
  session,  \* the flash: what it was sent since it was selected
  flash, wel, wip,  \* its contents and status
  goal,     \* and the contents it will have when its cycle is over
  ops,      \* accesses the program still has to make in its call
  call,     \* the call made last
  buf,      \* what it has read
  was       \* history: the contents when it began, and whether each of its
            \*   commands found the controller at rest and the flash not busy

spivars == <<spi32, pump, spics, tx, rx, state, out, session, flash, goal, wel, wip,
             ops, call, buf, was>>

pagesize == 4 * PageWords   \* of spiflash_write32: as many words as a page has bytes

Addr == 0 .. Words - 1
FF == <<"erased", 0>>
Spoilt == <<"spoilt", 0>>       \* programmed twice
Unit(cmd, a) == [cmd |-> cmd, a |-> a]
Nothing == Unit("byte", 0)      \* left to shift out
Closed == [cmd |-> "none", a |-> 0, skip |-> 0, fill |-> <<>>]

Word == {"old", "new", "erased", "spoilt"} \X Nat

FlashTypeOK ==
  /\ {spi32, pump, spics, wel, wip} \subseteq BOOLEAN
  /\ state \in {"S_IDLE", "S_SETUP", "S_TRANSFER"}
  /\ session.a \in Addr /\ session.skip \in 0 .. 3
  /\ session.cmd \in {"none", "busy", "WREN"} => session.fill = <<>>
  /\ \A i \in Addr : flash[i] \in Word /\ goal[i] \in Word
  /\ Len(buf) <= MaxRead
  /\ was.rest \in BOOLEAN

SpiInit ==
  /\ spi32 \in BOOLEAN
  /\ pump = TRUE /\ spics = TRUE          \* spi_init
  /\ tx = Unit("byte", 0) /\ rx = FF
  /\ state = "S_IDLE" /\ out = Nothing
  /\ session = Closed
  /\ flash = [i \in Addr |-> <<"old", i>>] /\ goal = flash /\ wel = FALSE /\ wip = FALSE
  /\ ops = <<>> /\ call = [op |-> "none"] /\ buf = <<>>
  /\ was = [flash |-> goal, rest |-> TRUE]

-----------------------------------------------------------------------------
(* The flash.  It is external: what the driver relies on, and WEL may fall *)
(* before the end of the cycle.                                            *)

Busy == [cmd |-> "busy", a |-> 0, skip |-> 0, fill |-> <<>>]

(* It takes a unit: what it answers, and the session after it.             *)
Answer(u) ==
  IF session.cmd = "none" THEN
    IF u.cmd = "RDSR" THEN <<"status", (IF wip THEN {"wip"} ELSE {}) \cup (IF wel THEN {"wel"} ELSE {})>>
    ELSE IF u.cmd = "RDID" /\ ~wip THEN <<"id", 0>> ELSE FF
  ELSE IF session.cmd = "READ" /\ session.skip = 0 THEN flash[session.a]
  ELSE FF

Take(u) ==
  IF session.cmd = "none" THEN
    IF wip /\ u.cmd # "RDSR" THEN Busy
    ELSE [Closed EXCEPT !.cmd = u.cmd, !.a = u.a,
                        !.skip = IF u.cmd = "READ" /\ ~spi32 THEN 3 ELSE 0]
  ELSE IF session.skip > 0 THEN [session EXCEPT !.skip = @ - 1]
  ELSE IF session.cmd = "READ" THEN [session EXCEPT !.a = (@ + 1) % Words]
  ELSE IF session.cmd = "PP" THEN [session EXCEPT !.fill = Append(@, u.a)]
  ELSE session

(* A page is programmed with the last words sent, which wrap within it.    *)
Program(s) ==
  LET base == s.a - (s.a % PageWords)
      sent(i) == {k \in 1 .. Len(s.fill) : base + ((s.a + k - 1) % PageWords) = i}
      last(i) == s.fill[CHOOSE k \in sent(i) : \A j \in sent(i) : j <= k]
  IN  [i \in Addr |-> IF sent(i) = {} THEN goal[i]
                      ELSE IF goal[i] = FF THEN <<"new", last(i)>> ELSE Spoilt]

(* Its select line rises and ends session s.  A cycle may begin, which     *)
(* changes the contents by its end.                                        *)
Rise(s) ==
  LET starts == wel /\ (s.cmd = "SE" \/ (s.cmd = "PP" /\ s.fill # <<>>))
  IN  /\ session' = Closed
      /\ wel' = (wel \/ s.cmd = "WREN")
      /\ wip' = (wip \/ starts)
      /\ goal' = IF ~starts THEN goal
                 ELSE IF s.cmd = "SE" THEN [i \in Addr |-> FF] ELSE Program(s)

FlashWorks ==
  /\ wip
  /\ wel' = FALSE
  /\ wip' \in {wip, FALSE}
  /\ flash' = IF wip' THEN flash ELSE goal
  /\ UNCHANGED <<spi32, pump, spics, tx, rx, state, out, session, goal, ops, call, buf, was>>

-----------------------------------------------------------------------------
(* The controller.                                                         *)

Setup ==
  /\ state = "S_SETUP"
  /\ state' = "S_TRANSFER"
  /\ out' = tx
  /\ UNCHANGED <<spi32, pump, spics, tx, rx, session, flash, goal, wel, wip, ops, call, buf, was>>

Transfer ==
  /\ state = "S_TRANSFER"
  /\ state' = "S_IDLE"
  /\ rx' = Answer(out) /\ out' = Nothing
  /\ IF spics THEN Rise(Take(out))
              ELSE session' = Take(out) /\ UNCHANGED <<goal, wel, wip>>
  /\ UNCHANGED <<spi32, pump, spics, tx, flash, ops, call, buf, was>>

(* A read of SPI_RX or a write to SPI_TX starts a transfer, but for a      *)
(* controller under way, which ignores it.                                 *)
Start == state' = IF pump /\ state = "S_IDLE" THEN "S_SETUP" ELSE state

-----------------------------------------------------------------------------
(* The calls, as the accesses they make.                                   *)
Op(op) == [op |-> op]
spi_tx(u) == <<[op |-> "tx", unit |-> u], Op("wait")>>

Send(cmd, a) == <<Op("select")>> \o spi_tx(Unit(cmd, a))

(* The words of a block, numbered on from those before it.                 *)
Data(from, n) ==
  [i \in 1 .. 2 * n |-> spi_tx(Unit("data", from + (i + 1) \div 2))[IF i % 2 = 1 THEN 1 ELSE 2]]

read_NoDummy(a, n) ==     \* the transfer of the command counts as data
  Send("READ", a)
    \o (IF spi32 THEN <<>> ELSE spi_tx(Unit("byte", a)) \o spi_tx(Unit("byte", a))
                                  \o spi_tx(Unit("byte", a)))
    \o [k \in 1 .. n |-> Op("read")] \o <<Op("deselect")>>

read_OneMore(a, n) ==     \* the count is tested before it is decremented to zero
  Send("READ", a)
    \o (IF spi32 THEN <<>> ELSE spi_tx(Unit("byte", a)) \o spi_tx(Unit("byte", a))
                                  \o spi_tx(Unit("byte", a)))
    \o <<Op("rx")>> \o [k \in 1 .. n + 1 |-> Op("read")] \o <<Op("deselect")>>

(* spiflash_read32 and spiflash_read.                                      *)
read(a, n) ==
  Send("READ", a)
    \o (IF spi32 THEN <<>> ELSE spi_tx(Unit("byte", a)) \o spi_tx(Unit("byte", a))
                                  \o spi_tx(Unit("byte", a)))
    \o <<Op("rx")>> \o [k \in 1 .. n |-> Op("read")] \o <<Op("deselect")>>

detect == Send("RDID", 0) \o <<Op("deselect"), Op("read")>>

pollstatus(bit) ==
  Send("RDSR", 0) \o <<Op("deselect"), [op |-> "test", bit |-> bit]>>

Command(cmd, a) == Send(cmd, a) \o <<Op("deselect")>>

erasesector_NoEnable(a) ==     \* the write enable is not sent
  Command("SE", a) \o pollstatus("wel") \o <<Op("select"), Op("deselect")>>

erasesector_EnableLate(a) ==     \* the write enable follows the command
  Command("SE", a) \o Command("WREN", 0) \o pollstatus("wel")
    \o <<Op("select"), Op("deselect")>>

erasesector(a) ==
  Command("WREN", 0) \o Command("SE", a) \o pollstatus("wel")
    \o <<Op("select"), Op("deselect")>>

writeblk32_NoPoll(a, from, n) ==     \* returns while the flash programs
  Command("WREN", 0) \o Send("PP", a) \o Data(from, n) \o <<Op("deselect")>>

writeblk32_EnableLast(a, from, n) ==     \* the write enable follows the page
  Send("PP", a) \o Data(from, n) \o <<Op("deselect")>>
    \o Command("WREN", 0) \o pollstatus("wip")

writeblk32_Halves(a, from, n) ==     \* a page in two halves, polled for once
  LET k == n \div 2
  IN  Command("WREN", 0) \o Send("PP", a) \o Data(from, k) \o <<Op("deselect")>>
        \o Command("WREN", 0) \o Send("PP", (a + k) % Words) \o Data(from + k, n - k)
        \o <<Op("deselect")>> \o pollstatus("wip")

writeblk32(a, from, n) ==
  Command("WREN", 0) \o Send("PP", a) \o Data(from, n) \o <<Op("deselect")>>
    \o pollstatus("wip")

write32_Twice(a, from, n) ==     \* the block's call advances the address too
  IF n < pagesize THEN writeblk32(a, from, n)
  ELSE writeblk32(a, from, pagesize)
         \o <<[op |-> "next", a |-> (a + 2 * PageWords) % Words, from |-> from + pagesize,
               n |-> n - pagesize]>>

(* A block is pagesize words, but its address advances by as many bytes.   *)
(* What is left after it is written once it is over.                       *)
write32(a, from, n) ==
  IF n < pagesize THEN writeblk32(a, from, n)
  ELSE writeblk32(a, from, pagesize)
         \o <<[op |-> "next", a |-> (a + PageWords) % Words, from |-> from + pagesize,
               n |-> n - pagesize]>>

-----------------------------------------------------------------------------
(* As a bound, nothing more is written before the flash is erased.         *)
Call ==
  /\ ops = <<>>
  /\ \/ \E a \in Addr, n \in 0 .. MaxRead :
          call' = [op |-> "read", a |-> a, n |-> n] /\ ops' = read(a, n)
     \/ spi32 /\ call' = [op |-> "detect"] /\ ops' = detect
     \/ spi32 /\ call' = [op |-> "erase"] /\ ops' = erasesector(0)
     \/ /\ spi32 /\ \A i \in Addr : goal[i][1] \notin {"new", "spoilt"}
        /\ \E a \in Addr, n \in Lengths :
             call' = [op |-> "write", a |-> a, n |-> n] /\ ops' = write32(a, 0, n)
  /\ buf' = <<>>
  /\ was' = [flash |-> goal, rest |-> TRUE]
  /\ UNCHANGED <<spi32, pump, spics, tx, rx, state, out, session, flash, goal, wel, wip>>

Select ==
  /\ ops # <<>> /\ Head(ops).op = "select"
  /\ pump' = TRUE /\ spics' = FALSE
  /\ ops' = Tail(ops)
  /\ was' = [was EXCEPT !.rest = @ /\ state = "S_IDLE"
                                 /\ (wip => ops[2] \in {[op |-> "tx", unit |-> Unit("RDSR", 0)],
                                                        Op("deselect")})]
  /\ UNCHANGED <<spi32, tx, rx, state, out, session, flash, goal, wel, wip, call, buf>>

Deselect ==
  /\ ops # <<>> /\ Head(ops).op = "deselect"
  /\ pump' = FALSE /\ spics' = TRUE
  /\ ops' = Tail(ops)
  /\ IF state = "S_IDLE" THEN Rise(session) ELSE UNCHANGED <<session, goal, wel, wip>>
  /\ UNCHANGED <<spi32, tx, rx, state, out, flash, call, buf, was>>

Write ==
  /\ ops # <<>> /\ Head(ops).op = "tx"
  /\ tx' = Head(ops).unit
  /\ Start
  /\ ops' = Tail(ops)
  /\ UNCHANGED <<spi32, pump, spics, rx, out, session, flash, goal, wel, wip, call, buf, was>>

(* The loops on SPIBUSY, and the access after them.                        *)
Ready ==
  /\ ops # <<>> /\ Head(ops).op \in {"wait", "rx", "read", "test"}
  /\ state = "S_IDLE"
  /\ IF Head(ops).op = "wait" THEN UNCHANGED state ELSE Start
  /\ buf' = IF Head(ops).op = "read" THEN Append(buf, rx) ELSE buf
  /\ ops' = IF Head(ops).op = "test" /\ Head(ops).bit \in rx[2]
              THEN pollstatus(Head(ops).bit) \o Tail(ops) ELSE Tail(ops)
  /\ UNCHANGED <<spi32, pump, spics, tx, rx, out, session, flash, goal, wel, wip, call, was>>

(* The loop of spiflash_write32 goes on with the next block.               *)
Loop ==
  /\ ops # <<>> /\ Head(ops).op = "next"
  /\ ops' = write32(Head(ops).a, Head(ops).from, Head(ops).n)
  /\ UNCHANGED <<spi32, pump, spics, tx, rx, state, out, session, flash, goal, wel, wip, call, buf, was>>

SpiProgram == Select \/ Deselect \/ Write \/ Ready \/ Loop
SpiCore == Setup \/ Transfer

SpiNext == Call \/ SpiProgram \/ SpiCore \/ FlashWorks

SpiFair ==
  /\ WF_spivars(SpiProgram) /\ WF_spivars(SpiCore)
  /\ WF_spivars(FlashWorks /\ ~wip')

SpiSpec == SpiInit /\ [][SpiNext]_spivars /\ SpiFair

-----------------------------------------------------------------------------
Done(op) == ops = <<>> /\ call.op = op /\ was.rest

(* A read returns the words asked for, although each access to SPI_RX      *)
(* starts another transfer and the last of them outlives the call; unless  *)
(* the next call selects the flash while it is under way.                  *)
ReadRight ==
  Done("read") => buf = [k \in 1 .. call.n |-> flash[(call.a + k - 1) % Words]]

(* The contents of the call's words, as it should write them.             *)
Written32 ==
  [i \in Addr |-> IF i \in call.a .. call.a + call.n - 1 THEN <<"new", i - call.a + 1>>
                  ELSE was.flash[i]]

(* The words of the call lie in an erased part of one page.                *)
OnePage ==
  /\ call.n + (call.a % PageWords) <= PageWords
  /\ \A i \in call.a .. call.a + call.n - 1 : was.flash[i] = FF

(* Words written to an erased part of one page are the only ones that      *)
(* change, they have when the call is over, and the flash is at rest.      *)
WriteRight == Done("write") /\ OnePage => ~wip /\ flash = Written32

(* An erase has begun when the call is over, and leaves nothing of the     *)
(* sector; it may last longer than the call, which waits for WEL to fall   *)
(* and not for the end of the cycle.                                       *)
EraseRight == Done("erase") => goal = [i \in Addr |-> FF]

(* A flash at rest is write protected again after a call, unless the last  *)
(* block of a write was empty.                                             *)
LeavesProtected ==
  Done("erase") \/ (Done("write") /\ call.n % pagesize # 0) => ~wel

(* The blocks of the call: a page each, whatever is sent for it.           *)
Pages == {((call.a + j * PageWords) % Words) \div PageWords : j \in 0 .. call.n \div pagesize}

(* Whatever the call met, a transfer or a cycle under way, it is carried   *)
(* out or ignored but not in part: it reads and changes nothing, erases    *)
(* the sector or none of it, writes its words to an erased part of a page  *)
(* or none of them, and never one outside of the pages its blocks begin in.*)
AllOrNothing ==
  ops = <<>> =>
    /\ call.op \in {"read", "detect"} => goal = was.flash
    /\ call.op = "erase" => goal \in {was.flash, [i \in Addr |-> FF]}
    /\ call.op = "write" =>
         /\ OnePage => goal \in {was.flash, Written32}
         /\ \A i \in Addr : i \div PageWords \notin Pages => goal[i] = was.flash[i]

(* Every call returns, whatever state the one before it has left.          *)
FlashReturns == ops # <<>> ~> ops = <<>>

(* What the calls promise when they return.                                *)
FlashRight == ReadRight /\ WriteRight /\ EraseRight /\ LeavesProtected
=============================================================================
