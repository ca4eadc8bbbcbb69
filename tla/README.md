# MaSoCist: TLA+ models, checks and proofs

MaSoCist is a kit for small systems on a chip: VHDL for the peripherals, the
interrupt controller, the RAM wrappers and the CPU (ZPUng, or pyrv32 and neo430
around RISC-V cores), XML device descriptions from which register decoders and
C headers are generated, and C firmware that runs on the result. This directory
holds TLA+ modules translated from that VHDL and C, the TLC configurations that
check them, and TLAPS proofs about them. Paths below are relative to the
repository's source root.

Contents: [1 Inventory](#1-inventory) - [2 Modules](#2-modules) -
[3 Runs](#3-runs) - [4 Disagreements with the documentation](#4-disagreements-between-code-and-documentation) -
[5 Proofs](#5-proofs) - [6 What is not modelled](#6-what-is-not-modelled) -
[7 Plan](#7-plan)

## 1 Inventory

| Component | State it keeps | Operations | Talks to | What makes it correct |
|---|---|---|---|---|
| FIFO buffer (`hdl/core/fifobuf.vhdl`, `hdl/ram/bram.vhdl`) | write and read pointer, FSM, dual-port RAM and its output register | write, read, both at one edge, reset | the UART, both ends | is a bounded queue; full and empty never confused; overrun reported |
| UART receiver (`hdl/perio/uart_rx.vhdl`) | FSM, 16x counter, bit counter, shift register, sticky framing error | sample a line at 16 ticks a bit | the line, receive FIFO | each frame delivered once, unchanged, in spite of clock drift |
| UART transmitter (`hdl/perio/uart_tx.vhdl`) | FSM, bit counter, shift register | pop a byte, shift it out | transmit FIFO (rising edge) from the falling edge, the line | frames = bytes written, in order |
| UART core and driver (`hdl/perio/uart.vhdl`, `sw/uart.c`) | divider, status and control registers, both FIFOs | `uart_putc`, `uart_read`, `uart_reset`, `uart_init` | CPU bus, shell | no overrun when polled; recovers from errors |
| System interrupt controller (`hdl/perio/sic.vhdl`) | ILAT, IPEND, MISS, mask, assignment, latched priority | latch, prioritize, override; W1C writes | sources, CPU, handlers | no event lost or made up; highest served; override exactly when documented |
| ZPUng interrupt logic (`hdl/zpu/zpung/ZPUng.vhd`) | `irqlatch`, `irqack`, `irqprio`, FSM state | take an interrupt, be overridden, return by POPINT | SIC, handlers | no handler re-entered; never locked out; every event handled |
| Interrupt handlers (`sw/timer.c`, `sw/irqhandler.c`) | `g_count`, ring heads, IPEND bits | clear and return | SIC, CPU, main program | one entry per event, device work not lost |
| Pulse synchronizer (`hdl/core/flagxdp.vhd`) | toggle flag, three-stage pipe | carry a pulse over clocks | test access port, CPU debug | pulses neither lost nor doubled |
| Timer and PWM (`hdl/perio/tmr.vhdl`, `pwm.vhdl`, `sw/timer.c`, `sw/pwm.c`) | prescaler, counters, shadow registers, run flags | start, stop, change period and width, count ticks | CPU bus, SIC, handler | a tick is counted once, and lost only while another waits for its handler; changes apply at period boundaries; the prescaler never runs away |
| SPI and flash (`hdl/perio/spi.vhdl`, `clkdiv.vhdl`, `sw/spiflash.c`) | shift FSM, divider; driver phase | transfer, read, erase, program | flash | what is read and written is what was asked for, wholly or not at all; the flash is protected after a call, and at rest unless it erases; calls return |
| I2C and TWI (`hdl/perio/i2c_master.vhdl`, `twi.vhdl`, `sw/twi.c`, `sw/i2c_oc.c`) | bus FSM, hold, ack | start, address, read, write, stop | slave | a call without an error has moved its bytes, each once; the bus is let go; calls return or halt in BREAK |
| Text library (`sw/printutils.c`, `utils.c`, `sw/arch/*/libcemu.c`) | none | parse and print numbers and strings | shell, board code | what is printed reads back as the number; a field is as wide as asked |
| GPIO, CRC, others (`hdl/perio/gpio.vhdl`, `crc16.vhdl`) | registers | set and clear, shift in | CPU bus | equals the reference polynomial, and so on |
| Main loop and shell (`sw/main.c`, `shell.c`, `cmds.c`, `helper.c`) | line buffer, `argc`, state | read a line, tokenize, run a command | UART | a command sees its own arguments only |
| Receive ring (`sw/uart16650.c`, `sw/irqhandler.c`) | head, tail | fill in the handler, drain in the program | UART interrupt | bytes in order, each once; none lost while the ring has room |
| ZPUng debug, pyrv32 control | emulation FSM | halt, step, resume | test access port | stops between instructions, resumes where it stopped |
| Bus bridges and memory wrappers (`hdl/core/wb2zpu.vhdl`, `hdl/perio/dmem_wrapper.vhdl`) | handshake | access | CPU, peripherals | one access per request |
| Everything else: decoders, tools, benches, boards | - | - | - | section 6 |

How the parts interact. All hardware moves on clock edges: a clocked process
reads what every register held before the edge and nothing else, so an edge is
one step and the processes of an entity are conjuncts of it. The exceptions are
where the difficulty is:

* the UART transmitter moves on the *falling* edge, the FIFO it pops on the
  rising one;
* the RAM behind the FIFO is a VHDL shared variable, so a read and a write of one
  word at one edge race;
* the debug pulse crosses two unrelated clocks;
* line and receiver, and software and hardware, run at rates of their own;
* software reaches a peripheral by single stores and loads, any number of clocks
  apart, while events keep arriving; interrupts come between any two
  instructions.

The code keeps nothing over a power cycle and talks over no network, so crash
recovery and message loss are not hazards of it. The hazards are simultaneous
events at one edge, stale flags, equality compares at boundaries, resets that
reach one half of a unit only, protocols between handler and hardware, and
drivers that leave something under way for the call after them.
`PROJECT.json` lists them under `hazards`, at the line each one bites.

## 2 Modules

| Module | Stands for | Uses |
|---|---|---|
| `FifoQueue` | abstract: bounded queue that fails when written while full | |
| `FifoBuffer` | `fifobuf.vhdl` over `bram.vhdl` | refines `FifoQueue` |
| `UartRx` | `uart_rx.vhdl` and a transmitter with a drifting clock | |
| `UartTx` | `uart_tx.vhdl`, divider and transmit FIFO of `uart.vhdl`, `uart_putc` and `uart_reset` of `uart.c` | `FifoBuffer` by INSTANCE |
| `Sic` | `sic.vhdl` | |
| `ZpuSic` | interrupt flags of `ZPUng.vhd`, handlers shaped as in `timer.c` | `Sic` by INSTANCE |
| `FlagXdp` | `flagxdp.vhd` between two clocks | |
| `LossyQueue` | abstract: the queue the receive ring promises | |
| `RxRing` | handler and reader of the 16550 ring, `uart16650.c` and `irqhandler.c` | refines `LossyQueue` |
| `Shell` | `uart_read` of `uart.c`, `shell.c`, `main()` and `default_exec_cmd` of `main.c` | |
| `Console` | the input of the firmware in both its builds | `Shell` and `RxRing` |
| `SysTimer` | `tmr.vhdl`, `pwm.vhdl`, the timer's bit of `sic.vhdl`, `timer.c`, `pwm.c` | |
| `SpiFlash` | `spiflash.c` on the FSM of `spi.vhdl` and a flash | |
| `I2cOc` | `i2c_oc.c` and a slave with registers | |
| `Twi` | `twi.c` on a controller | |
| `Text` | numbers and strings of `printutils.c`, `utils.c`, `libcemu.c` | |
| `Drivers` | one driver or the library in use | the four above |
| `CrossingProofs` | TLAPS proofs about `UartRx` and `FlagXdp` | both, TLAPS |
| other `*Proofs` | TLAPS proofs about the module of that name | the module, TLAPS |
| `MC*` | values of the constants for TLC | the module |

Conventions. An operator carries the name of the VHDL process or signal it
translates, and takes the ports of the entity as parameters. An operator with a
suffix (`Ram_ReadsAtIptr`) is a plausible bug in the operator it precedes, kept to
show that the properties can tell the two apart; nothing in a specification uses
it. History variables, which the hardware does not have, are marked at their
declaration (`owed`, `written`, `seen`, `stale`, `hitbusy`, `since`,
`run`, `stack`, `cleared`, `line`, `torn`, `carried`, `puts`, `waits`, `ticks`, `was`, `ocwas`, `sent`,
`moved`, `nacks`, `late`).

**FifoBuffer.** `iptr`, `optr`, `state`, `mem`, `rdata` are the registers. One step
is a rising edge: `Clock` is the three processes `Count`, `Fsm`, `Ram`; `Reset`
clears pointers and FSM but not the RAM, which has no reset. `Ram` lets a read
of the word being written return the old or the new value. The writer is
unconstrained, and overruns; the reader never reads an empty FIFO, which
`uart.vhdl` guarantees on the receive side (`rxfifo_rden` is gated by
`rxdata_ready`) and `UartTx!FifoUsed` checks on the transmit side.
`FifoQueue` says what this implements: the words from `optr` up to `iptr` are the
queue, `S_ERROR` is `failed`, and the output register shows the head with a lag of
one clock. The variant with `EXTRA_REGISTER` is instantiated nowhere and left out.

**UartRx.** The receiver's registers, moved by one operator per process, and a
transmitter (`pos`, `left`, `drift`, `sent`, `stop`) that may stretch or shrink
each bit by one sixteenth as long as the drift summed over a frame stays within
`MaxEarly` and `MaxLate`. `tick` is `clk16en`; clocks without a tick come in any
number between ticks, so the divider's value does not matter. `ResetClk` is an
edge with reset high, on a silent line.

**UartTx.** A step is a period of `clk`: the falling edge (`sync_state_advance`,
`shift`), then the rising edge (`bitcounter`, `clkdiv`, `fifo`), which sees what the
falling edge left (the primed names in `bitcounter` and `fifo`). `counter` and
`count16` are the two counters of the divider; reset clears the former only. The program
polls TXREADY and writes (`Poll`, `Write`), and toggles UART_RESET (`SetReset`). Between the poll and the write any number of clocks pass.
The observer rebuilds frames from `tx` once per bit (`seen`) and compares them with
the bytes accepted (`written`).

**Sic.** Registers are sets of sources. `Clock` is the four processes of `sic.vhdl`;
the register write of the clock, the input lines and nmi are its parameters, and
`Clear`, `SetMask`, `SetAssignment` and `Reset` are the clocks with a write to a W1C
register or none, to IMASK, to IARx, and with reset. `irq_d` keeps its shift
by one and the comparison of binary values that decides over `override`. `owed`
is an account kept apart from the hardware: which sources have an event the software
has not cleared. `bus` says how long the last write to a W1C register is ago: the
CPU cannot write in two consecutive clocks, a store takes several.

**ZpuSic.** Each action is a clock of both the CPU and the SIC. The CPU is reduced
to the interrupt flags (`flags`, `FSM`), its FSM state, and classes of instructions:
one clock, IM, branch, longer, POPINT. `Enter` loads the vector, `ClearPending` is
the last clock of the store to IPEND_W1C that ends a handler, `PopInt` its return; `mmr` is the write as
the registered `execute_vliw0_write` puts it on the bus, where the SIC sees it in the next
clock, whatever the CPU executes then; `Epilogue` is the
number of instructions in between. `stack` and `cleared` record which
handlers were entered and how far they are, which the real machine has in its stack
and program counter. `InService` with `Refire = FALSE` is the environment in which a
source fires again only after its handler returned.

**FlagXdp.** `In`, `Reset` are edges of `clki`, `Out` an edge of `clko`; a step is
one edge of one clock. A register sampled while it changes gives either value, as
the two edges may come in either order. `Gap` and `Ratio` relate the clocks: pulses
are at least `Gap` periods of `clki` apart, at most `Ratio` edges of `clki` come
between two of `clko`.

**RxRing.** The handler (`Enter`, `Serve`, `Rearm`) may come between any two of the
reader's accesses (`ReadTest`, `ReadCopy`, `ReadMask`: `tail` runs past the ring
before it is masked), and bytes and breaks arrive during both. `LossyQueue`
is what this promises: order, no duplicates, and no loss while fewer than `Size - 1`
bytes wait; the next byte drops all of them, as `head` meets `tail`, unless the
reader is past its test already, when equal indices mean a full ring.

**Shell.** `queue` and `rxovr` are the receive FIFO as `FifoQueue` has it. A step is
a poll of the FIFO that takes a byte (`Take`), a `gettoken` with that byte and the
case of `main()` it is called from (`Input`, `Command`, `Interactive`), or a read
that fails (`ReadError`). `Token` and `parse` are what `parse()` of shell.c returns and
leaves, with `gettoken`'s restart of the tokenizer. A board command ends in any of
the three states it may return. `line` is what was typed since the last prompt or failed
read, `torn` whether a read has failed since the last command, and `carried` what argv and the tokenizer
held when the last read failed, less a word that main() drops at the prompt.

**Console.** `#ifdef USE_UART_INTERRUPT` chooses one of the two inputs: `build` is
that choice, made once, and a behaviour moves only the state of one of them.

**SysTimer.** A step is one clock with one register access (`Access`), or none, by
the program, or one step of the handler. The processes `registers`, `tmr_core`,
`pwm_core`, `irq_mask` are conjuncts of `Hardware`. `systimer_init` and `timer_set`
are sequences of accesses, so the handler or a stall may come between any two.
`todo` holds what is left of the call. `waits` is a tick whose handler has not returned, `ticks` counts
those raised while none waits, `since` counts clocks since the last one, and with them those a start
cuts off a prescaled clock (`Cut`: START resets the prescaler), and `stale` the ticks of a period
begun before a call.

**SpiFlash.** Calls are sequences of register accesses in the order the C makes them;
a loop on SPIBUSY is an access that waits, and a poll of the flash status that finds
its bit set runs the sequence again. A write is one block and then `Loop`, the loop of
`spiflash_write32`, which goes on with the words that are left. `Setup` and `Transfer` are the FSM of `spi_core`, which an access to
SPI_RX or SPI_TX starts (`Start`) and a deselect does not stop. The flash takes units,
programs within a page with wrap-around, and ends its cycle any time later
(`FlashWorks`): `goal` is what it will hold then, `flash` what it holds and answers now.
WEL may fall before WIP, and the driver polls WEL after an erase, so an erase may outlast
its call.

**I2cOc.** A step is a command of the OpenCores controller, given and waited for. The
slave may refuse any byte; what the driver makes of it (ignore, stop, return at once)
is part of the command. **Twi.** A step is a register access, a poll of `twi_wait` with its
retry count, or the end of a transfer, which may never come. `twi_wait` executes BREAK if its
last poll finds the controller ready (`Halted`), and goes on if a debugger continues it, or if BREAK is empty
(`Continue`). `nacks` records what the slave did not acknowledge in the call. **Text.** The functions
are pure, so a state is a call with its arguments, and the properties compare the
result with a definition by place value, length and order.

**Drivers.** The four share no state and the firmware makes one call at a time, so a
behaviour uses one of them (`device`): the states add up instead of multiplying, and
nothing is lost that the code could do.

## 3 Runs

Run a configuration with `tlc -workers 2 -config <cfg> <module>`. All passing runs check deadlock.

| Run | Configuration | States | Shows |
|---|---|---|---|
| `fifo` | `MCFifoBuffer.cfg` | 872 | With every interleaving of writes, reads, both and resets: the FSM tells an empty from a full FIFO when the pointers do not (`PtrState`), a word not popped is on the output one clock later (`HeadShown`), the whole implements the bounded queue (`ImplementsQueue`) |
| `uart_rx` | `MCUartRx.cfg` | 32326 | Every strobe hands over the byte of the one frame on the line, and every frame is strobed, with a transmitter 6 ticks early to 10 late at the end of a frame, back to back or spaced |
| `uart_tx` | `MCUartTx.cfg` | 155248 | UART_RESET toggled at any moment: polling never overruns the FIFO; until a reset finds the transmitter busy, frames are the bytes written, the transmitter never pops an empty FIFO, and every byte is sent or cleared by a reset |
| `sic` | `MCSic.cfg` | 26322 | ILAT and IPEND hold exactly the events owed to software; the override pulse comes exactly when the comparison of the code implies; the topmost unmasked event reaches the CPU with its vector |
| `zpu_irq` | `MCZpuSic.cfg` | 1130 | Two sources on one channel that may fire at any time, handlers with one instruction or more between the store to IPEND_W1C and POPINT: no handler re-entered, none entered for nothing, the flag released, every event handled |
| `flagxdp` | `MCFlagXdp.cfg` | 3816 | No pulse lost or doubled between the clocks; all come out; a reset of the access port adds at most one strobe |
| `console` | `MCConsole.cfg` | 648268 | Every line of at most three words is executed as typed and none with words of an earlier one, whatever lines, escapes and overlong words came before and with an overrun at any moment; after failed reads, plain words are executed behind those the shell still held, with a word begun joined to the first (`CarriesOn`): main() resets neither argv nor the tokenizer at an error; ESC always leaves the tokenizer fresh; the ring implements the lossy queue; input goes on in both builds, with an overrun told again and again until a reset |
| `systimer` | `MCSysTimer.cfg` | 181593 | Calls of `systimer_init` and `timer_set` in any order, stalled and interrupted between any two accesses: every tick raised while none waits for its handler is counted once and no other, the prescaler does not run away, no period is cut short by stores, stops and starts, a mixed pair of period and width lasts one period at most, at most two stale ticks follow a call, the timer goes on |
| `drivers` | `MCDrivers.cfg` | 563333 | Any sequence of calls, each on what the one before left: flash contents, slave registers and bytes moved are as asked, a flash call met by a transfer or a cycle under way is carried out or ignored but not in part, errors are told but where section 6 says, the bus is let go, and every call of the flash and the two-wire driver returns or the CPU halts in the BREAK of `twi_wait`; every call of the text functions yields what it is for |
| `uart_rx_frerr`, `zpu_irq_nesting`, `zpu_irq_flag` | `MCUartRxFrerr.cfg`, `MCZpuSicNest.cfg`, `MCZpuSicFlag.cfg` | | each ends in a violation: section 4 |

Bounds, and why they are enough:

* **FIFO depth.** 4 in `fifo`: wrap-around, almost full, almost empty, and the
  exchange at both boundaries all occur, and the proofs of section 5 cover every
  depth. 4 in `uart_tx`, with `written` at most one longer: the byte in the shift register.
* **Bytes.** Words are copied, never looked at, by the FIFO: two tell order and
  loss apart. The receiver gets all zeros, all ones, alternating and an
  asymmetric byte: a sample taken in the neighbouring bit shows up in one of them.
* **Drift** (-6..+10). A transmitter seven ticks early has the last data bit sampled in
  its stop bit, so 6 is the limit; ten ticks late is all that one tick a bit can add
  up to, and does no harm (section 5: no lateness does). The asymmetry is that of the
  middle tick, count 7 of a counter that starts after the edge was detected.
* **Tick** (2) and **Oversample** (2) stand for UART_CLKDIV + 1 and for 16. What matters is
  that the FIFO output settles one clock after a pop while a bit lasts several; the proofs of
  section 5 cover every value, down to one clock a bit.
* **SIC.** Three sources on three of four channels give every relation between the
  set of channels pending and the set joining it that the comparison distinguishes.
  `bus` excludes writes in consecutive clocks, which no CPU here can do, and
  also makes an idle clock a visible step, without which weak fairness would say nothing.
* **ZpuSic.** `MaxNest` = 4 handlers on the stack; passing runs never get beyond 2, so it cuts
  off nothing. `Epilogue` = 1 is the hardest case that passes, and longer ones are covered by the
  proofs. With 0, POPINT right after the store, the handler is entered for nothing and `Solicited` fails (section 4).
* **FlagXdp.** Three stages of the pipe need at most three flips in flight; `Gap` = `Ratio` = 3
  is the edge of the assumption (`Ratio` = 4 with `Gap` = 3 loses pulses), and
  `MaxResets` = 2 is enough to leave toggle wrong and right again.

* **Console.** A receive FIFO of one byte overruns most easily. Words of at most three
  characters (`WordSize` 4), three of them and five characters a line give words that
  fit, that fill the buffer, that overflow it, quotes with blanks, and empty ones. After a failed
  read `TornLine` bounds what is typed before CR: one character, which is a word, joins a word begun, or comes behind the
  words kept, and more errors may come in between. What is kept is any beginning of a line of five characters. Two
  bytes tell order and loss apart; four slots let the ring wrap while the reader is
  between its steps. The proofs of section 5 cover every size.
* **SysTimer.** `Wrap` 8 lets the prescaler, had it run away, come round within the run;
  dividers 0 and 2 give a prescaler that always and that seldom ticks, and a switch
  between them in both directions; periods of 1 and 3 clocks give both orders of old
  and new. The proofs cover every width and every set of values.
* **Drivers.** Flash: a sector of three pages of two words each, so that a block or a word that goes astray can end up in a
  page that none of the blocks is for. Lengths 0, 2 and 9 give an empty and a full page,
  one that wraps (from an odd address) and, beyond `pagesize` = 8, a second block. Two registers and two
  values; two polls until `twi_wait` gives up; one to three bytes, as the first,
  the last and the last but one are special. Words of 8 and 6 bits stand for 32 and 16: every sign, wrap and digit
  count occurs. Widths and precisions -4 to 7 are below and above every
  length of a text, which has at most two characters, and at some; the two negative ones are "not given" and an argument of `*`.

Fairness, and what in the code justifies it:

* `UartRx`, `UartTx`, `Sic`: clocks run. The receiver's ticks come from a divider that
  runs unless UART_RESET holds it, and `ResetClk` is not fair.
* `ZpuSic`: the clock runs, and strong fairness for `Instruction`, `LongInstruction`,
  `Busy("S_EXEC")`, `BranchSync("S_EXEC")`, `ClearPending`, `PopInt`: a program is not made of IM and branch
  instructions only (neither samples irq), long instructions end, as does a wait for the cache, a handler clears its
  bit and returns. Nothing is assumed of `Enter`, which the state forces.
* `FlagXdp`: the CPU clock runs. The clock of the access port may stop.

* `Console`: `main()` polls without end; in the other build the interrupt is latched, taken and served, and
  the program keeps reading. Nothing is assumed of the line, the user or the debugger.
* `SysTimer`: the clock runs, the program ends a call it began, the handler is taken and returns.
* `Drivers`: the program goes on; an SPI transfer ends, as its bit count does, and a
  flash ends its cycle (external). The two-wire controller may stay busy for ever, and nobody has to
  continue a CPU that has halted in BREAK.

Conjunctions: `FlashRight`, `OcRight`, `TwiRight`, `TextRight`, `BusReleased`, `CallsReturn`
and `InputGoesOn` join properties of one kind that are stated one by one in the modules, and
`PROJECT.json` has a mutant for each of those.

The type invariants `TypeOK` of `FifoBuffer`, `UartRx`, `Sic` and `SysTimer`, `XdpTypeOK`, `ShellTypeOK` and
`RingTypeOK` are proved for every instance and not checked again; those of
`UartTx`, `ZpuSic` and `Drivers` are proved as well, but a run checks them too, so that their mutants show
what they are worth.

What the properties do not say: a break clears the interrupt mask for good, and `ByteFetched` excepts it;
`ExecutesTyped` and `NoStaleCommand` leave a command out in which a read failed, which `CarriesOn` is about. `EventsExact` does not count a pulse on a line
already pending (that is MISS, which sic.vhdl leaves unreadable) or one that meets
a write to ILAT_W1C: that write replaces the register's update for the clock, so a
pulse of one clock on any line is dropped in it although the header of sic.vhdl
asks for no more than one clock. `EventHandled` is about the highest channel in
use, as lower ones may starve. `FramesMatch` ends with a reset that finds the
transmitter busy: the divider stops in reset, so uart_tx.vhdl:48 never sees reset
and enable together, the FIFO is cleared, and the transmitter pops it empty and
sends a byte from before the reset. uart_reset (sw/uart.c) does not wait for
TXBUSY. `LeavesProtected` leaves out a write whose last block is empty, which ends with
the write enable set and no page to clear it. `EraseRight` says that an erase has begun when
the call is over, not that it has ended: `spiflash_erasesector` polls WEL (sw/spiflash.c:195), and a flash that
lets WEL fall first erases on. The next call then finds it busy. `FlashRight` is not about that call, nor about one
that selects the flash while a read's last transfer is under way, whose command is lost; `AllOrNothing` and
`FlashReturns` are. `WriteRight` is about words that lie in one page. Of a longer write, whose blocks of 256 words each go to one
page of 256 bytes, `AllOrNothing` says that no other page is touched, and the words lost are not counted.
`TwiSent` does not ask whether the slave took the bytes between the first and the last, whose status the driver does not look at.
`TwiReceived` leaves out a receive whose second address the slave refuses, which returns 0 with bytes it never got. Both
leave out a call that meets a transfer `twi_wait` did not wait for (`late`), `TwiReleased` does not. `TwiReturns` counts a halt
in BREAK as an end: twi.c:13 was to catch a timeout, but retry is -1 after one, and 0 after a last poll in time.
`FieldRight` lets a string as long as its precision lose its last character, and `ParseRight` a number wrap: the code does so.

Every property of a passing run has a mutant in `PROJECT.json`: a suffixed operator that
replaces the faithful one and makes that property fail.

## 4 Disagreements between code and documentation

| Run | Document | Code |
|---|---|---|
| `uart_rx_frerr` | plat/agathe.xml:655: FRERR is "set when stop bit not null" | S_STOP is left at the first tick, the error would be sampled at the eighth: a low stop bit is never reported |
| `zpu_irq_nesting` | reference/irq.xml:31: the IRQ flag prevents a recurring handler | an override in the clock after an interrupt was taken clears irqack with the vector already that of the upper channel, whose handler then interrupts itself |
| `zpu_irq_flag` | reference/irq.xml:34: the flag is always cleared at the end of the handler | an override that meets POPINT sets irqprio with no handler left to clear it; the next POPINT clears irqprio, and irqack stays set |

Two more have no run of their own.

* reference/app_issues.xml:145 calls it "fixed in v1" that handlers need four cycles from clearing IPEND to
  their return (line 152). The store reaches the SIC a clock late (ZPUng.vhd:994) and the request falls two clocks after
  IPEND: with POPINT as the next instruction, the first one after the return latches the old request, and the handler
  is entered with nothing pending. `MCZpuSic.cfg` with `Epilogue = 0` ends in that violation of `Solicited`.
  One instruction in between is enough, as `zpu_irq` shows with `Epilogue = 1` and `SolicitedShared` proves for all longer ones.
* reference/irq.xml:105 asks a handler to clear IPEND at its beginning, so that an interrupt during the routine
  is latched. `irq_timer_handler` (sw/timer.c:36) clears it as its last statement, and ILAT does not latch while IPEND
  is set (sic.vhdl:96): a tick raised while the handler runs is lost. `TickAccount` says that those
  between a tick and the return of its handler are, and no others.

Two statements about the interrupt controller are not what the code does; for them
the true statement is checked and proved instead of a run that ends in a violation.
reference/sic.xml:142 and irq.xml:43 say that an event of higher priority than the one
latched overrides it, and only such a one: the comparison of binary values misses a
higher event that comes with a lower one, and fires for one between two pending
channels. `OverrideExact` is what it does: given channels pending, the override is
raised if and only if something joins and everything that joins is above the *lowest*
pending channel. reference/sic.xml:95 says that the handler finds the source in
SIC_ILAT: ILAT is cleared by IPEND before irqo rises, and `EventsExact` accounts
for the union of the two.

## 5 Proofs

`tlapm <module>` checks them; nothing is left unproved or assumed but the named
assumptions on constants, which TLC also evaluates in the runs.

**FifoBufferProofs**: from `DepthAssumption` (at least two words) and `DataAssumption` (some
word). `TypeCorrect` is inductive. `PtrStateCorrect` is inductive with it: the
pointers move by one, so READY is left exactly when they meet. `HeadShownCorrect` is an action
property from both: with the pointers apart the racing read is not of the
word shown. `Refinement` maps state to queue (`Contents`); the lemmas `SliceHead`,
`SliceTail`, `SliceAppend` say what moving a pointer does to a slice of a ring, and
`ClockImplements` matches each combination of wren, rden and state with an action of
`FifoQueue`.

**SicProofs**: from `SicAssumption`, for any number of sources, assignments and masks.
`TypeCorrect`, with one lemma per process; the hard conjunct is the vector, as
`Highest` needs a non-empty set of outputs. `EventsExactCorrect`: `owed` = ILAT
union IPEND is inductive on its own, a case for each register written.
`OverrideExactCorrect` is an action property from the type of `irq_d`: `ValueOnto` says that it
stands for a set of outputs, `Comparison` that for sets A and B with A inside B,
V(A) < V(B) < 2 V(A) says that B adds something to A and only above the lowest
priority in A, by cases of which one that is.

**ZpuSicProofs**: from `ZpuSicAssumption`. For every assignment: `TypeCorrect` and
`VectoredCorrect` (a handler runs, and a vector is offered, only for a channel with a source) are
inductive together; `ImplementsSic`, that a step of CPU and controller is a step of `Sic` or
none, matches each action with a clock of `Sic` and carries `EventsExact` over. The theorems
`NestingShared`, `FlagClearedShared`, `SolicitedShared` assume `Shared`: all sources on one channel. The
runs of section 4 show that `Nesting` and `FlagCleared` fail without it. They need no bound on
the number of sources or on how often they fire. The first two hold for every epilogue and rest on `OneHandler` (no override, ever; irqack, the latch and
the FSM tell whether there is no handler, one about to be entered, or one running). `SolicitedShared` assumes
`Epilogue # 0`, too: a write is on the bus only right after the store (`Written`), so none
is left at POPINT, and from then on `Pending` holds: what is latched, requested or on its way has an event in IPEND.

**UartTxProofs**: for every FIFO depth, bit rate and set of bytes, with UART_RESET
toggled at any time. `NoOverrunCorrect` and `FifoUsedCorrect` rest on `IInv`: `Polled`, the room seen at
the poll is still there at the write, as only the program fills the FIFO; `Started`, the
word seen when the transmitter decided to start is still there when it pops it one bit
time later, unless a reset found it busy; and `FifoState`, the FIFO has not failed.
Neither theorem needs the pointers, so `NoOverrun` holds also after a reset has
upset them. `TypeCorrect` and `FramesMatchCorrect` need the pointers and what is on the
line, `LInv`: until a reset finds the transmitter busy, state and bit counter tell how
many bits of the frame are out (`InStep`), the bytes owed are the one on the line and those
in the FIFO (`Account`), the bits seen and those in the shift register are that byte's
(`Shown`, `ToShift`), and a transmitter about to pop is offered the first word of the queue
(`Offered`): the FIFO output lags by one clock, which S_START waits. Type correctness is not
independent of the rest: the bounds of `written` and `seen` follow from the account only.

**CrossingProofs**, about what crosses from one clock to another. The receiver: from
`RxAssumption`. `TypeCorrect` holds for every drift and stop bit. `FrameDeliveredCorrect` assumes
`Followed`: stop bits are high, and a transmitter gets at most six ticks early within a frame.
`MaxLate` is free: even if every bit is a tick too long, the last data bit is sampled within it;
seven ticks early is one too many, as TLC shows with `MaxEarly` 7. The property says nothing between
two strobes, so the invariant relates both ends of the line at every tick: the phase, the ticks
since the start bit began, determines state, bit counter and 16x counter of the receiver
(`InStep`); the drift decides only which bit the line carries in that phase (`Drifted`, lemma
`Sampled`); the shift register holds the first bits of the byte sent (`Shifted`); the line does not
fall before the stop bit is over, when the receiver already looks for the next start (`Level`).
The synchronizer: from `FlagXdpAssumption`, `Ratio <= Gap`. `NoneLost` is not inductive: two
flips of toggle between two samples cancel. `Spacing` excludes this: a flip not yet
sampled is younger than the last edge of clko, so the next pulse, at least `Gap`
edges later, needs more than `Ratio` edges between two of clko. Their
conjunction is inductive (`XdpInvariance`); `NoneLostCorrect` and `XdpTypeCorrect` follow.

**ConsoleProofs**, about both of the console's inputs. The shell: from `ShellAssumption`,
for every FIFO depth, word and argument buffer. `ShellTypeCorrect` is inductive: no word outgrows its buffer.
`NoStaleCommandCorrect` needs `Explained`: between commands the tokenizer is at the start
of a word, and within one the line explains what it holds (a word begun,
an argument, an ESC, or more characters than a word has).
`ExecutesTypedCorrect` is about every command that can be typed. Its characters (`Keys`) join the words, so
`FlattenJoins` and `FlattenPlaces` first say where FlattenSeq puts each of the sequences it joins, by an
induction over numbers (`Upwards`, from the library's theorem on minimal elements). `TypedLaidOut` then gives
every command a `Layout`: after which character each word begins. The invariant is `Placing`: with m characters
read, the shell is where the line is in every command that begins with them (`Placed`: before a word,
in a plain one, in quotes, or behind them), with as much of the word in the tokenizer and as many words in argv. `ReadsOn` takes
it from one character to the next, and `WordsExecuted` reads it at the last; both need `Begun`, that no byte is in
hand before the tokenizer is set up. `EscFreshCorrect` is an action property.
The ring: from `RingAssumption`, for every ring of at least two slots.
`RingTypeCorrect` is inductive (`tail` leaves the ring only before `ReadMask`). `RingRefinement`
maps the ring to `Queued`: the lemmas `SliceIsSeq`, `SliceGet`, `SlicePut` say what moving
an index does to a slice of the ring, `CountFacts` and `QueuedFacts` what the
indices say of its length, with the full ring told from the empty one by where the
reader is; `StoreImplements` matches the handler's store with the three cases of
`Put`, `CopyImplements` the reader's copy with `Get`; every other step but
`uart_init` is a stutter.
The theorems are about the two parts by themselves (`ShellSafe`, `RingSafe`); `ConsoleCorrect` carries all
of them over to `Console`, whose behaviours move one part and leave the other at its start
(`BuildsAreParts`).

**SysTimerProofs**: from `TimerAssumption`, for every width of the registers and all dividers and
periods. `TypeCorrect`; `TickAccountCorrect` with `HandlerHolds` (while the handler
runs, IPEND is set and keeps ILAT clear) and `Waiting` (the tick that waits is the one in the controller,
and the only one that may not be counted yet).
`NoRunawayCorrect` with `Prescaled`: the prescaler is below its divider or the restart
that clears it is still among the accesses to come, which `Shape` says of what is left of a
call. `PairSettlesCorrect` with `Paired`: the two registers are equal but between
their two stores. `StaleTicksCorrect` with `Few`: ticks counted, on their way to the
handler, and the period under way since the call make at most two until a period
begun after the call ends. `TickSpacingCorrect` with `Spaced`: the unit runs on and the clocks since the last
interrupt are those of the divided clocks counted and of the one under way (`Elapsed`), for the
divider in force, a start within a period included (`PrescalerClock`). Only a new divider and a unit
that was stopped when its period ended begin the account anew.

**DriversProofs**, about the flash, both two-wire drivers and the text functions as parts of `Drivers`. The promises of the drivers are about a
call that has returned and say nothing of the middle of one, so the invariants follow the program through
its list of commands or accesses.
`OcRightCorrect`, for every set of registers and values (`OcAssumption`): `OcInv` lists the suffixes of the
scripts of `i2c_writereg`, `i2c_readreg` and `i2c_probe` that can be left, and with each what the slave
expects and points at, whether something was refused, and the registers as they were before the call. After
a refused register number the register is not the one asked for (`Pointed`).
`TwiRightCorrect`, for every number of bytes and polls (`TwiAssumption`): the scripts grow with the call, so the
invariant `TwiInv` speaks of place k in them (`At`), and the lemmas `SendScript` and `RecvScript` say what access
is at each. At each place it says whether HOLD is set (`SendHold`, `RecvHold`), what the slave has got
(`SendBytes`), and how many transfers are begun and how many bytes stored (`Booked`), counted with the
transfer under way; a receive has AUTOARM start a transfer by a read of the data register, so the two counts differ by
the place. What is sent is in order at every place, and no read is counted that was refused. There is one lemma for each kind of step: `SendStep` and `RecvStep` for the program, `SendMoves` and `RecvMoves` for the controller ending a
transfer, `RefusedStep` for what a NAK leaves to do.
`BusReleasedCorrect` follows from both: before a call may end, an access without HOLD or a STOP has
been given, and the bus is free or a transfer is under way that frees it, also after `twi_wait` has
given up (`Freed`).
`FlashRightCorrect`, for every number of words, of pages and of words in a page (`FlashAssumption`). `FlashInv` says
at which of its places a call is: `FlashReading` has the dummy bytes and the words to come, `FlashUpdating` is
what an erase and a block of a write have in common (`FlashEnabling`, `FlashSending`, `FlashPolling`). A transfer
takes steps of its own and outlives a deselect, so a place does not name the session of the flash but
what it will be once the transfer is over (`Settled`, and `Held` for the answer): a step of the controller
leaves both alone (`CoreKeeps`). A read is one word ahead:
with j words read, the flash is at the word after the one that was shifted in (`FlashFetching`). Before a command
has its effect the contents are as they were (`Kept`), after it as promised (`Changed`, by `ProgramFits`: words of a
block that fits a page do not wrap); WIP and WEL only fall while the status is asked for, so an
answer with a bit clear is still true when it is looked at (`Told`). Contents and goal agree unless a cycle is under way
(`FlashTypes`), so a read, which begins at rest, returns what is stored. After a call that was
cut into by a transfer under way nothing of this is claimed (`was.rest`), but the places are: the
next call finds the flash selected or not, and the controller idle or not, as they say.

`TypesCorrect` (with `OcTypes` and `TwiTypes` beside the invariants above) is about what a call
stores: a receive moves and stores no more bytes than the accesses it has left allow, and a
byte that is awaited has a place to go (`Begun`, `PacedBy`, with `SendPace`, `StorePace`, `RecvPace`
and `ProbePace` for the places a call can be at), after a call that gave up as well.

`TextRightCorrect` is about every call of the text functions, for numbers of 4 to 32 bits and any widths, precisions and
lengths of text (`TextAssumption`). The state says nothing, `TextInv`: a sample is a call; all is in what the functions yield.
Their loops are recursive functions, and what such a loop makes of n digits follows by `Upwards` once
more: `StepsExist` and `StepsKeep` give the one function with the value of every step, and
`QuotientsAre`, `SumsAre` and `ValuesExist` take the division, the sum by place value and the parser from it.
Between place value and parser stands the number read from the left (`Horner`): `ReadsHorner` equates it with the sum, `ParseIs`
with the parser up to the width that a digit too many wraps at. `DigitsAre`: each digit divides by at least two, so
nothing is left after as many digits as the number has bits, and what was divided off reads as the number. The
provers know a power of two only for a numeral as exponent, hence `Doubles`, from which `PowersGrow` and `Widths` follow.
`NumberIsRight` then is about layout: what is free of the field is filled at one place (`Only`), zeros before digits do
not change what they read as (`ZerosRead`), and sign and value are those of the argument at its width (`ArgumentIs`).

Only model-checked: `Nesting`, `FlagCleared` and `Solicited` beyond one
channel, `CarriesOn`, `AllOrNothing`, and all liveness (`FrameStrobed`,
`AllSent`, `TopServed`, `EventHandled`, `Drained`, `InputGoesOn`, `KeepsTicking`,
`CallsReturn`), which with fairness is out of the prover's reach.

## 6 What is not modelled

* Inside modelled components: EXTRA_REGISTER of the FIFO (never instantiated);
  a change of UART_CLKDIV under way (the firmware writes it only with UART_RESET set, which holds the divider);
  REARM, exceptions (nmi, exc) and emulation (emuack) in the ZPUng flags;
  instruction data paths; the status port of MISS, which the code does not drive;
  PulseStrobe (never instantiated); more than one PWM unit, and a width other than the period;
  below a transfer, the bits of SPI and I2C; the conversion %n and literal text of
  a format; arguments of the commands in helper.c.
* Planned, section 7: ZPUng debug control, pyrv32 interrupts, bus bridges, GPIO, CRC.
* Not planned: the data paths of the CPUs (instruction sets at useful widths are out
  of reach of TLC, and ZPUng's is generated from MyHDL); neo430's core and the
  controllers under both I2C drivers (not in the repository); decoders generated from XML;
  JTAG and vendor primitives; RAM wrappers; build tools, test benches, boards, and the
  netpp/GHDL co-simulation I/O.

Share of the code. Of the 11170 lines of C and Python in the repository, 8216 are
the two font tables `sw/bm_font4x8*.c`, bitmaps without behaviour. Most of the rest is
board self-test, generated headers, LCD and camera helpers and
build scripts. The hardware, where most of the
system's logic is, is VHDL, which a count by these two languages does not see: the
modules map it line by line, too.

Facts met while modelling that no property is about:

* `uart_puts` and `uart_write` (sw/uart.c) store to UART_RXR; it works where the two data
  registers share an address, as in agathe.xml and beatrix.xml.
* `argc` is not compared with the size of `argv`, nor the fill with that of its buffer
  (sw/main.c:193); `Shell` stops there.
* `i2c_writereg` returns 0 whether or not the slave acknowledged (sw/i2c_oc.c:46), and
  a read whose register number was refused stores another register without an error:
  `OcReadTold` names the case.
* A `%.1s` prints nothing: the loop tests the character before the limit.
* `twi_detect` probes addresses 1 to 126. `Twi` assumes one master: arbitration is never lost.
* `perio/twi.vhdl` instantiates an `i2c_master` with ports `perio/i2c_master.vhdl` does not
  have; from S_START, a read of the latter goes straight to S_READ.
* `parse_dec` is declared in sw/driver.h:186 with another type than sw/arch defines.
* `pwm.vhdl` stops at the end of a period only, so a stop and start within one goes
  unnoticed: `TickSpacing` holds across it, but START resets the prescaler, so each cuts the prescaled clock it meets.
  The interval in which `systimer_init` writes another divider is left out of it.
* `systimer_init` reads, changes and writes SIC_IMASK while the handler of the older
  CPU may clear it; nothing else sets the mask again.

## 7 Plan

In order, most important first. Each comes with its MC module, mutants and, where
named, proofs.

1. A sharper account of when an override is safe, and `Nesting` under it; exceptions
   and REARM.
2. `ZpuDebug`: emulation states driven by `FlagXdp`; then pyrv32's interrupt control.
3. The text functions by place value: what a conversion of n digits returns, proved by the number of digits.
4. Small ones: bus bridges, GPIO, CRC16 against the polynomial.
