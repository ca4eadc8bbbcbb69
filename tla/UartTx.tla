------------------------------- MODULE UartTx -------------------------------
(***************************************************************************)
(* The transmit path of the UART: uart_putc (sw/uart.c) polling TXREADY    *)
(* and writing UART_TXR, the transmit FIFO, the transmitter                *)
(* (hdl/perio/uart_tx.vhdl) and the divider that enables it once per bit   *)
(* (hdl/perio/uart.vhdl).                                                  *)
(*                                                                         *)
(* One step is a period of clk: its falling edge, where the transmitter    *)
(* moves, then its rising edge, where FIFO, bit counter and divider move.  *)
(***************************************************************************)
EXTENDS Integers, Sequences

CONSTANTS
  Depth,      \* words in the transmit FIFO
  Bytes,      \* bytes the program sends: eight bits, first on the line first
  Tick,       \* clk periods between two clk16_enable: UART_CLKDIV + 1
  Oversample  \* clk16_enable from one txclk_enable to the next: 16 in the code

Bit == {0, 1}

ASSUME TxAssumption ==
  /\ Depth \in Nat /\ Depth >= 2
  /\ Bytes \subseteq [1 .. 8 -> Bit] /\ Bytes # {}
  /\ Tick \in Nat \ {0} /\ Oversample \in Nat \ {0}

VARIABLES
  iptr, optr, fstate, mem, txd,               \* the FIFO; txd is its odata
  state, dsr, bitcount, tx, data_out_en,      \* the transmitter
  txclken, counter, count16,                  \* the enable and its counters
  cpu,                                        \* "poll" or "write" of uart_putc
  uart_reset,                                 \* bit UART_RESET of UART_CONTROL
  (* What an observer knows: bytes accepted and not yet seen on the line,  *)
  (* the bits of the frame being received, and whether some reset found the*)
  (* transmitter busy.                                                     *)
  written, seen, hitbusy

fvars == <<iptr, optr, fstate, mem, txd>>
txvars == <<state, dsr, bitcount, tx, data_out_en>>
vars == <<fvars, txvars, txclken, counter, count16, cpu, uart_reset,
          written, seen, hitbusy>>

Fifo == INSTANCE FifoBuffer WITH Data <- Bytes, state <- fstate, rdata <- txd

TypeOK ==
  /\ Fifo!TypeOK
  /\ state \in {"S_IDLE", "S_START", "S_SHIFT", "S_STOP"}
  /\ dsr \in [1 .. 8 -> Bit] /\ bitcount \in 0 .. 7 /\ tx \in Bit
  /\ {data_out_en, txclken, uart_reset, hitbusy} \subseteq BOOLEAN
  /\ counter \in 0 .. Tick - 1 /\ count16 \in 0 .. Oversample - 1
  /\ cpu \in {"poll", "write"}
  /\ written \in Seq(Bytes) /\ Len(written) <= Depth + 1
  /\ seen \in Seq(Bit) /\ Len(seen) <= 10

-----------------------------------------------------------------------------
(* Falling edge: the transmitter. *)

nextstate_LateReady ==    \* data_ready looked at after the stop bit only
  CASE state = "S_IDLE" -> "S_START"
    [] state = "S_STOP" -> IF Fifo!dready THEN "S_START" ELSE "S_IDLE"
    [] state = "S_START" -> "S_SHIFT"
    [] state = "S_SHIFT" -> IF bitcount = 0 THEN "S_STOP" ELSE "S_SHIFT"

nextstate ==
  IF state \in {"S_IDLE", "S_STOP"}
  THEN IF Fifo!dready THEN "S_START" ELSE "S_IDLE"
  ELSE IF state = "S_SHIFT" /\ bitcount = 0 THEN "S_STOP" ELSE "S_SHIFT"

sync_state_advance ==
  state' = IF ~txclken THEN state
           ELSE IF uart_reset THEN "S_IDLE" ELSE nextstate

shift_LatchesLate ==      \* byte latched one bit time after its pop
  /\ data_out_en' = (txclken /\ state = "S_START")
  /\ dsr' = IF ~txclken THEN dsr
            ELSE IF state = "S_SHIFT" /\ bitcount = 1 THEN Append(Tail(txd), 1)
            ELSE IF state = "S_SHIFT" THEN Append(Tail(dsr), 1) ELSE dsr
  /\ tx' = IF ~txclken THEN tx
           ELSE IF state = "S_START" THEN 0
           ELSE IF state = "S_SHIFT" THEN (IF bitcount = 1 THEN txd[1] ELSE dsr[1])
           ELSE 1

shift ==
  /\ data_out_en' = (txclken /\ state = "S_START")
  /\ dsr' = IF ~txclken THEN dsr
            ELSE IF state = "S_START" THEN txd
            ELSE IF state = "S_SHIFT" THEN Append(Tail(dsr), 1) ELSE dsr
  /\ tx' = IF ~txclken THEN tx
           ELSE IF state = "S_START" THEN 0
           ELSE IF state = "S_SHIFT" THEN dsr[1] ELSE 1

(* Rising edge: bit counter, divider, FIFO.  The counter sees the state    *)
(* the falling edge left, the FIFO the data_out_en it raised.              *)

bitcounter_FourBits ==    \* one bit too many in the counter
  bitcount' = IF ~txclken THEN bitcount
              ELSE IF state' = "S_SHIFT" THEN (bitcount + 1) % 16 ELSE 0

bitcounter ==
  bitcount' = IF ~txclken THEN bitcount
              ELSE IF state' = "S_SHIFT" THEN (bitcount + 1) % 8 ELSE 0

(* UART_RESET clears counter, not count16.                                 *)
clkdiv ==
  LET clk16_enable == ~uart_reset /\ counter = Tick - 1
      wraps == count16 = Oversample - 1
  IN  /\ counter' = IF uart_reset \/ clk16_enable THEN 0 ELSE counter + 1
      /\ count16' = IF ~clk16_enable THEN count16 ELSE IF wraps THEN 0 ELSE count16 + 1
      /\ txclken' = (clk16_enable /\ wraps)

fifo_NoReset(wren, byte) ==    \* the FIFO keeps its words over UART_RESET
  Fifo!Clock(wren, byte, data_out_en')

fifo(wren, byte) ==
  IF uart_reset THEN Fifo!Reset(wren, byte) ELSE Fifo!Clock(wren, byte, data_out_en')

-----------------------------------------------------------------------------
(* An observer of the line, sampling it once per bit.  It gives up once a  *)
(* reset found the transmitter busy.                                       *)

FrameEnd == Len(seen) = 10

Observe(accepted) ==
  /\ hitbusy' = (hitbusy \/ (uart_reset /\ state # "S_IDLE"))
  /\ written' = IF uart_reset \/ hitbusy' THEN <<>>
                ELSE (IF FrameEnd /\ written # <<>> THEN Tail(written) ELSE written)
                       \o accepted
  /\ LET begun == IF FrameEnd THEN <<>> ELSE seen
     IN  seen' = IF hitbusy' THEN <<>>
                 ELSE IF ~txclken \/ (begun = <<>> /\ tx' = 1) THEN begun
                 ELSE Append(begun, tx')

-----------------------------------------------------------------------------
(* A period of clk without a write to UART_TXR, and one with. *)

Period(wren, byte) ==
  /\ sync_state_advance
  /\ shift
  /\ bitcounter
  /\ clkdiv
  /\ fifo(wren, byte)

Wait ==
  /\ \E byte \in Bytes : Period(FALSE, byte)
  /\ Observe(<<>>)
  /\ UNCHANGED <<cpu, uart_reset>>

Poll_IgnoresReady ==            \* uart_putc without its polling loop
  /\ cpu = "poll" /\ ~uart_reset
  /\ \E byte \in Bytes : Period(FALSE, byte)
  /\ Observe(<<>>)
  /\ cpu' = "write"
  /\ UNCHANGED uart_reset

Poll ==                         \* TXREADY read as 1: the loop ends
  /\ cpu = "poll" /\ ~uart_reset
  /\ Fifo!iready
  /\ \E byte \in Bytes : Period(FALSE, byte)
  /\ Observe(<<>>)
  /\ cpu' = "write"
  /\ UNCHANGED uart_reset

Write(byte) ==                  \* MMR(Reg_UART_TXR) = c
  /\ cpu = "write" /\ ~uart_reset
  /\ Period(TRUE, byte)
  /\ Observe(<<byte>>)
  /\ cpu' = "poll"
  /\ UNCHANGED uart_reset

SetReset(on) ==                 \* uart_reset(): UART_RESET written 1, then 0
  /\ cpu = "poll"
  /\ uart_reset' = on
  /\ \E byte \in Bytes : Period(FALSE, byte)
  /\ Observe(<<>>)
  /\ UNCHANGED cpu

Init ==
  /\ iptr = 0 /\ optr = 0 /\ fstate = "S_IDLE"
  /\ \E byte \in Bytes : mem = [a \in 0 .. Depth - 1 |-> byte] /\ txd = byte /\ dsr = byte
  /\ state = "S_IDLE" /\ bitcount = 0 /\ tx = 1 /\ data_out_en = FALSE
  /\ txclken = FALSE /\ counter = 0 /\ count16 = 0
  /\ cpu = "poll" /\ uart_reset = FALSE
  /\ written = <<>> /\ seen = <<>> /\ hitbusy = FALSE

Next ==
  \/ Wait
  \/ Poll
  \/ \E byte \in Bytes : Write(byte)
  \/ \E on \in BOOLEAN : SetReset(on)

(* clk runs. *)
Spec == Init /\ [][Next]_vars /\ WF_vars(Next)

-----------------------------------------------------------------------------
(* The frames on the line are the bytes written to UART_TXR, in order,     *)
(* each with one start and one stop bit: none is dropped, doubled or made  *)
(* up by the pop racing the next write.  UART_RESET clears the FIFO but    *)
(* not the transmitter, which takes its reset only with an enable that the *)
(* divider no longer makes: this holds until a reset finds it busy.        *)
FramesMatch ==
  FrameEnd /\ ~hitbusy =>
    /\ written # <<>>
    /\ seen = <<0>> \o Head(written) \o <<1>>

(* The transmitter respects the FIFO's contract, until then: it pops only  *)
(* words that are there, which is what FifoBuffer assumes of its reader.   *)
FifoUsed == [][hitbusy' \/ Fifo!Next]_fvars

(* A program that polls TXREADY never overruns the FIFO, whenever it resets*)
(* the UART.                                                               *)
NoOverrun == ~Fifo!over

(* Every byte accepted is on the line some time later, unless a reset      *)
(* clears it.                                                              *)
AllSent == \A byte \in Bytes :
  (written # <<>> /\ Head(written) = byte)
    ~> (uart_reset \/ hitbusy \/ (FrameEnd /\ seen = <<0>> \o byte \o <<1>>))

=============================================================================
