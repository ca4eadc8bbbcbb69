------------------------------- MODULE UartRx -------------------------------
(***************************************************************************)
(* The UART receiver (hdl/perio/uart_rx.vhdl), one step per rising edge of *)
(* clk, driven by a transmitter whose clock drifts against the receiver's. *)
(*                                                                         *)
(* Bytes are sequences of eight bits, least significant (first on the      *)
(* line) first.  Time is counted in clk16en ticks, sixteen to a bit; each  *)
(* bit of the transmitter may be a tick short or long, as long as the      *)
(* accumulated drift of a frame stays within MaxEarly and MaxLate ticks.   *)
(***************************************************************************)
EXTENDS Integers, Sequences

CONSTANTS
  Bytes,      \* bytes the transmitter sends
  StopBits,   \* levels of the stop bit: {1}, or {0, 1} with framing errors
  MaxEarly,   \* bounds of the drift within a frame, in ticks
  MaxLate

Bit == {0, 1}
Byte == [1 .. 8 -> Bit]

ASSUME RxAssumption ==
  /\ Bytes \subseteq Byte /\ StopBits \subseteq Bit
  /\ MaxEarly \in Nat /\ MaxLate \in Nat

VARIABLES
  (* the receiver *)
  state, rxd, rxtrigger, count, bitcount, dsr, strobeq, data, frame_err,
  (* the transmitter: bit of the frame being sent (0: idle, 1: start, 2..9:*)
  (* data, 10: stop), ticks left of it, drift, byte and stop bit           *)
  pos, left, drift, sent, stop,
  owed        \* frames begun and not yet strobed out, saturating at 2

rvars == <<state, rxd, rxtrigger, count, bitcount, dsr, strobeq, data, frame_err>>
lvars == <<pos, left, drift, sent, stop>>
vars == <<rvars, lvars, owed>>

TypeOK ==
  /\ state \in {"S_IDLE", "S_START", "S_SHIFT", "S_STOP"}
  /\ {rxd, strobeq} \subseteq Bit /\ rxtrigger \in BOOLEAN
  /\ count \in 0 .. 15 /\ bitcount \in 0 .. 7
  /\ dsr \in Byte /\ data \in Byte
  /\ frame_err \in BOOLEAN
  /\ pos \in 0 .. 10 /\ left \in 0 .. 17 /\ drift \in -MaxEarly .. MaxLate
  /\ sent \in Byte /\ stop \in Bit /\ owed \in 0 .. 2

-----------------------------------------------------------------------------
(* The line: rx as the receiver samples it at the coming edge.             *)

rx == IF pos \in 2 .. 9 THEN sent[pos - 1]
      ELSE IF pos = 1 THEN 0 ELSE IF pos = 10 THEN stop ELSE 1

BitTime ==   \* length of the next bit, keeping the drift in bounds
  \E e \in {-1, 0, 1} :
    /\ drift' = (IF pos' = 1 THEN 0 ELSE drift) + e
    /\ drift' \in -MaxEarly .. MaxLate
    /\ left' = 15 + e

LineIdle == pos = 0 /\ UNCHANGED lvars

LineStart ==
  /\ pos = 0 \/ (pos = 10 /\ left = 0 /\ stop = 1)
  /\ pos' = 1
  /\ sent' \in Bytes
  /\ stop' \in StopBits
  /\ BitTime

LineHold == left > 0 /\ left' = left - 1 /\ UNCHANGED <<pos, drift, sent, stop>>

LineNextBit ==
  /\ pos \in 1 .. 9 /\ left = 0
  /\ pos' = pos + 1
  /\ BitTime
  /\ UNCHANGED <<sent, stop>>

LineEnd ==
  /\ pos = 10 /\ left = 0
  /\ pos' = 0 /\ drift' = 0
  /\ UNCHANGED <<left, sent, stop>>

Line == LineIdle \/ LineStart \/ LineHold \/ LineNextBit \/ LineEnd

-----------------------------------------------------------------------------
(* Combinational signals of the receiver.                                  *)

is_count_begin == count = 15
is_count_mid == count = 7
strobe_i == IF state = "S_SHIFT" THEN 0 ELSE 1
strobe == strobeq = 0 /\ strobe_i = 1

(* Its clocked processes; tick is clk16en. *)

rx_posedge(tick) ==
  IF tick THEN rxd' = rx /\ rxtrigger' = (rxd = 1 /\ rx = 0)
          ELSE UNCHANGED <<rxd, rxtrigger>>

generate_rxclk_en_OnlyShift(tick) ==
  count' = IF ~tick THEN count
           ELSE IF state # "S_SHIFT" THEN 0 ELSE (count + 1) % 16

generate_rxclk_en(tick) ==
  count' = IF ~tick THEN count
           ELSE IF state = "S_IDLE" THEN 0 ELSE (count + 1) % 16

AfterTick(s, trigger, begin, last) ==
  IF s \in {"S_IDLE", "S_STOP"} THEN IF trigger THEN "S_START" ELSE "S_IDLE"
  ELSE IF s = "S_START" /\ begin THEN "S_SHIFT"
  ELSE IF s = "S_SHIFT" /\ begin /\ last THEN "S_STOP" ELSE s

state_decode(tick) ==
  state' = IF tick
           THEN AfterTick(state, rxtrigger, is_count_begin, bitcount = 7) ELSE state

shift(tick) ==
  dsr' = IF tick /\ is_count_mid /\ state = "S_SHIFT"
         THEN Append(Tail(dsr), rx) ELSE dsr

tx_strobe == strobeq' = strobe_i /\ data' = dsr

bitcounter_NoReset(tick) ==
  bitcount' = IF tick /\ is_count_begin /\ state = "S_SHIFT"
              THEN (bitcount + 1) % 8 ELSE bitcount

bitcounter(tick) ==
  bitcount' = IF ~(tick /\ is_count_begin) THEN bitcount
              ELSE IF state = "S_SHIFT" THEN (bitcount + 1) % 8 ELSE 0

detect_frerr ==
  frame_err' = (frame_err \/ (state = "S_STOP" /\ is_count_mid /\ rx = 0))

-----------------------------------------------------------------------------
(* An edge of clk.  `owed' is bookkeeping: a frame is owed from its start  *)
(* bit until the strobe that hands its byte to the receive FIFO.           *)

Starts == pos' = 1 /\ pos # 1

Clk(tick) ==
  /\ rx_posedge(tick)
  /\ generate_rxclk_en(tick)
  /\ state_decode(tick)
  /\ shift(tick)
  /\ tx_strobe
  /\ bitcounter(tick)
  /\ detect_frerr
  /\ IF tick THEN Line ELSE UNCHANGED lvars
  /\ owed' = LET begun == IF Starts THEN owed + 1 ELSE owed
             IN  IF strobe /\ begun > 0 THEN begun - 1
                 ELSE IF begun > 2 THEN 2 ELSE begun

(* An edge with uart_reset high, while the peer is silent.                 *)
ResetClk(tick) ==
  /\ pos = 0
  /\ state' = "S_IDLE"
  /\ frame_err' = FALSE
  /\ rx_posedge(tick)
  /\ generate_rxclk_en(tick)
  /\ shift(tick)
  /\ tx_strobe
  /\ bitcounter(tick)
  /\ UNCHANGED <<lvars, owed>>

(* After a reset on an idle line; the bit counter and the shift register,  *)
(* which reset does not clear, hold what an aborted frame left there.      *)
Init ==
  /\ state = "S_IDLE" /\ rxd = 1 /\ rxtrigger = FALSE /\ strobeq = 1
  /\ count = 0 /\ bitcount \in 0 .. 7 /\ dsr \in Bytes /\ data = dsr
  /\ frame_err = FALSE
  /\ pos = 0 /\ left = 0 /\ drift = 0 /\ sent \in Bytes /\ stop = 1
  /\ owed = 0

Next == \E tick \in BOOLEAN : Clk(tick) \/ ResetClk(tick)

(* The divider runs: ticks keep coming (uart.vhdl, clkdiv).                *)
Spec == Init /\ [][Next]_vars /\ WF_vars(Clk(TRUE))

-----------------------------------------------------------------------------
(* Every strobe carries the byte of the one frame on the line, whatever    *)
(* the drift of the transmitter: no byte is strobed twice, made up from a  *)
(* glitch of the shift state, or sampled in the neighbouring bit.          *)
FrameDelivered ==
  /\ strobe => /\ owed = 1
               /\ pos \in 9 .. 10
               /\ data = sent
  /\ owed < 2

(* A frame on the line is strobed out before the line is idle again.       *)
FrameStrobed == pos = 1 ~> strobe

(* hdl/plat/agathe.xml on FRERR: "Sticky framing error.  Set when stop bit *)
(* not null": once a frame with a wrong stop bit is over, it is reported.  *)
FramingErrorReported == pos = 0 /\ stop = 0 => frame_err

=============================================================================
