--------------------------------- MODULE Twi --------------------------------
(***************************************************************************)
(* The two-wire driver (sw/twi.c) on its controller.  The controller the   *)
(* core is built from (perio/twi.vhdl instantiates one with other ports    *)
(* than perio/i2c_master.vhdl has) is not in the repository: it is modelled*)
(* as the driver uses it.  A write to WDATA, or a read of RDATA with       *)
(* AUTOARM, starts the transfer of one byte, which lasts any time; HOLD    *)
(* keeps the bus after it.  There is one master: arbitration is not lost.  *)
(***************************************************************************)
EXTENDS Integers, Sequences

CONSTANTS
  Retries,  \* polls of twi_wait: 10000
  MaxBytes  \* bound: bytes of a call

ASSUME TwiAssumption == Retries \in Nat \ {0} /\ MaxBytes \in Nat \ {0}

VARIABLES
  control,            \* the bits set in TWI_CONTROL
  sladdr,             \* the direction in TWI_SLADDR
  wdata, rdata, nak,
  busy, bus,          \* a transfer is under way; the bus: "free", "write", "read"
  retry,              \* of twi_wait
  tops, twicall, err, \* accesses still to make, the call, and whether it returns ERR_NACK
  data,               \* bytes stored
  sent, moved,        \* history: bytes put on the bus, and how many came from the slave
  nacks,              \* history: transfers of the call that the slave did not acknowledge
  late                \* history: the call met a transfer it did not wait for

twivars == <<control, sladdr, wdata, rdata, nak, busy, bus, retry, tops, twicall,
             err, data, sent, moved, nacks, late>>

TwiTypeOK ==
  /\ control \subseteq {"HOLD", "AUTOARM", "MACK"}
  /\ sladdr \in {"write", "read"} /\ bus \in {"free", "write", "read"}
  /\ {nak, busy, late, err} \subseteq BOOLEAN
  /\ retry \in -1 .. Retries
  /\ wdata \in 0 .. MaxBytes /\ {rdata, moved} \subseteq 0 .. MaxBytes + 2
  /\ Len(data) <= MaxBytes
  /\ nacks \subseteq {"write", "read"} \X (0 .. MaxBytes)

TwiInit ==
  /\ control = {} /\ sladdr = "write" /\ wdata = 0 /\ rdata = 0 /\ nak = FALSE
  /\ busy = FALSE /\ bus = "free" /\ retry = Retries
  /\ tops = <<>> /\ twicall = [op |-> "none"] /\ err = FALSE /\ data = <<>>
  /\ sent = <<>> /\ moved = 0 /\ nacks = {} /\ late = FALSE

-----------------------------------------------------------------------------
(* The controller ends a transfer.  It sends the address first, unless it  *)
(* holds the bus in the same direction; address and byte may be refused.   *)
Transferred ==
  /\ busy
  /\ busy' = FALSE
  /\ bus' = IF "HOLD" \in control THEN sladdr ELSE "free"
  /\ nak' \in IF sladdr = "read" /\ bus = "read" THEN {FALSE} ELSE BOOLEAN
  /\ nacks' = IF nak' THEN nacks \cup {<<sladdr, wdata>>} ELSE nacks
  /\ sent' = IF sladdr = "write" THEN Append(sent, wdata) ELSE sent
  /\ IF sladdr = "read" /\ ~nak' THEN moved' = moved + 1 /\ rdata' = moved'
                                 ELSE UNCHANGED <<moved, rdata>>
  /\ UNCHANGED <<control, sladdr, wdata, retry, tops, twicall, err, data, late>>

-----------------------------------------------------------------------------
(* Accesses.  A wait says what its caller makes of a NAK: nothing, an      *)
(* error, or an error after another byte to leave the hold.                *)
Control(bits) == [reg |-> "CONTROL", v |-> bits]
Sladdr(rw) == [reg |-> "SLADDR", v |-> rw]
Wdata(b) == [reg |-> "WDATA", v |-> b]
Rdata == [reg |-> "RDATA"]
Wait(ifnak) == [reg |-> "STATUS", ifnak |-> ifnak]

twi_send_Short(n) ==     \* the count is tested before it is decremented
  <<Control({"HOLD"}), Sladdr("write"), Wdata(0), Wait("release")>>
    \o [i \in 1 .. 2 * (n - 1) |-> IF i % 2 = 1 THEN Wdata((i + 1) \div 2) ELSE Wait("go")]
    \o <<Wdata(n), Wait("error")>>

twi_send_Unchecked(n) ==     \* the last byte's status is not looked at
  <<Control({"HOLD"}), Sladdr("write"), Wdata(0), Wait("release")>>
    \o [i \in 1 .. 2 * (n - 1) |-> IF i % 2 = 1 THEN Wdata((i + 1) \div 2) ELSE Wait("go")]
    \o <<Control({}), Wdata(n), Wait("go")>>

twi_send_Ahead(n) ==     \* the pointer is advanced before its byte is sent
  <<Control({"HOLD"}), Sladdr("write"), Wdata(0), Wait("release")>>
    \o [i \in 1 .. 2 * (n - 1) |-> IF i % 2 = 1 THEN Wdata((i + 3) \div 2) ELSE Wait("go")]
    \o <<Control({}), Wdata(n), Wait("error")>>

twi_send(n) ==
  <<Control({"HOLD"}), Sladdr("write"), Wdata(0), Wait("release")>>
    \o [i \in 1 .. 2 * (n - 1) |-> IF i % 2 = 1 THEN Wdata((i + 1) \div 2) ELSE Wait("go")]
    \o <<Control({}), Wdata(n), Wait("error")>>

twi_recv_Armed(n) ==     \* AUTOARM stays set for the last byte but one
  <<Control({}), Sladdr("write"), Wdata(0), Wait("error"), Sladdr("read")>>
    \o IF n = 1 THEN <<Wdata(0), Wait("go"), Rdata>>
       ELSE <<Control({"AUTOARM", "HOLD"}), Wdata(0), Wait("go")>>
              \o [i \in 1 .. 2 * (n - 2) |-> IF i % 2 = 1 THEN Rdata ELSE Wait("go")]
              \o <<Rdata, Wait("go"), Control({"MACK"}), Wdata(0), Wait("go"), Rdata>>

twi_recv_Disarmed(n) ==     \* AUTOARM is cleared one read early
  <<Control({}), Sladdr("write"), Wdata(0), Wait("error"), Sladdr("read")>>
    \o IF n = 1 THEN <<Wdata(0), Wait("go"), Rdata>>
       ELSE <<Control({"AUTOARM", "HOLD"}), Wdata(0), Wait("go"), Control({"MACK"})>>
              \o [i \in 1 .. 2 * (n - 2) |-> IF i % 2 = 1 THEN Rdata ELSE Wait("go")]
              \o <<Rdata, Wait("go"), Wdata(0), Wait("go"), Rdata>>

twi_recv(n) ==
  <<Control({}), Sladdr("write"), Wdata(0), Wait("error"), Sladdr("read")>>
    \o IF n = 1 THEN <<Wdata(0), Wait("go"), Rdata>>
       ELSE <<Control({"AUTOARM", "HOLD"}), Wdata(0), Wait("go")>>
              \o [i \in 1 .. 2 * (n - 2) |-> IF i % 2 = 1 THEN Rdata ELSE Wait("go")]
              \o <<Control({"MACK"}), Rdata, Wait("go"), Wdata(0), Wait("go"), Rdata>>

twi_probe == <<Sladdr("write"), Wdata(0), Wait("error")>>

twi_reset == <<Control({"I2C_RESET"}), Control({})>>

TwiCall ==
  /\ tops = <<>>
  /\ \/ \E n \in 1 .. MaxBytes :
          \/ twicall' = [op |-> "send", n |-> n] /\ tops' = twi_send(n)
          \/ twicall' = [op |-> "recv", n |-> n] /\ tops' = twi_recv(n)
     \/ twicall' = [op |-> "probe"] /\ tops' \in {twi_probe, twi_reset \o twi_probe}
  /\ err' = FALSE /\ data' = <<>>
  /\ sent' = <<>> /\ moved' = 0 /\ nacks' = {}
  /\ late' = busy
  /\ UNCHANGED <<control, sladdr, wdata, rdata, nak, busy, bus, retry>>

Reset == Head(tops).reg = "CONTROL" /\ "I2C_RESET" \in Head(tops).v

Store ==
  /\ tops # <<>> /\ Head(tops).reg # "STATUS"
  /\ control' = IF Reset THEN {} ELSE IF Head(tops).reg = "CONTROL" THEN Head(tops).v ELSE control
  /\ sladdr' = IF Head(tops).reg = "SLADDR" THEN Head(tops).v ELSE sladdr
  /\ wdata' = IF Head(tops).reg = "WDATA" THEN Head(tops).v ELSE wdata
  /\ data' = IF Head(tops).reg = "RDATA" THEN Append(data, rdata) ELSE data
  /\ busy' = IF Reset THEN FALSE
             ELSE \/ busy \/ Head(tops).reg = "WDATA"
                  \/ Head(tops).reg = "RDATA" /\ "AUTOARM" \in control
  /\ bus' = IF Reset THEN "free" ELSE bus
  /\ late' = (late /\ ~Reset)
  /\ tops' = Tail(tops)
  /\ UNCHANGED <<rdata, nak, retry, twicall, err, sent, moved, nacks>>

Poll_NoCount ==     \* retry is not decremented
  /\ tops # <<>> /\ Head(tops).reg = "STATUS"
  /\ busy /\ retry > 0
  /\ UNCHANGED twivars

(* twi_wait.  It counts the polls that find the controller busy.           *)
Poll ==
  /\ tops # <<>> /\ Head(tops).reg = "STATUS"
  /\ busy /\ retry > 0
  /\ retry' = retry - 1
  /\ UNCHANGED <<control, sladdr, wdata, rdata, nak, busy, bus, tops, twicall, err, data,
                 sent, moved, nacks, late>>

(* It is over, and its caller goes on.                                     *)
WaitOver ==
  /\ retry' = Retries
  /\ late' = (late \/ busy)
  /\ LET ends == nak /\ Head(tops).ifnak # "go"
     IN  /\ err' = (err \/ ends)
         /\ tops' = IF ~ends THEN Tail(tops)
                    ELSE IF Head(tops).ifnak = "release" THEN <<Control({}), Wdata(0)>>
                    ELSE <<>>
  /\ UNCHANGED <<control, sladdr, wdata, rdata, nak, busy, bus, twicall, data, sent, moved, nacks>>

(* It gives up silently: retry is then -1, not 0.                          *)
GoOn ==
  /\ tops # <<>> /\ Head(tops).reg = "STATUS"
  /\ IF busy THEN retry = 0 ELSE retry > 0
  /\ WaitOver

(* But it executes BREAK, which halts the CPU, when its last poll finds    *)
(* the controller ready: retry is 0.                                       *)
Halted == tops # <<>> /\ Head(tops).reg = "STATUS" /\ ~busy /\ retry = 0

(* A debugger may continue it, at once where BREAK is empty.               *)
Continue == Halted /\ WaitOver

TwiProgram == Store \/ Poll \/ GoOn \/ Continue

TwiNext == TwiCall \/ TwiProgram \/ Transferred

(* Nobody has to continue a halted CPU.                                    *)
TwiFair == WF_twivars(TwiProgram /\ ~Halted)

-----------------------------------------------------------------------------
Returned(op) == tops = <<>> /\ twicall.op = op /\ ~err /\ ~late

(* A send that returns 0 has put its bytes on the bus, each once and in    *)
(* their order, and the slave has taken the first and the last.            *)
TwiSent ==
  Returned("send") =>
    /\ sent = [i \in 1 .. twicall.n + 1 |-> i - 1]
    /\ {<<"write", 0>>, <<"write", twicall.n>>} \cap nacks = {}

(* A read stores the bytes asked for, in their order, and moves no other,  *)
(* though some transfers are started by writing and others by reading;     *)
(* unless the slave refuses its address the second time.                   *)
TwiReceived ==
  Returned("recv") /\ (\A t \in nacks : t[1] # "read") =>
    data = [i \in 1 .. twicall.n |-> i] /\ moved = twicall.n

(* The bus is let go when a call is over and its last transfer too.        *)
TwiReleased == tops = <<>> /\ ~busy => bus = "free"

(* Every call returns or halts in BREAK, even if the controller stays busy *)
(* for ever.                                                               *)
TwiReturns == tops # <<>> ~> (tops = <<>> \/ Halted)

(* Sending and receiving move the bytes they report.                       *)
TwiRight == TwiSent /\ TwiReceived
=============================================================================
