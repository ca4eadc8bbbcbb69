-------------------------------- MODULE I2cOc -------------------------------
(***************************************************************************)
(* The driver of the OpenCores I2C controller (sw/i2c_oc.c) and a slave    *)
(* with registers, which may refuse any byte.  A step is one command of the*)
(* controller, which the driver gives and waits for.                       *)
(***************************************************************************)
EXTENDS Integers, Sequences

CONSTANTS
  Reg,   \* registers of the slave
  Value  \* their contents

ASSUME OcAssumption == Reg # {} /\ Value # {}

VARIABLES
  crs,            \* commands the driver still has to give in its call
  occall, ocret,  \* the call, and its result: a set of flags or of an error
  ocdata,         \* what a read has stored: at most one value
  held,           \* the bus is started and not stopped
  sel, ptr, regs, \* the slave: the byte it expects, its register pointer
  ocwas           \* history: registers when the call began, bytes refused in it

ocvars == <<crs, occall, ocret, ocdata, held, sel, ptr, regs, ocwas>>

OcTypeOK ==
  /\ ocret \in SUBSET {"ERR_NACK", "write", "read"}
  /\ ocdata \in {{}} \cup {{v} : v \in Value}
  /\ held \in BOOLEAN
  /\ sel \in {"none", "reg", "data", "read"} /\ (sel # "none" => held)
  /\ ptr \in Reg /\ regs \in [Reg -> Value]
  /\ \A i \in 1 .. Len(crs) : crs[i].cr \subseteq {"START", "STOP", "READ", "WRITE"}
  /\ ocwas.regs \in [Reg -> Value] /\ ocwas.refused \subseteq {"write", "read", "reg", "data"}

OcInit ==
  /\ crs = <<>> /\ occall = [op |-> "none"] /\ ocret = {} /\ ocdata = {}
  /\ held = FALSE /\ sel = "none"
  /\ ptr \in Reg /\ regs \in [Reg -> Value]
  /\ ocwas = [regs |-> regs, refused |-> {}]

-----------------------------------------------------------------------------
(* Commands: what is sent, and what the driver does when it is refused.    *)
i2c_write(what, x, mode, refused) ==
  [cr |-> {"WRITE"} \cup mode, what |-> what, x |-> x, refused |-> refused]

i2c_read == [cr |-> {"READ", "STOP"}, what |-> "byte"]
Stop == [cr |-> {"STOP"}, what |-> "stop"]

(* The address, to write or to read.                                       *)
Begin(rw, refused) == i2c_write(rw, {}, {"START"}, refused)

i2c_writereg_NoStop(r, v) ==     \* the last byte does not end the transfer
  <<Begin("write", "stop"),
    i2c_write("reg", r, {}, "ignore"), i2c_write("data", v, {}, "ignore")>>

i2c_writereg(r, v) ==
  <<Begin("write", "stop"),
    i2c_write("reg", r, {}, "ignore"), i2c_write("data", v, {"STOP"}, "ignore")>>

i2c_readreg_NoReg(r) ==     \* the register is only sent when writing
  <<Begin("write", "stop"), Begin("read", "leave"), i2c_read>>

i2c_readreg_NoAck(r) ==     \* the first address may be refused as in a probe
  <<Begin("write", "ignore"),
    i2c_write("reg", r, {}, "ignore"), Begin("read", "leave"), i2c_read>>

i2c_readreg(r) ==
  <<Begin("write", "stop"),
    i2c_write("reg", r, {}, "ignore"), Begin("read", "leave"), i2c_read>>

i2c_probe == <<Begin("write", "ignore"), Stop, Begin("read", "ignore"), Stop>>

OcCall ==
  /\ crs = <<>>
  /\ \/ \E r \in Reg, v \in Value :
          occall' = [op |-> "write", r |-> r, v |-> v] /\ crs' = i2c_writereg(r, v)
     \/ \E r \in Reg : occall' = [op |-> "read", r |-> r] /\ crs' = i2c_readreg(r)
     \/ occall' = [op |-> "probe"] /\ crs' = i2c_probe
  /\ ocret' = {} /\ ocdata' = {}
  /\ ocwas' = [regs |-> regs, refused |-> {}]
  /\ UNCHANGED <<held, sel, ptr, regs>>

-----------------------------------------------------------------------------
(* The slave takes a byte it acknowledges; after a refusal it waits for a  *)
(* start.                                                                  *)
Acked(c) ==
  \/ c.what = "write" /\ sel' = "reg" /\ UNCHANGED <<ptr, regs>>
  \/ c.what = "read" /\ sel' = "read" /\ UNCHANGED <<ptr, regs>>
  \/ c.what = "reg" /\ sel = "reg" /\ sel' = "data" /\ ptr' = c.x /\ UNCHANGED regs
  \/ /\ c.what = "data" /\ sel = "data" /\ regs' = [regs EXCEPT ![ptr] = c.x]
     /\ sel' = IF "STOP" \in c.cr THEN "none" ELSE sel
     /\ UNCHANGED ptr

Refused(c) ==
  /\ sel' = "none"
  /\ crs' = IF c.refused = "ignore" THEN Tail(crs)
            ELSE IF c.refused = "stop" THEN <<Stop>> ELSE <<>>
  /\ ocret' = IF c.refused = "ignore" \/ occall.op = "write" THEN ocret ELSE {"ERR_NACK"}
  /\ ocwas' = [ocwas EXCEPT !.refused = @ \cup {c.what}]
  /\ UNCHANGED <<ptr, regs, ocdata>>

OcWrite ==
  /\ crs # <<>> /\ "WRITE" \in Head(crs).cr
  /\ held' = ("STOP" \notin Head(crs).cr)
  /\ \/ /\ Acked(Head(crs))
        /\ crs' = Tail(crs)
        /\ ocret' = IF occall.op = "probe" THEN ocret \cup {Head(crs).what} ELSE ocret
        /\ UNCHANGED <<ocdata, ocwas>>
     \/ Refused(Head(crs))
  /\ UNCHANGED occall

OcRead ==
  /\ crs # <<>> /\ "READ" \in Head(crs).cr
  /\ ocdata' = {regs[ptr]}
  /\ held' = FALSE /\ sel' = "none"
  /\ crs' = Tail(crs)
  /\ UNCHANGED <<occall, ocret, ptr, regs, ocwas>>

OcStop ==
  /\ crs # <<>> /\ Head(crs).cr = {"STOP"}
  /\ held' = FALSE /\ sel' = "none"
  /\ crs' = Tail(crs)
  /\ UNCHANGED <<occall, ocret, ocdata, ptr, regs, ocwas>>

OcNext == OcCall \/ OcWrite \/ OcRead \/ OcStop

-----------------------------------------------------------------------------
(* A call none of whose bytes is refused does what it is asked for, after  *)
(* whatever aborted calls before it; another one changes no register.      *)
OcDone ==
  crs = <<>> =>
    IF ocwas.refused # {} \/ occall.op # "write" THEN
      /\ regs = ocwas.regs
      /\ (occall.op = "read" /\ ocwas.refused = {} => ocdata = {regs[occall.r]})
    ELSE regs = [ocwas.regs EXCEPT ![occall.r] = occall.v]

(* A read without an error has stored the register asked for, but for one  *)
(* whose number the slave refused, which the driver does not look at.      *)
OcReadTold ==
  crs = <<>> /\ occall.op = "read" /\ ocret = {} =>
    ocdata = {regs[occall.r]} \/ ocwas.refused = {"reg"}

(* The bus is released at the end of a call, unless a read has its second  *)
(* address refused.                                                        *)
OcReleased == crs = <<>> /\ held => occall.op = "read" /\ "read" \in ocwas.refused

(* What the calls promise when they return, and what their result tells.   *)
OcRight == OcDone /\ OcReadTold
=============================================================================
