---------------------------- MODULE DriversProofs ---------------------------
(***************************************************************************)
(* The drivers of the serial busses.  On the two-wire bus a register is    *)
(* written or read, and bytes are sent and received, as the call says, and *)
(* the bus is let go, for any number of registers, values and bytes of a   *)
(* call.  The flash is read and written as the call says, and its erase    *)
(* begun, for any number of words and of words in a page.                  *)
(*                                                                         *)
(* None of these properties says anything of the middle of a call.  The    *)
(* invariants follow the program: of the accesses of a call some are over, *)
(* the others are left, and at each place between them they say what the   *)
(* controller and the device on the bus hold, and what has become of the   *)
(* transfer that is under way.                                             *)
(* The types are bounded likewise: what is moved and stored, by the number *)
(* of accesses left.                                                       *)
(*                                                                         *)
(* The text functions are right of every call.  What their loops make of a *)
(* number or a text of any length follows by induction, with a set in place*)
(* of a predicate.                                                         *)
(***************************************************************************)
EXTENDS Drivers, SequenceTheorems, WellFoundedInduction, TLAPS

-----------------------------------------------------------------------------
(* The commands of module I2cOc.                                           *)
RegByte == i2c_write("reg", occall.r, {}, "ignore")
DataByte == i2c_write("data", occall.v, {"STOP"}, "ignore")

Untouched == regs = ocwas.regs

(* What is left of a write, and what the slave has made of the rest.       *)
Writing ==
  /\ occall.r \in Reg /\ occall.v \in Value
  /\ \/ crs = i2c_writereg(occall.r, occall.v) /\ Untouched /\ ocwas.refused = {}
     \/ crs = <<RegByte, DataByte>> /\ Untouched /\ ocwas.refused = {} /\ sel = "reg"
     \/ /\ crs = <<DataByte>> /\ Untouched
        /\ IF ocwas.refused = {} THEN sel = "data" /\ ptr = occall.r ELSE sel = "none"
     \/ crs = <<Stop>> /\ Untouched /\ ocwas.refused # {}
     \/ /\ crs = <<>> /\ ~held
        /\ IF ocwas.refused = {} THEN regs = [ocwas.regs EXCEPT ![occall.r] = occall.v]
                                 ELSE Untouched

(* The slave points at the register of a read, or has refused its number.  *)
Pointed == (ocwas.refused = {} /\ ptr = occall.r) \/ ocwas.refused = {"reg"}

(* What is left of a read.                                                 *)
Reading ==
  /\ Untouched /\ occall.r \in Reg
  /\ \/ crs = i2c_readreg(occall.r) /\ ocwas.refused = {} /\ ocret = {}
     \/ /\ crs = <<RegByte, Begin("read", "leave"), i2c_read>>
        /\ ocwas.refused = {} /\ ocret = {} /\ sel = "reg"
     \/ crs = <<Begin("read", "leave"), i2c_read>> /\ Pointed /\ ocret = {}
     \/ crs = <<i2c_read>> /\ Pointed /\ ocret = {}
     \/ crs = <<Stop>> /\ ocwas.refused # {} /\ ocret # {}
     \/ /\ crs = <<>> /\ (held => "read" \in ocwas.refused)
        /\ \/ ocwas.refused # {} /\ ocret # {}
           \/ ocwas.refused = {"reg"}
           \/ ocdata = {regs[occall.r]}

Probing ==
  /\ Untouched
  /\ \/ crs = i2c_probe
     \/ crs = <<Stop, Begin("read", "ignore"), Stop>>
     \/ crs = <<Begin("read", "ignore"), Stop>>
     \/ crs = <<Stop>>
     \/ crs = <<>> /\ ~held

Resting == crs = <<>> /\ ~held /\ Untouched

History == [regs : [Reg -> Value], refused : SUBSET {"write", "read", "reg", "data"}]

OcInv ==
  /\ regs \in [Reg -> Value]
  /\ ocwas \in History
  /\ \/ occall.op = "none" /\ Resting
     \/ occall.op = "write" /\ Writing
     \/ occall.op = "read" /\ Reading
     \/ occall.op = "probe" /\ Probing

(* What the commands are.                                                  *)
LEMMA Bytes ==
  /\ \A rw, f : /\ Begin(rw, f).cr = {"START", "WRITE"} /\ Begin(rw, f).what = rw
                /\ Begin(rw, f).refused = f
  /\ RegByte.cr = {"WRITE"} /\ RegByte.what = "reg" /\ RegByte.x = occall.r
  /\ RegByte.refused = "ignore"
  /\ DataByte.cr = {"WRITE", "STOP"} /\ DataByte.what = "data" /\ DataByte.x = occall.v
  /\ DataByte.refused = "ignore"
  /\ i2c_read.cr = {"READ", "STOP"} /\ i2c_read.what = "byte"
  /\ Stop.cr = {"STOP"} /\ Stop.what = "stop"
  BY DEF Begin, i2c_write, RegByte, DataByte, i2c_read, Stop

(* The head of a script, and what follows it.                              *)
LEMMA Scripts ==
  /\ \A a : <<a>> # <<>> /\ Head(<<a>>) = a /\ Tail(<<a>>) = <<>>
  /\ \A a, b : <<a, b>> # <<>> /\ Head(<<a, b>>) = a /\ Tail(<<a, b>>) = <<b>>
  /\ \A a, b, c : /\ <<a, b, c>> # <<>> /\ Head(<<a, b, c>>) = a
                  /\ Tail(<<a, b, c>>) = <<b, c>>
  /\ \A a, b, c, d : /\ <<a, b, c, d>> # <<>> /\ Head(<<a, b, c, d>>) = a
                     /\ Tail(<<a, b, c, d>>) = <<b, c, d>>
  OBVIOUS

(* A command sends a byte, which the slave takes or refuses.               *)
LEMMA ByteSent ==
  ASSUME OcInv, OcWrite \/ OcRead \/ OcStop, NEW c, crs # <<>>, Head(crs) = c,
         c.cr \in {{"WRITE"}, {"START", "WRITE"}, {"WRITE", "STOP"}},
         c.what \in {"write", "read", "reg", "data"}
  PROVE  /\ occall' = occall /\ held' = ("STOP" \notin c.cr)
         /\ \/ /\ Acked(c) /\ crs' = Tail(crs) /\ UNCHANGED <<ocdata, ocwas>>
               /\ occall.op # "probe" => ocret' = ocret
            \/ /\ Refused(c) /\ sel' = "none" /\ UNCHANGED <<regs, ptr, ocdata>>
               /\ ocwas' \in History /\ ocwas'.regs = ocwas.regs
               /\ ocwas'.refused = ocwas.refused \cup {c.what}
<1>0. "WRITE" \in c.cr /\ "READ" \notin c.cr /\ c.cr # {"STOP"}
  OBVIOUS
<1>1. OcWrite
  BY <1>0 DEF OcRead, OcStop
<1>2. /\ occall' = occall /\ held' = ("STOP" \notin c.cr)
      /\ \/ /\ Acked(c) /\ crs' = Tail(crs) /\ UNCHANGED <<ocdata, ocwas>>
            /\ occall.op # "probe" => ocret' = ocret
         \/ Refused(c)
  BY <1>1 DEF OcWrite
<1>3. ASSUME Refused(c)
      PROVE  /\ sel' = "none" /\ UNCHANGED <<regs, ptr, ocdata>>
             /\ ocwas' \in History /\ ocwas'.regs = ocwas.regs
             /\ ocwas'.refused = ocwas.refused \cup {c.what}
  <2>1. /\ ocwas' = [ocwas EXCEPT !.refused = @ \cup {c.what}]
        /\ sel' = "none" /\ UNCHANGED <<regs, ptr, ocdata>>
    BY <1>3 DEF Refused
  <2>2. ocwas \in History
    BY DEF OcInv
  <2>3. QED
    BY <2>1, <2>2 DEF History
<1>4. QED
  BY <1>2, <1>3

(* What a command leaves alone.                                            *)
LEMMA Same ==
  ASSUME OcInv, OcWrite \/ OcRead \/ OcStop
  PROVE  /\ crs # <<>> /\ occall' = occall
         /\ RegByte' = RegByte /\ DataByte' = DataByte
<1>1. crs # <<>> /\ occall' = occall
  BY DEF OcWrite, OcRead, OcStop
<1>2. QED
  BY <1>1 DEF RegByte, DataByte

(* A command of a write keeps the account of it.                           *)
LEMMA WriteStep ==
  ASSUME OcInv, occall.op = "write", OcWrite \/ OcRead \/ OcStop
  PROVE  OcInv'
<1>1. /\ Writing /\ regs \in [Reg -> Value]
      /\ ocwas \in History /\ ocwas.regs \in [Reg -> Value]
  BY DEF OcInv, History
<1>2. crs # <<>> /\ occall' = occall /\ RegByte' = RegByte /\ DataByte' = DataByte
  BY Same
<1>3. SUFFICES Writing' /\ regs' \in [Reg -> Value] /\ ocwas' \in History
  BY <1>2 DEF OcInv
<1>4. CASE crs = i2c_writereg(occall.r, occall.v) /\ Untouched /\ ocwas.refused = {}
  <2> DEFINE c == Begin("write", "stop")
  <2>1. Head(crs) = c /\ Tail(crs) = <<RegByte, DataByte>>
    BY <1>4, Scripts DEF i2c_writereg, RegByte, DataByte
  <2>2. CASE Acked(c) /\ crs' = Tail(crs) /\ ocwas' = ocwas
    <3>1. sel' = "reg" /\ regs' = regs
      BY <2>2, Bytes DEF Acked
    <3>2. QED
      BY <1>1, <1>2, <1>4, <2>1, <2>2, <3>1 DEF Writing, Untouched
  <2>3. CASE /\ Refused(c) /\ regs' = regs
             /\ ocwas'.refused # {} /\ ocwas'.regs = ocwas.regs /\ ocwas' \in History
    <3>1. crs' = <<Stop>>
      BY <2>3, Bytes DEF Refused
    <3>2. QED
      BY <1>1, <1>2, <1>4, <2>3, <3>1 DEF Writing, Untouched
  <2>4. c.cr = {"START", "WRITE"} /\ c.what = "write"
    BY Bytes
  <2>5. QED
    <3> HIDE DEF c
    <3>1. QED
      BY <1>2, <2>1, <2>2, <2>3, <2>4, ByteSent
<1>5. CASE crs = <<RegByte, DataByte>> /\ Untouched /\ ocwas.refused = {} /\ sel = "reg"
  <2>1. Head(crs) = RegByte /\ Tail(crs) = <<DataByte>>
    BY <1>5, Scripts
  <2>2. CASE Acked(RegByte) /\ crs' = Tail(crs) /\ ocwas' = ocwas
    <3>1. sel' = "data" /\ ptr' = occall.r /\ regs' = regs
      BY <2>2, Bytes DEF Acked
    <3>2. QED
      BY <1>1, <1>2, <1>5, <2>1, <2>2, <3>1 DEF Writing, Untouched
  <2>3. CASE /\ Refused(RegByte) /\ sel' = "none" /\ regs' = regs
             /\ ocwas'.refused # {} /\ ocwas'.regs = ocwas.regs /\ ocwas' \in History
    <3>1. crs' = <<DataByte>>
      BY <2>1, <2>3, Bytes DEF Refused
    <3>2. QED
      BY <1>1, <1>2, <1>5, <2>3, <3>1 DEF Writing, Untouched
  <2>4. QED
    BY <1>2, <2>1, <2>2, <2>3, Bytes, ByteSent
<1>6. CASE /\ crs = <<DataByte>> /\ Untouched
           /\ IF ocwas.refused = {} THEN sel = "data" /\ ptr = occall.r ELSE sel = "none"
  <2>1. Head(crs) = DataByte /\ Tail(crs) = <<>>
    BY <1>6, Scripts
  <2>2. ~held'
    BY <1>2, <2>1, Bytes, ByteSent
  <2>3. CASE Acked(DataByte) /\ crs' = Tail(crs) /\ ocwas' = ocwas
    <3>1. sel = "data" /\ regs' = [regs EXCEPT ![ptr] = occall.v]
      BY <2>3, Bytes DEF Acked
    <3>2. ocwas.refused = {} /\ ptr = occall.r
      BY <1>6, <3>1
    <3>3. QED
      BY <1>1, <1>2, <1>6, <2>1, <2>2, <2>3, <3>1, <3>2 DEF Writing, Untouched
  <2>4. CASE /\ Refused(DataByte) /\ regs' = regs
             /\ ocwas'.refused # {} /\ ocwas'.regs = ocwas.regs /\ ocwas' \in History
    <3>1. crs' = <<>>
      BY <2>1, <2>4, Bytes DEF Refused
    <3>2. QED
      BY <1>1, <1>2, <1>6, <2>2, <2>4, <3>1 DEF Writing, Untouched
  <2>5. QED
    BY <1>2, <2>1, <2>3, <2>4, Bytes, ByteSent
<1>7. CASE crs = <<Stop>> /\ Untouched /\ ocwas.refused # {}
  <2>1. Head(crs) = Stop /\ Tail(crs) = <<>>
    BY <1>7, Scripts
  <2>2. OcStop
    BY <2>1, Bytes DEF OcRead, OcStop, OcWrite
  <2>3. QED
    BY <1>1, <1>2, <1>7, <2>1, <2>2 DEF OcStop, Writing, Untouched
<1>8. QED
  BY <1>1, <1>2, <1>4, <1>5, <1>6, <1>7 DEF Writing

(* So does a command of a read.                                            *)
LEMMA ReadStep ==
  ASSUME OcInv, occall.op = "read", OcWrite \/ OcRead \/ OcStop
  PROVE  OcInv'
<1>1. /\ Reading /\ regs \in [Reg -> Value]
      /\ ocwas \in History /\ ocwas.regs \in [Reg -> Value]
  BY DEF OcInv, History
<1>2. crs # <<>> /\ occall' = occall /\ RegByte' = RegByte
  BY Same
<1>3. SUFFICES Reading' /\ regs' \in [Reg -> Value] /\ ocwas' \in History
  BY <1>2 DEF OcInv
<1> DEFINE w == Begin("write", "stop")
           r == Begin("read", "leave")
<1>4. /\ w.cr = {"START", "WRITE"} /\ w.what = "write" /\ w.refused = "stop"
      /\ r.cr = {"START", "WRITE"} /\ r.what = "read" /\ r.refused = "leave"
  BY Bytes
<1>5. i2c_readreg(occall.r) = <<w, RegByte, r, i2c_read>>
  BY DEF i2c_readreg, RegByte
<1> HIDE DEF w
<1>6. CASE crs = i2c_readreg(occall.r) /\ ocwas.refused = {} /\ ocret = {}
  <2>1. Head(crs) = w /\ Tail(crs) = <<RegByte, r, i2c_read>>
    BY <1>5, <1>6, Scripts
  <2>2. CASE Acked(w) /\ crs' = Tail(crs) /\ ocwas' = ocwas /\ ocret' = ocret
    <3>1. sel' = "reg" /\ regs' = regs
      BY <1>4, <2>2 DEF Acked
    <3>2. QED
      BY <1>1, <1>2, <1>6, <2>1, <2>2, <3>1 DEF Reading, Untouched
  <2>3. CASE /\ Refused(w) /\ regs' = regs
             /\ ocwas'.refused # {} /\ ocwas'.regs = ocwas.regs /\ ocwas' \in History
    <3>1. crs' = <<Stop>> /\ ocret' # {}
      BY <1>4, <2>3 DEF Refused
    <3>2. QED
      BY <1>1, <1>2, <2>3, <3>1 DEF Reading, Untouched
  <2>4. QED
    BY <1>2, <1>4, <2>1, <2>2, <2>3, ByteSent
<1>7. CASE /\ crs = <<RegByte, r, i2c_read>>
           /\ ocwas.refused = {} /\ ocret = {} /\ sel = "reg"
  <2>1. Head(crs) = RegByte /\ Tail(crs) = <<r, i2c_read>>
    BY <1>7, Scripts
  <2>2. CASE Acked(RegByte) /\ crs' = Tail(crs) /\ ocwas' = ocwas /\ ocret' = ocret
    <3>1. ptr' = occall.r /\ regs' = regs
      BY <2>2, Bytes DEF Acked
    <3>2. QED
      BY <1>1, <1>2, <1>7, <2>1, <2>2, <3>1 DEF Reading, Pointed, Untouched
  <2>3. CASE /\ Refused(RegByte) /\ regs' = regs
             /\ ocwas'.refused = {"reg"} /\ ocwas'.regs = ocwas.regs /\ ocwas' \in History
    <3>1. crs' = <<r, i2c_read>> /\ ocret' = {}
      BY <1>7, <2>1, <2>3, Bytes DEF Refused
    <3>2. QED
      BY <1>1, <1>2, <2>3, <3>1 DEF Reading, Pointed, Untouched
  <2>4. QED
    BY <1>2, <1>7, <2>1, <2>2, <2>3, Bytes, ByteSent
<1>8. CASE crs = <<r, i2c_read>> /\ Pointed /\ ocret = {}
  <2>1. Head(crs) = r /\ Tail(crs) = <<i2c_read>>
    BY <1>8, Scripts
  <2>2. CASE Acked(r) /\ crs' = Tail(crs) /\ ocwas' = ocwas /\ ocret' = ocret
    <3>1. ptr' = ptr /\ regs' = regs
      BY <1>4, <2>2 DEF Acked
    <3>2. QED
      BY <1>1, <1>2, <1>8, <2>1, <2>2, <3>1 DEF Reading, Pointed, Untouched
  <2>3. CASE /\ Refused(r) /\ regs' = regs
             /\ "read" \in ocwas'.refused /\ ocwas'.regs = ocwas.regs /\ ocwas' \in History
    <3>1. crs' = <<>> /\ ocret' # {}
      BY <1>2, <1>4, <2>3 DEF Refused
    <3>2. QED
      BY <1>1, <1>2, <2>3, <3>1 DEF Reading, Untouched
  <2>4. QED
    <3> HIDE DEF r
    <3>1. QED
      BY <1>2, <1>4, <2>1, <2>2, <2>3, ByteSent
<1>9. CASE crs = <<i2c_read>> /\ Pointed /\ ocret = {}
  <2>1. Head(crs) = i2c_read /\ Tail(crs) = <<>>
    BY <1>9, Scripts
  <2>2. "WRITE" \notin i2c_read.cr /\ "READ" \in i2c_read.cr /\ i2c_read.cr # {"STOP"}
    BY Bytes
  <2>3. OcRead
    BY <2>1, <2>2 DEF OcStop, OcWrite
  <2>4. crs' = <<>> /\ ~held' /\ ocdata' = {regs[ptr]} /\ UNCHANGED <<regs, ocwas>>
    BY <2>1, <2>3 DEF OcRead
  <2>5. ocwas'.refused = {"reg"} \/ ocdata' = {regs'[occall'.r]}
    BY <1>2, <1>9, <2>4 DEF Pointed
  <2>6. QED
    BY <1>1, <1>2, <2>4, <2>5 DEF Reading, Untouched
<1>10. CASE crs = <<Stop>> /\ ocwas.refused # {} /\ ocret # {}
  <2>1. Head(crs) = Stop /\ Tail(crs) = <<>>
    BY <1>10, Scripts
  <2>2. OcStop
    BY <2>1, Bytes DEF OcRead, OcStop, OcWrite
  <2>3. QED
    BY <1>1, <1>2, <1>10, <2>1, <2>2 DEF OcStop, Reading, Untouched
<1>11. QED
  BY <1>1, <1>2, <1>6, <1>7, <1>8, <1>9, <1>10 DEF Reading

(* A probe writes no register, and stops after each address.               *)
LEMMA ProbeStep ==
  ASSUME OcInv, occall.op = "probe", OcWrite \/ OcRead \/ OcStop
  PROVE  OcInv'
<1>1. Probing /\ regs \in [Reg -> Value] /\ ocwas \in History
  BY DEF OcInv
<1>2. crs # <<>> /\ occall' = occall
  BY Same
<1>3. SUFFICES Probing' /\ regs' \in [Reg -> Value] /\ ocwas' \in History
  BY <1>2 DEF OcInv
<1>4. ASSUME NEW rw \in {"write", "read"}, Head(crs) = Begin(rw, "ignore")
      PROVE  crs' = Tail(crs) /\ Untouched' /\ regs' = regs /\ ocwas' \in History
  <2> DEFINE c == Begin(rw, "ignore")
  <2>1. c.cr = {"START", "WRITE"} /\ c.what = rw /\ c.refused = "ignore"
    BY Bytes
  <2>2. Acked(c) => regs' = regs
    BY <2>1 DEF Acked
  <2>3. Refused(c) => crs' = Tail(crs)
    BY <2>1 DEF Refused
  <2> HIDE DEF c
  <2>4. Head(crs) = c
    BY <1>4 DEF c
  <2>5. QED
    BY <1>1, <1>2, <2>1, <2>2, <2>3, <2>4, ByteSent DEF Probing, Untouched
<1>5. ASSUME Head(crs) = Stop
      PROVE  crs' = Tail(crs) /\ ~held' /\ Untouched' /\ regs' = regs /\ ocwas' \in History
  <2>1. OcStop
    BY <1>5, Bytes DEF OcRead, OcStop, OcWrite
  <2>2. QED
    BY <1>1, <2>1 DEF OcStop, Probing, Untouched
<1> DEFINE w == Begin("write", "ignore")
           r == Begin("read", "ignore")
<1>6. CASE crs = i2c_probe
  <2>1. Head(crs) = w /\ Tail(crs) = <<Stop, r, Stop>>
    BY <1>6, Scripts DEF i2c_probe
  <2>2. QED
    BY <1>1, <1>4, <2>1 DEF Probing
<1>7. CASE crs = <<Stop, r, Stop>>
  <2>1. Head(crs) = Stop /\ Tail(crs) = <<r, Stop>>
    BY <1>7, Scripts
  <2>2. QED
    BY <1>1, <1>5, <2>1 DEF Probing
<1>8. CASE crs = <<r, Stop>>
  <2>1. Head(crs) = r /\ Tail(crs) = <<Stop>>
    BY <1>8, Scripts
  <2>2. QED
    BY <1>1, <1>4, <2>1 DEF Probing
<1>9. CASE crs = <<Stop>>
  <2>1. Head(crs) = Stop /\ Tail(crs) = <<>>
    BY <1>9, Scripts
  <2>2. QED
    BY <1>1, <1>5, <2>1 DEF Probing
<1>10. QED
  BY <1>1, <1>2, <1>6, <1>7, <1>8, <1>9 DEF Probing

(* A call begins with nothing refused and the registers as they are.       *)
LEMMA CallStep ==
  ASSUME OcInv, OcCall
  PROVE  OcInv'
<1>1. /\ regs' = regs /\ regs \in [Reg -> Value]
      /\ ocwas' = [regs |-> regs, refused |-> {}] /\ ocret' = {}
  BY DEF OcCall, OcInv
<1>2. ocwas' \in History /\ Untouched' /\ ocwas'.refused = {}
  BY <1>1 DEF History, Untouched
<1>3. CASE \E a \in Reg, v \in Value :
             occall' = [op |-> "write", r |-> a, v |-> v] /\ crs' = i2c_writereg(a, v)
  BY <1>1, <1>2, <1>3 DEF OcInv, Writing
<1>4. CASE \E a \in Reg : occall' = [op |-> "read", r |-> a] /\ crs' = i2c_readreg(a)
  BY <1>1, <1>2, <1>4 DEF OcInv, Reading
<1>5. CASE occall' = [op |-> "probe"] /\ crs' = i2c_probe
  BY <1>1, <1>2, <1>5 DEF OcInv, Probing
<1>6. QED
  BY <1>3, <1>4, <1>5 DEF OcCall

(* Every step of the program keeps the account of the I2C driver.          *)
LEMMA OcStep ==
  ASSUME OcInv, [Next]_vars
  PROVE  OcInv'
<1>1. CASE UNCHANGED ocvars
  BY <1>1 DEF ocvars, OcInv, Writing, Reading, Probing, Resting, Pointed, Untouched,
              RegByte, DataByte
<1>2. CASE OcWrite \/ OcRead \/ OcStop
  <2>1. crs # <<>>
    BY <1>2, Same
  <2>2. QED
    BY <1>2, <2>1, WriteStep, ReadStep, ProbeStep DEF OcInv, Resting
<1>3. CASE OcCall
  BY <1>3, CallStep
<1>4. QED
  BY <1>1, <1>2, <1>3 DEF Next, Flash, I2c, TwoWire, Library, OcNext, vars

(* It holds at the start.                                                  *)
LEMMA OcStart == Init => OcInv
  BY DEF Init, OcInit, OcInv, Resting, Untouched, History

(* It implies that the driver tells what it read, and lets the bus go.     *)
LEMMA OcPromises ==
  ASSUME OcInv
  PROVE  OcRight /\ OcReleased
<1>1. crs # <<>> => OcRight /\ OcReleased
  BY DEF OcRight, OcDone, OcReadTold, OcReleased
<1>2. ASSUME crs = <<>>
      PROVE  OcRight /\ OcReleased
  <2>1. \A a, b : i2c_writereg(a, b) # <<>> /\ i2c_readreg(a) # <<>>
    BY Scripts DEF i2c_writereg, i2c_readreg
  <2>2. i2c_probe # <<>>
    BY Scripts DEF i2c_probe
  <2>3. CASE occall.op = "none" /\ Resting
    BY <1>2, <2>3 DEF Resting, Untouched, OcRight, OcDone, OcReadTold, OcReleased
  <2>4. CASE occall.op = "write" /\ Writing
    BY <1>2, <2>1, <2>4, Scripts DEF Writing, Untouched, OcRight, OcDone, OcReadTold, OcReleased
  <2>5. CASE occall.op = "read" /\ Reading
    BY <1>2, <2>1, <2>5, Scripts DEF Reading, Untouched, OcRight, OcDone, OcReadTold, OcReleased
  <2>6. CASE occall.op = "probe" /\ Probing
    BY <1>2, <2>2, <2>6, Scripts DEF Probing, Untouched, OcRight, OcDone, OcReadTold, OcReleased
  <2>7. QED
    BY <2>3, <2>4, <2>5, <2>6 DEF OcInv
<1>3. QED
  BY <1>1, <1>2

(* A register that was written holds its value and the others theirs, and  *)
(* a value that is read is the slave's, unless a NAK was reported.         *)
THEOREM OcRightCorrect == Spec => []OcRight
  BY OcStart, OcStep, OcPromises, PTL DEF Spec

-----------------------------------------------------------------------------
(* Accesses of the two-wire driver.                                        *)
Access == {Control({}), Control({"HOLD"}), Control({"AUTOARM", "HOLD"}), Control({"MACK"}),
           Control({"I2C_RESET"}), Sladdr("write"), Sladdr("read"), Rdata,
           Wait("go"), Wait("error"), Wait("release")}
            \cup {Wdata(b) : b \in Nat}

(* The accesses of a send, one by one.                                     *)
LEMMA SendScript ==
  ASSUME NEW n \in Nat \ {0}
  PROVE  LET s == twi_send(n)
         IN  /\ s \in Seq(Access) /\ Len(s) = 2 * n + 5
             /\ s[1] = Control({"HOLD"}) /\ s[2] = Sladdr("write") /\ s[3] = Wdata(0)
             /\ s[4] = Wait("release")
             /\ \A b \in 1 .. n - 1 : s[2 * b + 3] = Wdata(b) /\ s[2 * b + 4] = Wait("go")
             /\ s[2 * n + 3] = Control({}) /\ s[2 * n + 4] = Wdata(n)
             /\ s[2 * n + 5] = Wait("error")
<1> DEFINE x == <<Control({"HOLD"}), Sladdr("write"), Wdata(0), Wait("release")>>
           y == [i \in 1 .. 2 * (n - 1) |-> IF i % 2 = 1 THEN Wdata((i + 1) \div 2) ELSE Wait("go")]
           z == <<Control({}), Wdata(n), Wait("error")>>
<1>1. x \in Seq(Access) /\ Len(x) = 4
  BY DEF Access
<1>2. z \in Seq(Access) /\ Len(z) = 3
  BY DEF Access
<1>3. y \in Seq(Access) /\ Len(y) = 2 * (n - 1)
  <2>1. ASSUME NEW i \in 1 .. 2 * (n - 1) PROVE y[i] \in Access
    <3>1. (i + 1) \div 2 \in Nat
      OBVIOUS
    <3>2. QED
      BY <3>1 DEF Access
  <2>2. QED
    BY <2>1, IsASeq, LenProperties
<1>4. /\ x[1] = Control({"HOLD"}) /\ x[2] = Sladdr("write") /\ x[3] = Wdata(0)
      /\ x[4] = Wait("release")
      /\ z[1] = Control({}) /\ z[2] = Wdata(n) /\ z[3] = Wait("error")
  OBVIOUS
<1>5. \A b \in 1 .. n - 1 : y[2 * b - 1] = Wdata(b) /\ y[2 * b] = Wait("go")
  <2>1. ASSUME NEW b \in 1 .. n - 1 PROVE y[2 * b - 1] = Wdata(b) /\ y[2 * b] = Wait("go")
    <3>1. /\ 2 * b - 1 \in 1 .. 2 * (n - 1) /\ 2 * b \in 1 .. 2 * (n - 1)
          /\ (2 * b - 1) % 2 = 1 /\ (2 * b) % 2 = 0 /\ ((2 * b - 1) + 1) \div 2 = b
      OBVIOUS
    <3>2. QED
      BY <3>1
  <2>2. QED
    BY <2>1
<1>6. twi_send(n) = (x \o y) \o z
  BY DEF twi_send
<1> HIDE DEF x, y, z
<1> DEFINE a == x \o y
<1>7. /\ a \in Seq(Access) /\ Len(a) = Len(x) + Len(y)
      /\ \A i \in 1 .. Len(x) + Len(y) : a[i] = IF i <= Len(x) THEN x[i] ELSE y[i - Len(x)]
  BY <1>1, <1>3, ConcatProperties
<1>8. a \in Seq(Access)
  BY <1>7
<1> HIDE DEF a
<1> DEFINE s == a \o z
<1>9. /\ s \in Seq(Access) /\ Len(s) = Len(a) + Len(z)
      /\ \A i \in 1 .. Len(a) + Len(z) : s[i] = IF i <= Len(a) THEN a[i] ELSE z[i - Len(a)]
  BY <1>2, <1>8, ConcatProperties
<1> HIDE DEF s
<1>10. Len(a) = 2 * n + 2 /\ Len(s) = 2 * n + 5
  BY <1>1, <1>2, <1>3, <1>7, <1>9
<1>11. \A i \in 1 .. 2 * n + 2 : s[i] = IF i <= 4 THEN x[i] ELSE y[i - 4]
  BY <1>1, <1>2, <1>3, <1>7, <1>9, <1>10
<1>12. \A j \in 1 .. 3 : s[2 * n + 2 + j] = z[j]
  <2>1. ASSUME NEW j \in 1 .. 3 PROVE s[2 * n + 2 + j] = z[j]
    <3>1. s[2 * n + 2 + j] = z[(2 * n + 2 + j) - (2 * n + 2)]
      BY <1>2, <1>9, <1>10
    <3>2. QED
      BY <3>1
  <2>2. QED
    BY <2>1
<1>13. ASSUME NEW b \in 1 .. n - 1
       PROVE  s[2 * b + 3] = Wdata(b) /\ s[2 * b + 4] = Wait("go")
  <2>1. s[2 * b + 3] = y[(2 * b + 3) - 4] /\ s[2 * b + 4] = y[(2 * b + 4) - 4]
    BY <1>11
  <2>2. (2 * b + 3) - 4 = 2 * b - 1 /\ (2 * b + 4) - 4 = 2 * b
    OBVIOUS
  <2>3. QED
    BY <1>5, <2>1, <2>2
<1>14. s[1] = x[1] /\ s[2] = x[2] /\ s[3] = x[3] /\ s[4] = x[4]
  BY <1>11
<1>15. s[2 * n + 3] = z[1] /\ s[2 * n + 4] = z[2] /\ s[2 * n + 5] = z[3]
  <2>1. 2 * n + 2 + 1 = 2 * n + 3 /\ 2 * n + 2 + 2 = 2 * n + 4 /\ 2 * n + 2 + 3 = 2 * n + 5
    OBVIOUS
  <2>2. QED
    BY <1>12, <2>1
<1>16. twi_send(n) = s
  BY <1>6 DEF a, s
<1>17. QED
  BY <1>4, <1>9, <1>10, <1>13, <1>14, <1>15, <1>16

(* Sequences of accesses put together.                                     *)
LEMMA Join ==
  ASSUME NEW x \in Seq(Access), NEW y \in Seq(Access)
  PROVE  /\ x \o y \in Seq(Access) /\ Len(x \o y) = Len(x) + Len(y)
         /\ \A i \in 1 .. Len(x) : (x \o y)[i] = x[i]
         /\ \A i \in 1 .. Len(y) : (x \o y)[Len(x) + i] = y[i]
<1> DEFINE m == Len(x)
           n == Len(y)
           s == x \o y
<1>1. /\ s \in Seq(Access) /\ Len(s) = m + n /\ m \in Nat /\ n \in Nat
      /\ \A i \in 1 .. m + n : s[i] = IF i <= m THEN x[i] ELSE y[i - m]
  BY ConcatProperties, LenProperties
<1> HIDE DEF m, n, s
<1>2. \A i \in 1 .. m : s[i] = x[i]
  BY <1>1
<1>3. ASSUME NEW i \in 1 .. n PROVE s[m + i] = y[i]
  <2>1. m + i \in 1 .. m + n /\ ~(m + i <= m) /\ (m + i) - m = i
    BY <1>1
  <2>2. s[m + i] = y[(m + i) - m]
    BY <1>1, <2>1
  <2>3. QED
    BY <2>1, <2>2
<1>4. QED
  BY <1>1, <1>2, <1>3 DEF m, n, s

(* The accesses of a receive, of one byte and of more.                     *)
LEMMA RecvScript ==
  ASSUME NEW n \in Nat \ {0}
  PROVE  LET s == twi_recv(n)
         IN  /\ s \in Seq(Access)
             /\ s[1] = Control({}) /\ s[2] = Sladdr("write") /\ s[3] = Wdata(0)
             /\ s[4] = Wait("error") /\ s[5] = Sladdr("read")
             /\ n = 1 => /\ Len(s) = 8
                         /\ s[6] = Wdata(0) /\ s[7] = Wait("go") /\ s[8] = Rdata
             /\ n > 1 => /\ Len(s) = 2 * n + 10
                         /\ s[6] = Control({"AUTOARM", "HOLD"}) /\ s[7] = Wdata(0)
                         /\ s[8] = Wait("go")
                         /\ \A d \in 1 .. n - 2 : s[2 * d + 7] = Rdata /\ s[2 * d + 8] = Wait("go")
                         /\ s[2 * n + 5] = Control({"MACK"}) /\ s[2 * n + 6] = Rdata
                         /\ s[2 * n + 7] = Wait("go") /\ s[2 * n + 8] = Wdata(0)
                         /\ s[2 * n + 9] = Wait("go") /\ s[2 * n + 10] = Rdata
<1> DEFINE x == <<Control({}), Sladdr("write"), Wdata(0), Wait("error"), Sladdr("read")>>
<1>1. /\ x \in Seq(Access) /\ Len(x) = 5
      /\ x[1] = Control({}) /\ x[2] = Sladdr("write") /\ x[3] = Wdata(0)
      /\ x[4] = Wait("error") /\ x[5] = Sladdr("read")
  BY DEF Access
<1>2. CASE n = 1
  <2> DEFINE y == <<Wdata(0), Wait("go"), Rdata>>
  <2>1. /\ y \in Seq(Access) /\ Len(y) = 3
        /\ y[1] = Wdata(0) /\ y[2] = Wait("go") /\ y[3] = Rdata
    BY DEF Access
  <2>2. twi_recv(n) = x \o y
    BY <1>2 DEF twi_recv
  <2> HIDE DEF x, y
  <2> DEFINE s == x \o y
  <2>3. /\ s \in Seq(Access) /\ Len(s) = 8 /\ \A i \in 1 .. 5 : s[i] = x[i]
        /\ \A i \in 1 .. 3 : s[5 + i] = y[i]
    <3>1. /\ s \in Seq(Access) /\ Len(s) = Len(x) + Len(y)
          /\ \A i \in 1 .. Len(x) : s[i] = x[i]
          /\ \A i \in 1 .. Len(y) : s[Len(x) + i] = y[i]
      BY <1>1, <2>1, Join
    <3> HIDE DEF s
    <3>2. QED
      BY <1>1, <2>1, <3>1
  <2> HIDE DEF s
  <2>4. s[6] = y[1] /\ s[7] = y[2] /\ s[8] = y[3]
    <3>1. s[5 + 1] = y[1] /\ s[5 + 2] = y[2] /\ s[5 + 3] = y[3]
      BY <2>3
    <3>2. QED
      BY <3>1
  <2>5. twi_recv(n) = s
    BY <2>2 DEF s
  <2>6. QED
    BY <1>1, <1>2, <2>1, <2>3, <2>4, <2>5
<1>3. CASE n > 1
  <2> DEFINE u == <<Control({"AUTOARM", "HOLD"}), Wdata(0), Wait("go")>>
             y == [i \in 1 .. 2 * (n - 2) |-> IF i % 2 = 1 THEN Rdata ELSE Wait("go")]
             z == <<Control({"MACK"}), Rdata, Wait("go"), Wdata(0), Wait("go"), Rdata>>
             m == 2 * (n - 2)
  <2>0. m \in Nat
    BY <1>3
  <2>1. /\ u \in Seq(Access) /\ Len(u) = 3
        /\ u[1] = Control({"AUTOARM", "HOLD"}) /\ u[2] = Wdata(0) /\ u[3] = Wait("go")
    BY DEF Access
  <2>2. /\ z \in Seq(Access) /\ Len(z) = 6
        /\ z[1] = Control({"MACK"}) /\ z[2] = Rdata /\ z[3] = Wait("go")
        /\ z[4] = Wdata(0) /\ z[5] = Wait("go") /\ z[6] = Rdata
    BY DEF Access
  <2>3. y \in Seq(Access) /\ Len(y) = m
    <3>1. \A i \in 1 .. m : y[i] \in Access
      BY DEF Access
    <3>2. QED
      BY <2>0, <3>1, IsASeq, LenProperties
  <2>4. \A d \in 1 .. n - 2 : y[2 * d - 1] = Rdata /\ y[2 * d] = Wait("go")
    <3>1. ASSUME NEW d \in 1 .. n - 2 PROVE y[2 * d - 1] = Rdata /\ y[2 * d] = Wait("go")
      <4>1. /\ 2 * d - 1 \in 1 .. 2 * (n - 2) /\ 2 * d \in 1 .. 2 * (n - 2)
            /\ (2 * d - 1) % 2 = 1 /\ (2 * d) % 2 = 0
        BY <1>3
      <4>2. QED
        BY <4>1
    <3>2. QED
      BY <3>1
  <2>5. twi_recv(n) = x \o ((u \o y) \o z)
    BY <1>3 DEF twi_recv
  <2> HIDE DEF x, u, y, z
  <2> DEFINE a == u \o y
  <2>6. /\ a \in Seq(Access) /\ Len(a) = 3 + m /\ \A i \in 1 .. 3 : a[i] = u[i]
        /\ \A i \in 1 .. m : a[3 + i] = y[i]
    <3>1. /\ a \in Seq(Access) /\ Len(a) = Len(u) + Len(y)
          /\ \A i \in 1 .. Len(u) : a[i] = u[i]
          /\ \A i \in 1 .. Len(y) : a[Len(u) + i] = y[i]
      BY <2>1, <2>3, Join
    <3> HIDE DEF a, m
    <3>2. QED
      BY <2>0, <2>1, <2>3, <3>1
  <2> HIDE DEF a
  <2> DEFINE b == a \o z
  <2>7. /\ b \in Seq(Access) /\ Len(b) = (3 + m) + 6 /\ \A i \in 1 .. 3 + m : b[i] = a[i]
        /\ \A i \in 1 .. 6 : b[(3 + m) + i] = z[i]
    <3>1. /\ b \in Seq(Access) /\ Len(b) = Len(a) + Len(z)
          /\ \A i \in 1 .. Len(a) : b[i] = a[i]
          /\ \A i \in 1 .. Len(z) : b[Len(a) + i] = z[i]
      BY <2>2, <2>6, Join
    <3> HIDE DEF b, m
    <3>2. QED
      BY <2>0, <2>2, <2>6, <3>1
  <2> HIDE DEF b
  <2> DEFINE s == x \o b
  <2>8. /\ s \in Seq(Access) /\ Len(s) = 5 + (9 + m) /\ \A i \in 1 .. 5 : s[i] = x[i]
        /\ \A i \in 1 .. 9 + m : s[5 + i] = b[i]
    <3>1. /\ s \in Seq(Access) /\ Len(s) = Len(x) + Len(b)
          /\ \A i \in 1 .. Len(x) : s[i] = x[i]
          /\ \A i \in 1 .. Len(b) : s[Len(x) + i] = b[i]
      BY <1>1, <2>7, Join
    <3> HIDE DEF s, m
    <3>2. (3 + m) + 6 = 9 + m
      BY <2>0
    <3>3. QED
      BY <1>1, <2>0, <2>7, <3>1, <3>2
  <2> HIDE DEF s
  <2>9. Len(s) = 2 * n + 10
    BY <1>3, <2>8
  <2>10. s[6] = u[1] /\ s[7] = u[2] /\ s[8] = u[3]
    <3>1. b[1] = u[1] /\ b[2] = u[2] /\ b[3] = u[3]
      BY <2>0, <2>6, <2>7
    <3>2. s[5 + 1] = b[1] /\ s[5 + 2] = b[2] /\ s[5 + 3] = b[3]
      BY <2>0, <2>8
    <3>3. QED
      BY <3>1, <3>2
  <2>11. ASSUME NEW d \in 1 .. n - 2
         PROVE  s[2 * d + 7] = Rdata /\ s[2 * d + 8] = Wait("go")
    <3>1. /\ 3 + (2 * d - 1) \in 1 .. 3 + m /\ 3 + 2 * d \in 1 .. 3 + m
          /\ 2 * d - 1 \in 1 .. m /\ 2 * d \in 1 .. m
      BY <1>3
    <3>2. /\ b[3 + (2 * d - 1)] = y[2 * d - 1] /\ b[3 + 2 * d] = y[2 * d]
      BY <2>6, <2>7, <3>1
    <3>3. s[5 + (3 + (2 * d - 1))] = b[3 + (2 * d - 1)] /\ s[5 + (3 + 2 * d)] = b[3 + 2 * d]
      <4>1. 3 + (2 * d - 1) \in 1 .. 9 + m /\ 3 + 2 * d \in 1 .. 9 + m
        BY <2>0, <3>1
      <4>2. QED
        BY <2>8, <4>1
    <3>4. 5 + (3 + (2 * d - 1)) = 2 * d + 7 /\ 5 + (3 + 2 * d) = 2 * d + 8
      OBVIOUS
    <3>5. QED
      BY <2>4, <3>2, <3>3, <3>4
  <2>12. ASSUME NEW i \in 1 .. 6
         PROVE  s[2 * n + 4 + i] = z[i]
    <3>1. s[5 + ((3 + m) + i)] = b[(3 + m) + i]
      <4>1. (3 + m) + i \in 1 .. 9 + m
        BY <2>0
      <4>2. QED
        BY <2>8, <4>1
    <3>2. 5 + ((3 + m) + i) = 2 * n + 4 + i
      BY <1>3
    <3>3. QED
      BY <2>7, <3>1, <3>2
  <2>13. /\ s[2 * n + 5] = z[1] /\ s[2 * n + 6] = z[2] /\ s[2 * n + 7] = z[3]
         /\ s[2 * n + 8] = z[4] /\ s[2 * n + 9] = z[5] /\ s[2 * n + 10] = z[6]
    <3>1. /\ 2 * n + 4 + 1 = 2 * n + 5 /\ 2 * n + 4 + 2 = 2 * n + 6
          /\ 2 * n + 4 + 3 = 2 * n + 7 /\ 2 * n + 4 + 4 = 2 * n + 8
          /\ 2 * n + 4 + 5 = 2 * n + 9 /\ 2 * n + 4 + 6 = 2 * n + 10
      OBVIOUS
    <3>2. QED
      BY <2>12, <3>1
  <2>14. twi_recv(n) = s
    BY <2>5 DEF a, b, s
  <2>15. QED
    BY <1>1, <1>3, <2>1, <2>2, <2>8, <2>9, <2>10, <2>11, <2>13, <2>14
<1>4. QED
  BY <1>2, <1>3

(* And those of a probe after a reset of the controller.                   *)
LEMMA ProbeScript ==
  LET s == twi_reset \o twi_probe
  IN  /\ s \in Seq(Access) /\ Len(s) = 5
      /\ s[1] = Control({"I2C_RESET"}) /\ s[2] = Control({})
      /\ s[3] = Sladdr("write") /\ s[4] = Wdata(0) /\ s[5] = Wait("error")
      /\ twi_probe = SubSeq(s, 3, 5)
<1>1. /\ twi_reset \in Seq(Access) /\ Len(twi_reset) = 2
      /\ twi_reset[1] = Control({"I2C_RESET"}) /\ twi_reset[2] = Control({})
  BY DEF twi_reset, Access
<1>2. /\ twi_probe \in Seq(Access) /\ Len(twi_probe) = 3
      /\ twi_probe[1] = Sladdr("write") /\ twi_probe[2] = Wdata(0) /\ twi_probe[3] = Wait("error")
  BY DEF twi_probe, Access
<1> DEFINE s == twi_reset \o twi_probe
<1>3. /\ s \in Seq(Access) /\ Len(s) = 5 /\ \A i \in 1 .. 2 : s[i] = twi_reset[i]
      /\ \A i \in 1 .. 3 : s[2 + i] = twi_probe[i]
  <2>1. /\ s \in Seq(Access) /\ Len(s) = Len(twi_reset) + Len(twi_probe)
        /\ \A i \in 1 .. Len(twi_reset) : s[i] = twi_reset[i]
        /\ \A i \in 1 .. Len(twi_probe) : s[Len(twi_reset) + i] = twi_probe[i]
    BY <1>1, <1>2, Join
  <2> HIDE DEF s
  <2>2. QED
    BY <1>1, <1>2, <2>1
<1> HIDE DEF s
<1>4. /\ s[1] = twi_reset[1] /\ s[2] = twi_reset[2]
      /\ s[3] = twi_probe[1] /\ s[4] = twi_probe[2] /\ s[5] = twi_probe[3]
  <2>1. s[2 + 1] = twi_probe[1] /\ s[2 + 2] = twi_probe[2] /\ s[2 + 3] = twi_probe[3]
    BY <1>3
  <2>2. QED
    BY <1>3, <2>1
<1>5. twi_probe = SubSeq(s, 3, 5)
  <2> DEFINE t == SubSeq(s, 3, 5)
  <2>1. ASSUME NEW i \in 3 .. 5 PROVE s[i] \in Access
    <3>1. i \in 1 .. Len(s)
      BY <1>3
    <3>2. QED
      BY <1>3, <3>1, ElementOfSeq
  <2>2. /\ t \in Seq(Access) /\ Len(t) = 3 /\ \A i \in 1 .. 3 : t[i] = s[3 + i - 1]
    BY <2>1, SubSeqProperties
  <2> HIDE DEF t
  <2>3. \A i \in 1 .. 3 : twi_probe[i] = t[i]
    BY <1>3, <2>2
  <2>4. twi_probe = t
    BY <1>2, <2>2, <2>3, SeqEqual
  <2>5. QED
    BY <2>4 DEF t
<1>6. QED
  BY <1>1, <1>2, <1>3, <1>4, <1>5 DEF s
-----------------------------------------------------------------------------
(* The accesses of the call under way.  The call is at place k of them     *)
(* when k - 1 are over.                                                    *)
Script == IF twicall.op = "send" THEN twi_send(twicall.n)
          ELSE IF twicall.op = "recv" THEN twi_recv(twicall.n)
          ELSE twi_reset \o twi_probe

At(k) == k \in 1 .. Len(Script) + 1 /\ tops = SubSeq(Script, k, Len(Script))

(* No hold is set; and the bus is free, or what is under way frees it.     *)
Plain == control \subseteq {"MACK"}
Freed == busy \/ bus = "free"

Took(b) == <<"write", b>> \notin nacks

(* The bytes below b were sent, and the slave has taken the first.         *)
Sent(b) ==
  /\ sent = [i \in 1 .. b |-> i - 1]
  /\ nacks \subseteq {"write"} \X (1 .. b - 1)

(* A send: the hold, and the bytes the slave has got.                      *)
SendHold(k, n) ==
  /\ IF k \in 2 .. 2 * n + 3 THEN control = {"HOLD"} ELSE Plain
  /\ k >= 2 * n + 5 => Freed

SendBytes(k, n) ==
  /\ k >= 3 => sladdr = "write"
  /\ k <= 3 => ~busy /\ sent = <<>> /\ nacks = {}
  /\ k = 4 => /\ wdata = 0 /\ sent = IF busy THEN <<>> ELSE <<0>>
              /\ busy \/ ~nak => nacks = {}
  /\ \A b \in 1 .. n : k = 2 * b + 3 => ~busy /\ Sent(b)
  /\ \A b \in 1 .. n - 1 : k = 2 * b + 4 => wdata = b /\ Sent(IF busy THEN b ELSE b + 1)
  /\ k = 2 * n + 4 => ~busy /\ Sent(n)
  /\ k = 2 * n + 5 => /\ wdata = n /\ Sent(IF busy THEN n ELSE n + 1)
                      /\ ~busy /\ ~nak => Took(n)
  /\ k = 2 * n + 6 => ~busy /\ Sent(n + 1) /\ Took(n)

Sending(k) ==
  /\ twicall.n \in Nat \ {0}
  /\ SendHold(k, twicall.n) /\ (~late => SendBytes(k, twicall.n))

(* The slave has refused to be read.                                       *)
Spurned == \E t \in nacks : t[1] = "read"

(* A receive: u transfers are begun and d bytes stored.  Unless the slave  *)
(* has refused, each of them moves a byte, and the bytes are those.        *)
Booked(u, d) ==
  LET m == IF busy THEN moved + 1 ELSE moved
  IN  /\ data \in Seq(Nat) /\ Len(data) = d
      /\ \/ Spurned
         \/ m = u /\ (moved > 0 => rdata = moved) /\ \A i \in 1 .. d : data[i] = i

RecvHold(k, n) ==
  /\ IF n > 1 /\ k \in 7 .. 2 * n + 5 THEN control = {"AUTOARM", "HOLD"} ELSE Plain
  /\ k \in 4 .. 6 \/ (n = 1 /\ k >= 4) \/ k >= 2 * n + 9 => Freed

RecvAddress(k) ==
  /\ k <= 6 => moved = 0 /\ data = <<>>
  /\ k <= 3 \/ k \in {5, 6} => ~busy
  /\ k \in 3 .. 5 => sladdr = "write"
  /\ k >= 6 => sladdr = "read"

RecvOne(k) ==
  /\ k \in {7, 8} => Booked(1, 0)
  /\ k = 9 => Booked(1, 1)
  /\ k >= 8 => ~busy

RecvMore(k, n) ==
  /\ k = 7 => ~busy /\ Booked(0, 0)
  /\ \A d \in 0 .. n - 2 : /\ k = 2 * d + 8 => Booked(d + 1, d)
                           /\ k = 2 * d + 9 => ~busy /\ Booked(d + 1, d)
  /\ k = 2 * n + 6 => Booked(n - 1, n - 2)
  /\ k \in {2 * n + 7, 2 * n + 8} => Booked(n - 1, n - 1)
  /\ k \in {2 * n + 9, 2 * n + 10} => Booked(n, n - 1)
  /\ k = 2 * n + 11 => Booked(n, n)
  /\ k >= 2 * n + 6 /\ k # 2 * n + 9 => ~busy

RecvBytes(k, n) == RecvAddress(k) /\ IF n = 1 THEN RecvOne(k) ELSE RecvMore(k, n)

Receiving(k) ==
  /\ twicall.n \in Nat \ {0}
  /\ RecvHold(k, twicall.n) /\ (~late => RecvBytes(k, twicall.n))

ProbingTwi(k) == Plain /\ (k >= 5 => Freed)

(* A call that was refused has another byte to go, or is over.             *)
Refusing ==
  \/ tops = <<Control({}), Wdata(0)>> /\ control = {"HOLD"}
  \/ tops = <<Wdata(0)>> /\ Plain
  \/ tops = <<>> /\ Plain /\ Freed

CallInv ==
  \/ err /\ Refusing
  \/ twicall.op = "none" /\ tops = <<>> /\ Plain /\ Freed
  \/ /\ ~err
     /\ \E k \in Nat : /\ At(k)
                       /\ \/ twicall.op = "send" /\ Sending(k)
                          \/ twicall.op = "recv" /\ Receiving(k)
                          \/ twicall.op = "probe" /\ ProbingTwi(k)

Counted == moved \in Nat /\ rdata \in Nat

TwiInv == Counted /\ CallInv

-----------------------------------------------------------------------------
(* The accesses left are those from a place of the script on: the first of *)
(* them is at that place, and the rest begin at the next.                  *)
LEMMA Position ==
  ASSUME NEW k \in Nat, At(k), Script \in Seq(Access)
  PROVE  /\ tops = <<>> <=> k = Len(Script) + 1
         /\ tops # <<>> => /\ k \in 1 .. Len(Script) /\ Head(tops) = Script[k]
                           /\ Tail(tops) = SubSeq(Script, k + 1, Len(Script))
<1> DEFINE s == Script
<1>0. Len(s) \in Nat /\ s \in Seq(Access) /\ k \in 1 .. Len(s) + 1 /\ tops = SubSeq(s, k, Len(s))
  BY LenProperties DEF At
<1> HIDE DEF s
<1>1. CASE k = Len(s) + 1
  <2>1. tops = <<>>
    BY <1>0, <1>1, SubSeqEmpty
  <2>2. QED
    BY <1>1, <2>1 DEF s
<1>2. CASE k \in 1 .. Len(s)
  <2>1. Len(s) \in k .. Len(s)
    BY <1>0, <1>2
  <2>2. Head(tops) = s[k] /\ Tail(tops) = SubSeq(s, k + 1, Len(s))
    BY <1>0, <1>2, <2>1, HeadTailOfSubSeq
  <2>3. \A i \in k .. Len(s) : s[i] \in Access
    <3>1. ASSUME NEW i \in k .. Len(s) PROVE s[i] \in Access
      <4>1. i \in 1 .. Len(s)
        BY <1>0
      <4>2. QED
        BY <1>0, <4>1, ElementOfSeq
    <3>2. QED
      BY <3>1
  <2>4. Len(tops) = Len(s) - k + 1
    BY <1>0, <1>2, <2>3, SubSeqProperties
  <2>5. tops # <<>>
    <3>1. Len(tops) > 0
      BY <1>0, <1>2, <2>4
    <3>2. tops = <<>> => Len(tops) = 0
      OBVIOUS
    <3>3. QED
      BY <3>1, <3>2
  <2>6. QED
    BY <1>0, <1>2, <2>2, <2>5 DEF s
<1>3. QED
  BY <1>0, <1>1, <1>2

(* An access made: the rest begins at the next place.                      *)
LEMMA Advance ==
  ASSUME NEW k \in Nat, At(k), Script \in Seq(Access), tops # <<>>, tops' = Tail(tops),
         twicall' = twicall
  PROVE  At(k + 1)'
<1>1. k \in 1 .. Len(Script) /\ tops' = SubSeq(Script, k + 1, Len(Script))
  BY Position
<1>2. Script' = Script
  BY DEF Script
<1>3. QED
  BY <1>1, <1>2 DEF At

(* No access made: the place is the same.                                  *)
LEMMA Stay ==
  ASSUME NEW k \in Nat, At(k), tops' = tops, twicall' = twicall
  PROVE  At(k)'
<1>1. Script' = Script
  BY DEF Script
<1>2. QED
  BY <1>1 DEF At

(* The fields of the accesses.                                             *)
LEMMA Fields ==
  /\ \A bits : Control(bits).reg = "CONTROL" /\ Control(bits).v = bits
  /\ \A rw : Sladdr(rw).reg = "SLADDR" /\ Sladdr(rw).v = rw
  /\ \A b : Wdata(b).reg = "WDATA" /\ Wdata(b).v = b
  /\ Rdata.reg = "RDATA"
  /\ \A f : Wait(f).reg = "STATUS" /\ Wait(f).ifnak = f
  BY DEF Control, Sladdr, Wdata, Rdata, Wait

(* What an access that is not a wait does, and what of each kind.          *)
LEMMA StoreEffect ==
  ASSUME TwiProgram, tops # <<>>, Head(tops).reg # "STATUS",
         Head(tops) # Control({"I2C_RESET"}),
         Head(tops).reg = "CONTROL" => /\ Head(tops) = Control(Head(tops).v)
                                       /\ "I2C_RESET" \notin Head(tops).v
  PROVE  /\ tops' = Tail(tops)
         /\ UNCHANGED <<rdata, nak, bus, twicall, err, sent, moved, nacks>>
         /\ ~late' => ~late
         /\ Head(tops).reg = "CONTROL" => /\ control' = Head(tops).v
                                          /\ UNCHANGED <<sladdr, wdata, data>>
                                          /\ busy' <=> busy
         /\ Head(tops).reg = "SLADDR" => /\ sladdr' = Head(tops).v
                                         /\ UNCHANGED <<control, wdata, data>>
                                         /\ busy' <=> busy
         /\ Head(tops).reg = "WDATA" => /\ wdata' = Head(tops).v /\ busy'
                                        /\ UNCHANGED <<control, sladdr, data>>
         /\ Head(tops).reg = "RDATA" => /\ data' = Append(data, rdata)
                                        /\ UNCHANGED <<control, sladdr, wdata>>
                                        /\ busy' <=> (busy \/ "AUTOARM" \in control)
<1>1. Store /\ ~Reset
  BY DEF TwiProgram, Poll, GoOn, Continue, WaitOver, Halted, Reset
<1>2. /\ tops' = Tail(tops) /\ bus' = bus
      /\ UNCHANGED <<rdata, nak, twicall, err, sent, moved, nacks>>
      /\ control' = IF Head(tops).reg = "CONTROL" THEN Head(tops).v ELSE control
      /\ sladdr' = IF Head(tops).reg = "SLADDR" THEN Head(tops).v ELSE sladdr
      /\ wdata' = IF Head(tops).reg = "WDATA" THEN Head(tops).v ELSE wdata
      /\ data' = IF Head(tops).reg = "RDATA" THEN Append(data, rdata) ELSE data
  BY <1>1 DEF Store
<1>3. busy' <=> (\/ busy \/ Head(tops).reg = "WDATA"
                 \/ Head(tops).reg = "RDATA" /\ "AUTOARM" \in control)
  BY <1>1 DEF Store
<1>4. ~late' => ~late
  BY <1>1 DEF Store
<1>5. QED
  BY <1>2, <1>3, <1>4

(* Setting the bits of the control register.                               *)
LEMMA ControlEffect ==
  ASSUME TwiProgram, tops # <<>>, NEW bits, Head(tops) = Control(bits), "I2C_RESET" \notin bits
  PROVE  /\ tops' = Tail(tops) /\ control' = bits
         /\ UNCHANGED <<sladdr, wdata, rdata, nak, bus, twicall, err, data, sent, moved, nacks>>
         /\ (~late' => ~late) /\ (busy' <=> busy)
<1>1. Head(tops).reg = "CONTROL" /\ Head(tops).v = bits /\ Head(tops) # Control({"I2C_RESET"})
  <2>1. Control({"I2C_RESET"}).v = {"I2C_RESET"} /\ Control(bits).v = bits
    BY Fields
  <2>2. QED
    BY <2>1, Fields
<1>2. QED
  BY <1>1, StoreEffect

(* Setting the direction.                                                  *)
LEMMA SladdrEffect ==
  ASSUME TwiProgram, tops # <<>>, NEW rw, Head(tops) = Sladdr(rw)
  PROVE  /\ tops' = Tail(tops) /\ sladdr' = rw
         /\ UNCHANGED <<control, wdata, rdata, nak, bus, twicall, err, data, sent, moved, nacks>>
         /\ (~late' => ~late) /\ (busy' <=> busy)
<1>1. Head(tops).reg = "SLADDR" /\ Head(tops).v = rw /\ Head(tops) # Control({"I2C_RESET"})
  BY Fields
<1>2. Head(tops).reg # "CONTROL" /\ Head(tops).reg # "STATUS"
  BY <1>1
<1>3. QED
  BY <1>1, <1>2, StoreEffect

(* Writing a byte begins a transfer.                                       *)
LEMMA WdataEffect ==
  ASSUME TwiProgram, tops # <<>>, NEW b, Head(tops) = Wdata(b)
  PROVE  /\ tops' = Tail(tops) /\ wdata' = b /\ busy'
         /\ UNCHANGED <<control, sladdr, rdata, nak, bus, twicall, err, data, sent, moved, nacks>>
         /\ ~late' => ~late
<1>1. Head(tops).reg = "WDATA" /\ Head(tops).v = b /\ Head(tops) # Control({"I2C_RESET"})
  BY Fields
<1>2. Head(tops).reg # "CONTROL" /\ Head(tops).reg # "STATUS"
  BY <1>1
<1>3. QED
  BY <1>1, <1>2, StoreEffect

(* Reading one begins a transfer with AUTOARM.                             *)
LEMMA RdataEffect ==
  ASSUME TwiProgram, tops # <<>>, Head(tops) = Rdata
  PROVE  /\ tops' = Tail(tops) /\ data' = Append(data, rdata)
         /\ UNCHANGED <<control, sladdr, wdata, rdata, nak, bus, twicall, err, sent, moved, nacks>>
         /\ (~late' => ~late) /\ (busy' <=> busy \/ "AUTOARM" \in control)
<1>1. Head(tops).reg = "RDATA" /\ Head(tops) # Control({"I2C_RESET"})
  BY Fields
<1>2. Head(tops).reg # "CONTROL" /\ Head(tops).reg # "STATUS"
  BY <1>1
<1>3. QED
  BY <1>1, <1>2, StoreEffect

(* A wait polls, goes on, or ends the call as its caller wants.            *)
LEMMA WaitEffect ==
  ASSUME TwiProgram, tops # <<>>, NEW f, Head(tops) = Wait(f)
  PROVE  /\ UNCHANGED <<control, sladdr, wdata, rdata, nak, busy, bus, twicall, data, sent, moved, nacks>>
         /\ \/ UNCHANGED <<tops, err, late>>
            \/ /\ ~late' => ~late /\ ~busy
               /\ \/ (~err => ~err') /\ tops' = Tail(tops) /\ (f # "go" => ~nak)
                  \/ /\ f # "go" /\ err'
                     /\ tops' = IF f = "release" THEN <<Control({}), Wdata(0)>> ELSE <<>>
<1>1. Head(tops).reg = "STATUS" /\ Head(tops).ifnak = f
  BY Fields
<1>2. Poll \/ WaitOver
  BY <1>1 DEF TwiProgram, Store, GoOn, Continue
<1>3. CASE Poll
  BY <1>3 DEF Poll
<1>4. CASE WaitOver
  <2>1. UNCHANGED <<control, sladdr, wdata, rdata, nak, busy, bus, twicall, data, sent, moved, nacks>>
    BY <1>4 DEF WaitOver
  <2>2. ~late' => ~late /\ ~busy
    BY <1>4 DEF WaitOver
  <2>3. CASE nak /\ f # "go"
    BY <1>1, <1>4, <2>1, <2>2, <2>3 DEF WaitOver
  <2>4. CASE ~(nak /\ f # "go")
    BY <1>1, <1>4, <2>1, <2>2, <2>4 DEF WaitOver
  <2>5. QED
    BY <2>3, <2>4
<1>5. QED
  BY <1>2, <1>3, <1>4
-----------------------------------------------------------------------------
(* The invariant does not see a poll that finds the controller busy.       *)
LEMMA Unmoved ==
  ASSUME CallInv,
         UNCHANGED <<control, sladdr, wdata, rdata, nak, busy, bus, tops, twicall, err,
                     data, sent, moved, nacks, late>>
  PROVE  CallInv'
<1>1. CASE err /\ Refusing
  BY <1>1 DEF CallInv, Refusing, Plain, Freed
<1>2. CASE twicall.op = "none" /\ tops = <<>> /\ Plain /\ Freed
  BY <1>2 DEF CallInv, Plain, Freed
<1>3. CASE ~err /\ twicall.op # "none"
  <2>1. PICK k \in Nat : /\ At(k)
                         /\ \/ twicall.op = "send" /\ Sending(k)
                            \/ twicall.op = "recv" /\ Receiving(k)
                            \/ twicall.op = "probe" /\ ProbingTwi(k)
    BY <1>3 DEF CallInv
  <2>2. At(k)'
    BY <2>1, Stay
  <2>3. Sending(k) => Sending(k)'
    BY DEF Sending, SendHold, SendBytes, Plain, Freed, Sent, Took
  <2>4. Receiving(k) => Receiving(k)'
    BY DEF Receiving, RecvHold, RecvBytes, Plain, Freed, Booked, Spurned, RecvAddress, RecvOne, RecvMore
  <2>5. ProbingTwi(k) => ProbingTwi(k)'
    BY DEF ProbingTwi, Plain, Freed
  <2>6. QED
    BY <1>3, <2>1, <2>2, <2>3, <2>4, <2>5 DEF CallInv
<1>4. QED
  BY <1>1, <1>2, <1>3 DEF CallInv

(* A byte goes behind those below it, and may be refused but the first.    *)
LEMMA SentNext ==
  ASSUME NEW b \in Nat \ {0}, Sent(b)
  PROVE  /\ sent' = sent /\ nacks' = nacks => Sent(b)'
         /\ sent' = Append(sent, b) /\ nacks' \subseteq nacks \cup {<<"write", b>>} => Sent(b + 1)'
         /\ nacks' = nacks => Took(b)'
<1>1. sent = [i \in 1 .. b |-> i - 1] /\ nacks \subseteq {"write"} \X (1 .. b - 1)
  BY DEF Sent
<1>2. Took(b)
  BY <1>1 DEF Took
<1>3. ASSUME sent' = sent, nacks' = nacks PROVE Sent(b)'
  BY <1>1, <1>3 DEF Sent
<1>4. ASSUME nacks' = nacks PROVE Took(b)'
  BY <1>2, <1>4 DEF Took
<1>5. ASSUME sent' = Append(sent, b), nacks' \subseteq nacks \cup {<<"write", b>>}
      PROVE  Sent(b + 1)'
  <2>1. sent \in Seq(Nat) /\ Len(sent) = b
    BY <1>1, IsASeq, LenProperties
  <2>2. sent' = [i \in 1 .. b + 1 |-> i - 1]
    <3>1. sent' \in Seq(Nat) /\ Len(sent') = b + 1
          /\ \A i \in 1 .. b + 1 : sent'[i] = IF i <= b THEN sent[i] ELSE b
      BY <1>5, <2>1
    <3>2. \A i \in 1 .. b + 1 : sent'[i] = i - 1
      BY <1>1, <3>1
    <3>3. sent' = [i \in 1 .. b + 1 |-> sent'[i]]
      BY <3>1, LenProperties
    <3>4. QED
      BY <3>2, <3>3
  <2>3. nacks' \subseteq {"write"} \X (1 .. (b + 1) - 1)
    BY <1>1, <1>5
  <2>4. QED
    BY <2>2, <2>3 DEF Sent
<1>6. QED
  BY <1>3, <1>4, <1>5

(* The first byte is one that was not refused.                             *)
LEMMA SentFirst ==
  ASSUME sent = << 0 >>, nacks = {}
  PROVE  Sent(1)
<1>1. sent = [i \in 1 .. 1 |-> i - 1]
  OBVIOUS
<1>2. QED
  BY <1>1 DEF Sent

(* The places of a send.                                                   *)
LEMMA SendPlaces ==
  ASSUME NEW n \in Nat \ {0}, NEW k \in 1 .. 2 * n + 5
  PROVE  \/ k \in {1, 2, 3, 4} \/ k \in {2 * n + 3, 2 * n + 4, 2 * n + 5}
         \/ \E b \in 1 .. n - 1 : k \in {2 * b + 3, 2 * b + 4}
<1>1. CASE k \in 5 .. 2 * n + 2
  <2>1. (k - 3) \div 2 \in 1 .. n - 1 /\ k \in {2 * ((k - 3) \div 2) + 3, 2 * ((k - 3) \div 2) + 4}
    BY <1>1
  <2>2. QED
    BY <2>1
<1>2. QED
  BY <1>1

(* An access of a send leads to the next place of it.                      *)
LEMMA SendGo ==
  ASSUME NEW n \in Nat \ {0}, NEW k \in Nat, At(k), Script \in Seq(Access), tops # <<>>,
         tops' = Tail(tops), twicall' = twicall, ~err', twicall.op = "send", twicall.n = n,
         SendHold(k + 1, n)', ~late' => SendBytes(k + 1, n)'
  PROVE  CallInv'
<1>1. At(k + 1)'
  BY Advance
<1>2. Sending(k + 1)' /\ twicall'.op = "send"
  BY DEF Sending
<1>3. QED
  BY <1>1, <1>2 DEF CallInv
(* An access of a send keeps the account of it.                            *)
LEMMA SendStep ==
  ASSUME CallInv, TwiProgram, ~err, twicall.op = "send", NEW k \in Nat, At(k), Sending(k)
  PROVE  CallInv'
<1> DEFINE n == twicall.n
           s == twi_send(n)
<1>1. /\ n \in Nat \ {0} /\ SendHold(k, n) /\ (~late => SendBytes(k, n))
      /\ tops # <<>>
  BY DEF Sending, TwiProgram, Store, Poll, GoOn, Continue, WaitOver, Halted
<1>2. Script = s
  BY DEF Script
<1>3. /\ s \in Seq(Access) /\ Len(s) = 2 * n + 5
      /\ s[1] = Control({"HOLD"}) /\ s[2] = Sladdr("write") /\ s[3] = Wdata(0)
      /\ s[4] = Wait("release")
      /\ \A b \in 1 .. n - 1 : s[2 * b + 3] = Wdata(b) /\ s[2 * b + 4] = Wait("go")
      /\ s[2 * n + 3] = Control({}) /\ s[2 * n + 4] = Wdata(n)
      /\ s[2 * n + 5] = Wait("error")
  BY <1>1, SendScript
<1> HIDE DEF s
<1>4. k \in 1 .. 2 * n + 5 /\ Head(tops) = s[k]
  BY <1>1, <1>2, <1>3, Position
<1>5. PICK m \in Nat \ {0} : m = n
  BY <1>1
<1>6. ASSUME tops' = Tail(tops), twicall' = twicall, ~err', SendHold(k + 1, m)',
             ~late' => SendBytes(k + 1, m)'
      PROVE  CallInv'
  BY <1>1, <1>2, <1>3, <1>5, <1>6, SendGo
<1>7. /\ SendHold(k, m) /\ (~late => SendBytes(k, m)) /\ k \in 1 .. 2 * m + 5
      /\ \A b \in 1 .. m - 1 : s[2 * b + 3] = Wdata(b) /\ s[2 * b + 4] = Wait("go")
      /\ s[2 * m + 3] = Control({}) /\ s[2 * m + 4] = Wdata(m)
      /\ s[2 * m + 5] = Wait("error")
  BY <1>1, <1>3, <1>4, <1>5
<1> HIDE DEF n
<1>8. CASE k = 1
  <2>1. Head(tops) = Control({"HOLD"}) /\ "I2C_RESET" \notin {"HOLD"}
    BY <1>3, <1>4, <1>8
  <2>2. /\ tops' = Tail(tops) /\ control' = {"HOLD"}
        /\ UNCHANGED <<sladdr, wdata, rdata, nak, bus, twicall, err, data, sent, moved, nacks>>
        /\ (~late' => ~late) /\ (busy' <=> busy)
    BY <1>1, <2>1, ControlEffect
  <2>3. SendHold(k + 1, m)'
    BY <1>7, <1>8, <2>2 DEF SendHold, Freed
  <2>4. ~late' => SendBytes(k + 1, m)'
    BY <1>7, <1>8, <2>2 DEF SendBytes
  <2>5. QED
    BY <1>6, <2>2, <2>3, <2>4
<1>9. CASE k = 2
  <2>1. Head(tops) = Sladdr("write")
    BY <1>3, <1>4, <1>9
  <2>2. /\ tops' = Tail(tops) /\ sladdr' = "write"
        /\ UNCHANGED <<control, wdata, rdata, nak, bus, twicall, err, data, sent, moved, nacks>>
        /\ (~late' => ~late) /\ (busy' <=> busy)
    BY <1>1, <2>1, SladdrEffect
  <2>3. SendHold(k + 1, m)'
    BY <1>7, <1>9, <2>2 DEF SendHold, Freed
  <2>4. ~late' => SendBytes(k + 1, m)'
    BY <1>7, <1>9, <2>2 DEF SendBytes
  <2>5. QED
    BY <1>6, <2>2, <2>3, <2>4
<1>10. CASE k = 3
  <2>1. Head(tops) = Wdata(0)
    BY <1>3, <1>4, <1>10
  <2>2. /\ tops' = Tail(tops) /\ wdata' = 0 /\ busy'
        /\ UNCHANGED <<control, sladdr, rdata, nak, bus, twicall, err, data, sent, moved, nacks>>
        /\ ~late' => ~late
    BY <1>1, <2>1, WdataEffect
  <2>3. SendHold(k + 1, m)'
    BY <1>7, <1>10, <2>2 DEF SendHold, Freed
  <2>4. ~late' => SendBytes(k + 1, m)'
    BY <1>7, <1>10, <2>2 DEF SendBytes
  <2>5. QED
    BY <1>6, <2>2, <2>3, <2>4
<1>11. CASE k = 4
  <2>1. Head(tops) = Wait("release")
    BY <1>3, <1>4, <1>11
  <2>2. /\ UNCHANGED <<control, sladdr, wdata, rdata, nak, busy, bus, twicall, data, sent, moved, nacks>>
        /\ \/ UNCHANGED <<tops, err, late>>
           \/ /\ ~late' => ~late /\ ~busy
              /\ \/ (~err => ~err') /\ tops' = Tail(tops) /\ ~nak
                 \/ err' /\ tops' = <<Control({}), Wdata(0)>>
    BY <1>1, <2>1, WaitEffect
  <2>3. CASE UNCHANGED <<tops, err, late>>
    BY <2>2, <2>3, Unmoved
  <2>4. CASE (~late' => ~late /\ ~busy) /\ ~err' /\ tops' = Tail(tops) /\ ~nak
    <3>1. SendHold(k + 1, m)'
      BY <1>7, <1>11, <2>2, <2>4 DEF SendHold, Freed
    <3>2. ASSUME ~late' PROVE Sent(1)'
      <4>1. sent = <<0>> /\ sent' = sent /\ nacks = {} /\ nacks' = nacks
        BY <1>7, <1>11, <2>2, <2>4, <3>2 DEF SendBytes
      <4>2. QED
        BY <4>1, SentFirst, SentNext
    <3>3. ~late' => SendBytes(k + 1, m)'
      BY <1>7, <1>11, <2>2, <2>4, <3>2 DEF SendBytes
    <3>4. QED
      BY <1>6, <2>2, <2>4, <3>1, <3>3
  <2>5. CASE err' /\ tops' = <<Control({}), Wdata(0)>>
    <3>1. control' = {"HOLD"}
      BY <1>7, <1>11, <2>2 DEF SendHold
    <3>2. QED
      BY <2>5, <3>1 DEF CallInv, Refusing
  <2>6. QED
    BY <2>2, <2>3, <2>4, <2>5
<1>12. ASSUME NEW b \in 1 .. m - 1, k = 2 * b + 3 PROVE CallInv'
  <2>1. Head(tops) = Wdata(b)
    BY <1>4, <1>7, <1>12
  <2>2. /\ tops' = Tail(tops) /\ wdata' = b /\ busy'
        /\ UNCHANGED <<control, sladdr, rdata, nak, bus, twicall, err, data, sent, moved, nacks>>
        /\ ~late' => ~late
    BY <1>1, <2>1, WdataEffect
  <2>3. SendHold(k + 1, m)'
    BY <1>7, <1>12, <2>2 DEF SendHold, Freed
  <2>4. ASSUME ~late' PROVE Sent(b)' /\ sladdr = "write"
    <3>1. Sent(b) /\ sladdr = "write"
      BY <1>7, <1>12, <2>2, <2>4 DEF SendBytes
    <3>2. QED
      BY <2>2, <3>1, SentNext
  <2>5. ~late' => SendBytes(k + 1, m)'
    BY <1>7, <1>12, <2>2, <2>4 DEF SendBytes
  <2>6. QED
    BY <1>6, <2>2, <2>3, <2>5
<1>13. ASSUME NEW b \in 1 .. m - 1, k = 2 * b + 4 PROVE CallInv'
  <2>1. Head(tops) = Wait("go")
    BY <1>4, <1>7, <1>13
  <2>2. /\ UNCHANGED <<control, sladdr, wdata, rdata, nak, busy, bus, twicall, data, sent, moved, nacks>>
        /\ \/ UNCHANGED <<tops, err, late>>
           \/ (~late' => ~late /\ ~busy) /\ ~err' /\ tops' = Tail(tops)
    BY <1>1, <2>1, WaitEffect
  <2>3. CASE UNCHANGED <<tops, err, late>>
    BY <2>2, <2>3, Unmoved
  <2>4. CASE (~late' => ~late /\ ~busy) /\ ~err' /\ tops' = Tail(tops)
    <3>1. SendHold(k + 1, m)'
      BY <1>7, <1>13, <2>2, <2>4 DEF SendHold, Freed
    <3>2. ASSUME ~late' PROVE Sent(b + 1)' /\ sladdr = "write"
      <4>1. ~late /\ ~busy /\ SendBytes(k, m)
        BY <1>7, <2>4, <3>2
      <4>2. sladdr = "write" /\ Sent(IF busy THEN b ELSE b + 1)
        <5>1. k >= 3
          BY <1>13
        <5>2. QED
          BY <1>13, <4>1, <5>1 DEF SendBytes
      <4>3. b + 1 \in Nat /\ Sent(b + 1)
        BY <4>1, <4>2
      <4>4. QED
        BY <2>2, <4>2, <4>3, SentNext
    <3>3. \A c \in 1 .. m : k + 1 = 2 * c + 3 => c = b + 1
      BY <1>13
    <3>4. ~late' => SendBytes(k + 1, m)'
      BY <1>7, <1>13, <2>2, <2>4, <3>2, <3>3 DEF SendBytes
    <3>5. QED
      BY <1>6, <2>2, <2>4, <3>1, <3>4
  <2>5. QED
    BY <2>2, <2>3, <2>4
<1>14. CASE k = 2 * m + 3
  <2>1. Head(tops) = Control({}) /\ "I2C_RESET" \notin {}
    BY <1>4, <1>7, <1>14
  <2>2. /\ tops' = Tail(tops) /\ control' = {}
        /\ UNCHANGED <<sladdr, wdata, rdata, nak, bus, twicall, err, data, sent, moved, nacks>>
        /\ (~late' => ~late) /\ (busy' <=> busy)
    BY <1>1, <2>1, ControlEffect
  <2>3. SendHold(k + 1, m)'
    BY <1>14, <2>2 DEF SendHold, Plain
  <2>4. ASSUME ~late' PROVE Sent(m)' /\ sladdr = "write" /\ ~busy
    <3>1. Sent(m) /\ sladdr = "write" /\ ~busy
      BY <1>7, <1>14, <2>2, <2>4 DEF SendBytes
    <3>2. QED
      BY <2>2, <3>1, SentNext
  <2>5. ~late' => SendBytes(k + 1, m)'
    BY <1>7, <1>14, <2>2, <2>4 DEF SendBytes
  <2>6. QED
    BY <1>1, <1>6, <2>2, <2>3, <2>5
<1>15. CASE k = 2 * m + 4
  <2>1. Head(tops) = Wdata(m)
    BY <1>4, <1>7, <1>15
  <2>2. /\ tops' = Tail(tops) /\ wdata' = m /\ busy'
        /\ UNCHANGED <<control, sladdr, rdata, nak, bus, twicall, err, data, sent, moved, nacks>>
        /\ ~late' => ~late
    BY <1>1, <2>1, WdataEffect
  <2>3. SendHold(k + 1, m)'
    BY <1>7, <1>15, <2>2 DEF SendHold, Freed, Plain
  <2>4. ASSUME ~late' PROVE Sent(m)' /\ sladdr = "write"
    <3>1. Sent(m) /\ sladdr = "write"
      BY <1>7, <1>15, <2>2, <2>4 DEF SendBytes
    <3>2. QED
      BY <2>2, <3>1, SentNext
  <2>5. ~late' => SendBytes(k + 1, m)'
    BY <1>7, <1>15, <2>2, <2>4 DEF SendBytes
  <2>6. QED
    BY <1>6, <2>2, <2>3, <2>5
<1>16. CASE k = 2 * m + 5
  <2>1. Head(tops) = Wait("error")
    BY <1>4, <1>7, <1>16
  <2>2. /\ UNCHANGED <<control, sladdr, wdata, rdata, nak, busy, bus, twicall, data, sent, moved, nacks>>
        /\ \/ UNCHANGED <<tops, err, late>>
           \/ /\ ~late' => ~late /\ ~busy
              /\ (~err' /\ tops' = Tail(tops) /\ ~nak) \/ (err' /\ tops' = <<>>)
    BY <1>1, <2>1, WaitEffect
  <2>3. CASE UNCHANGED <<tops, err, late>>
    BY <2>2, <2>3, Unmoved
  <2>4. CASE (~late' => ~late /\ ~busy) /\ ~err' /\ tops' = Tail(tops) /\ ~nak
    <3>1. SendHold(k + 1, m)'
      BY <1>7, <1>16, <2>2, <2>4 DEF SendHold, Freed, Plain
    <3>2. ASSUME ~late' PROVE Sent(m + 1)' /\ Took(m)' /\ sladdr = "write" /\ ~busy
      <4>1. Sent(m + 1) /\ Took(m) /\ sladdr = "write" /\ ~busy
        BY <1>7, <1>16, <2>2, <2>4, <3>2 DEF SendBytes
      <4>2. m + 1 \in Nat \ {0} /\ nacks' = nacks /\ sent' = sent
        BY <2>2
      <4>3. Sent(m + 1)'
        BY <4>1, <4>2, SentNext
      <4>4. Took(m)'
        BY <4>1, <4>2 DEF Took
      <4>5. QED
        BY <2>2, <4>1, <4>3, <4>4
    <3>3. ~late' => SendBytes(k + 1, m)'
      BY <1>7, <1>16, <2>2, <2>4, <3>2 DEF SendBytes
    <3>4. QED
      BY <1>6, <2>2, <2>4, <3>1, <3>3
  <2>5. CASE err' /\ tops' = <<>>
    <3>1. Plain' /\ Freed'
      BY <1>7, <1>16, <2>2 DEF SendHold, Plain, Freed
    <3>2. QED
      BY <2>5, <3>1 DEF CallInv, Refusing
  <2>6. QED
    BY <2>2, <2>3, <2>4, <2>5
<1>17. QED
  BY <1>7, <1>8, <1>9, <1>10, <1>11, <1>12, <1>13, <1>14, <1>15, <1>16, SendPlaces
(* So does a transfer of it.                                               *)
LEMMA SendMoves ==
  ASSUME CallInv, Transferred, ~err, twicall.op = "send", NEW k \in Nat, At(k), Sending(k)
  PROVE  CallInv'
<1> DEFINE n == twicall.n
<1>1. n \in Nat \ {0} /\ SendHold(k, n) /\ (~late => SendBytes(k, n))
  BY DEF Sending
<1>2. PICK m \in Nat \ {0} : m = n
  BY <1>1
<1>3. /\ SendHold(k, m) /\ (~late => SendBytes(k, m)) /\ k \in 1 .. 2 * m + 6
  <2>1. Script = twi_send(m) /\ Len(twi_send(m)) = 2 * m + 5
    BY <1>2, SendScript DEF Script
  <2>2. QED
    BY <1>1, <1>2, <2>1 DEF At
<1>4. /\ busy /\ ~busy' /\ bus' = IF "HOLD" \in control THEN sladdr ELSE "free"
      /\ UNCHANGED <<control, sladdr, wdata, tops, twicall, err, data>>
      /\ late' = late
  BY DEF Transferred
<1>5. /\ sladdr = "write" => sent' = Append(sent, wdata)
      /\ nacks' = IF nak' THEN nacks \cup {<<sladdr, wdata>>} ELSE nacks
  BY DEF Transferred
<1> HIDE DEF n
<1>6. SendHold(k, m)'
  BY <1>3, <1>4 DEF SendHold, Plain, Freed
<1>7. ASSUME ~late' PROVE SendBytes(k, m)'
  <2>1. ~late /\ SendBytes(k, m)
    BY <1>3, <1>4, <1>7
  <2>2. sladdr = "write" /\ sladdr' = "write" /\ k >= 4
    BY <1>3, <1>4, <2>1 DEF SendBytes
  <2>3. /\ sent' = Append(sent, wdata) /\ nacks' \subseteq nacks \cup {<<"write", wdata>>}
        /\ ~nak' => nacks' = nacks
    BY <1>5, <2>2
  <2>4. CASE k = 4
    <3>1. sent = <<>> /\ wdata = 0 /\ nacks = {}
      BY <1>4, <2>1, <2>4 DEF SendBytes
    <3>2. sent' = <<0>> /\ (~nak' => nacks' = {})
      BY <2>3, <3>1
    <3>3. QED
      BY <1>3, <1>4, <2>2, <2>4, <3>1, <3>2 DEF SendBytes
  <2>5. ASSUME NEW b \in 1 .. m - 1, k = 2 * b + 4 PROVE SendBytes(k, m)'
    <3>1. wdata = b /\ Sent(IF busy THEN b ELSE b + 1)
      BY <2>1, <2>5 DEF SendBytes
    <3>2. Sent(b)
      BY <1>4, <3>1
    <3>3. Sent(b + 1)'
      BY <2>3, <3>1, <3>2, SentNext
    <3>4. \A c \in 1 .. m - 1 : k = 2 * c + 4 => c = b
      BY <2>5
    <3>5. QED
      BY <1>3, <1>4, <2>2, <2>5, <3>1, <3>3, <3>4 DEF SendBytes
  <2>6. CASE k = 2 * m + 5
    <3>1. wdata = m /\ Sent(IF busy THEN m ELSE m + 1)
      BY <2>1, <2>6 DEF SendBytes
    <3>2. Sent(m)
      BY <1>4, <3>1
    <3>3. Sent(m + 1)' /\ (~nak' => Took(m)')
      BY <2>3, <3>1, <3>2, SentNext
    <3>4. /\ ~(k <= 3) /\ ~(k = 4) /\ ~(k = 2 * m + 4) /\ ~(k = 2 * m + 6)
          /\ \A b \in 1 .. m : ~(k = 2 * b + 3)
          /\ \A b \in 1 .. m - 1 : ~(k = 2 * b + 4)
      BY <2>6
    <3>5. ~busy' /\ wdata' = m
      BY <1>4, <3>1
    <3>6. QED
      BY <2>2, <3>3, <3>4, <3>5 DEF SendBytes
  <2>7. ~(k = 2 * m + 6) /\ ~(k = 2 * m + 4) /\ (\A b \in 1 .. m : ~(k = 2 * b + 3))
    BY <1>4, <2>1 DEF SendBytes
  <2>8. k \in 1 .. 2 * m + 5 /\ ~(k = 2 * m + 3)
    BY <1>3, <2>7
  <2>9. k = 4 \/ k = 2 * m + 5 \/ \E b \in 1 .. m - 1 : k = 2 * b + 4
    <3>1. ASSUME NEW b \in 1 .. m - 1, k \in {2 * b + 3, 2 * b + 4} PROVE k = 2 * b + 4
      <4>1. b \in 1 .. m
        BY <3>1
      <4>2. QED
        BY <2>7, <3>1, <4>1
    <3>2. \/ k \in {1, 2, 3, 4} \/ k \in {2 * m + 3, 2 * m + 4, 2 * m + 5}
          \/ \E b \in 1 .. m - 1 : k \in {2 * b + 3, 2 * b + 4}
      BY <2>8, SendPlaces
    <3>3. QED
      BY <2>2, <2>7, <2>8, <3>1, <3>2
  <2>10. QED
    BY <2>4, <2>5, <2>6, <2>9
<1>8. At(k)' /\ Sending(k)' /\ twicall'.op = "send" /\ ~err'
  <2>1. At(k)'
    BY <1>4, Stay
  <2>2. twicall'.n = m /\ twicall'.op = "send" /\ ~err'
    BY <1>2, <1>4 DEF n
  <2>3. QED
    BY <1>6, <1>7, <2>1, <2>2 DEF Sending
<1>9. QED
  BY <1>8 DEF CallInv
-----------------------------------------------------------------------------
(* The account of a receive, when no transfer begins or ends.              *)
LEMMA BookedSame ==
  ASSUME NEW u \in Nat, NEW d \in Nat, Booked(u, d), UNCHANGED <<moved, data, rdata, nacks>>,
         busy' <=> busy
  PROVE  Booked(u, d)'
  BY DEF Booked, Spurned

(* A transfer begun.                                                       *)
LEMMA BookedStart ==
  ASSUME NEW u \in Nat, NEW d \in Nat, Booked(u, d), UNCHANGED <<moved, data, rdata, nacks>>,
         Counted, ~busy, busy'
  PROVE  Booked(u + 1, d)'
  BY DEF Booked, Counted, Spurned

(* A byte stored, with or without the next transfer begun.                 *)
LEMMA BookedStore ==
  ASSUME NEW d \in Nat, Booked(d + 1, d), UNCHANGED <<moved, rdata, nacks>>, Counted, ~busy,
         data' = Append(data, rdata)
  PROVE  (busy' => Booked(d + 2, d + 1)') /\ (~busy' => Booked(d + 1, d + 1)')
<1>1. /\ data \in Seq(Nat) /\ Len(data) = d /\ rdata \in Nat /\ moved \in Nat
      /\ \/ Spurned
         \/ moved = d + 1 /\ rdata = moved /\ \A i \in 1 .. d : data[i] = i
  BY DEF Booked, Counted
<1>2. /\ data' \in Seq(Nat) /\ Len(data') = d + 1 /\ data'[d + 1] = rdata
      /\ \A i \in 1 .. d : data'[i] = data[i]
  BY <1>1
<1>3. CASE Spurned
  BY <1>1, <1>2, <1>3 DEF Booked, Spurned
<1>4. CASE moved = d + 1 /\ rdata = moved /\ \A i \in 1 .. d : data[i] = i
  <2>1. \A i \in 1 .. d + 1 : data'[i] = i
    <3>1. ASSUME NEW i \in 1 .. d + 1 PROVE data'[i] = i
      <4>1. CASE i \in 1 .. d
        BY <1>2, <1>4, <4>1
      <4>2. CASE i = d + 1
        <5>1. data'[d + 1] = d + 1
          BY <1>2, <1>4
        <5>2. QED
          BY <4>2, <5>1
      <4>3. i \in 1 .. d \/ i = d + 1
        OBVIOUS
      <4>4. QED
        BY <4>1, <4>2, <4>3
    <3>2. QED
      BY <3>1
  <2>2. QED
    BY <1>1, <1>2, <1>4, <2>1 DEF Booked
<1>5. QED
  BY <1>1, <1>3, <1>4

(* A transfer ended.                                                       *)
LEMMA BookedMoved ==
  ASSUME NEW u \in Nat, NEW d \in Nat, Booked(u, d), Counted, busy, ~busy', data' = data,
         nacks \subseteq nacks',
         \/ moved' = moved + 1 /\ rdata' = moved'
         \/ <<"read", wdata>> \in nacks'
  PROVE  Booked(u, d)'
<1>1. data' = data /\ moved \in Nat /\ data \in Seq(Nat) /\ Len(data) = d
  BY DEF Booked, Counted
<1>2. \/ Spurned
      \/ moved + 1 = u /\ \A i \in 1 .. d : data[i] = i
  BY DEF Booked
<1>3. CASE Spurned \/ <<"read", wdata>> \in nacks'
  <2>1. Spurned'
    BY <1>3 DEF Spurned
  <2>2. QED
    BY <1>1, <2>1 DEF Booked
<1>4. CASE ~Spurned /\ moved' = moved + 1 /\ rdata' = moved'
  BY <1>1, <1>2, <1>4 DEF Booked
<1>5. QED
  BY <1>3, <1>4

(* Nothing begun and nothing stored.                                       *)
LEMMA BookedNone ==
  ASSUME moved = 0, data = <<>>, ~busy
  PROVE  Booked(0, 0)
<1>1. <<>> \in Seq(Nat) /\ Len(<<>>) = 0
  BY EmptySeq
<1>2. QED
  BY <1>1 DEF Booked

(* The places of a receive of more than one byte.                          *)
LEMMA RecvPlaces ==
  ASSUME NEW n \in Nat \ {0, 1}, NEW k \in 1 .. 2 * n + 10
  PROVE  \/ k \in 1 .. 8 \/ k \in 2 * n + 5 .. 2 * n + 10
         \/ \E d \in 1 .. n - 2 : k \in {2 * d + 7, 2 * d + 8}
<1>1. CASE k \in 9 .. 2 * n + 4
  <2>1. (k - 7) \div 2 \in 1 .. n - 2 /\ k \in {2 * ((k - 7) \div 2) + 7, 2 * ((k - 7) \div 2) + 8}
    BY <1>1
  <2>2. QED
    BY <2>1
<1>2. QED
  BY <1>1

(* An access of a receive leads to the next place of it.                   *)
LEMMA RecvGo ==
  ASSUME NEW n \in Nat \ {0}, NEW k \in Nat, At(k), Script \in Seq(Access), tops # <<>>,
         tops' = Tail(tops), twicall' = twicall, ~err', twicall.op = "recv", twicall.n = n,
         RecvHold(k + 1, n)', ~late' => RecvBytes(k + 1, n)'
  PROVE  CallInv'
<1>1. At(k + 1)'
  BY Advance
<1>2. Receiving(k + 1)' /\ twicall'.op = "recv"
  BY DEF Receiving
<1>3. QED
  BY <1>1, <1>2 DEF CallInv

(* The accesses that address the slave to be read from.                    *)
LEMMA RecvAddressStep ==
  ASSUME CallInv, TwiProgram, ~err, tops # <<>>, twicall.op = "recv",
         NEW n \in Nat \ {0}, twicall.n = n, NEW k \in 1 .. 5, At(k),
         RecvHold(k, n), ~late => RecvBytes(k, n)
  PROVE  CallInv'
<1> DEFINE s == twi_recv(n)
<1>1. Script = s
  BY DEF Script
<1>2. /\ s \in Seq(Access)
      /\ s[1] = Control({}) /\ s[2] = Sladdr("write") /\ s[3] = Wdata(0)
      /\ s[4] = Wait("error") /\ s[5] = Sladdr("read")
  BY RecvScript
<1> HIDE DEF s
<1>3. k \in Nat /\ Head(tops) = s[k]
  BY <1>1, <1>2, Position
<1>4. ASSUME tops' = Tail(tops), twicall' = twicall, ~err', RecvHold(k + 1, n)',
             ~late' => RecvAddress(k + 1)'
      PROVE  CallInv'
  <2>1. k + 1 \in 2 .. 6
    OBVIOUS
  <2>2. RecvAddress(k + 1)' => RecvBytes(k + 1, n)'
    BY <2>1 DEF RecvBytes, RecvOne, RecvMore
  <2>3. QED
    BY <1>1, <1>2, <1>3, <1>4, <2>2, RecvGo
<1>5. ~late => RecvAddress(k)
  BY DEF RecvBytes
<1>6. CASE k = 1
  <2>1. Head(tops) = Control({}) /\ "I2C_RESET" \notin {}
    BY <1>2, <1>3, <1>6
  <2>2. /\ tops' = Tail(tops) /\ control' = {}
        /\ UNCHANGED <<sladdr, wdata, rdata, nak, bus, twicall, err, data, sent, moved, nacks>>
        /\ (~late' => ~late) /\ (busy' <=> busy)
    BY <2>1, ControlEffect
  <2>3. RecvHold(k + 1, n)' /\ (~late' => RecvAddress(k + 1)')
    BY <1>5, <1>6, <2>2 DEF RecvHold, RecvAddress, Plain, Freed
  <2>4. QED
    BY <1>4, <2>2, <2>3
<1>7. CASE k = 2
  <2>1. Head(tops) = Sladdr("write")
    BY <1>2, <1>3, <1>7
  <2>2. /\ tops' = Tail(tops) /\ sladdr' = "write"
        /\ UNCHANGED <<control, wdata, rdata, nak, bus, twicall, err, data, sent, moved, nacks>>
        /\ (~late' => ~late) /\ (busy' <=> busy)
    BY <2>1, SladdrEffect
  <2>3. RecvHold(k + 1, n)' /\ (~late' => RecvAddress(k + 1)')
    BY <1>5, <1>7, <2>2 DEF RecvHold, RecvAddress, Plain, Freed
  <2>4. QED
    BY <1>4, <2>2, <2>3
<1>8. CASE k = 3
  <2>1. Head(tops) = Wdata(0)
    BY <1>2, <1>3, <1>8
  <2>2. /\ tops' = Tail(tops) /\ wdata' = 0 /\ busy'
        /\ UNCHANGED <<control, sladdr, rdata, nak, bus, twicall, err, data, sent, moved, nacks>>
        /\ ~late' => ~late
    BY <2>1, WdataEffect
  <2>3. RecvHold(k + 1, n)' /\ (~late' => RecvAddress(k + 1)')
    BY <1>5, <1>8, <2>2 DEF RecvHold, RecvAddress, Plain, Freed
  <2>4. QED
    BY <1>4, <2>2, <2>3
<1>9. CASE k = 4
  <2>1. Head(tops) = Wait("error")
    BY <1>2, <1>3, <1>9
  <2>2. /\ UNCHANGED <<control, sladdr, wdata, rdata, nak, busy, bus, twicall, data, sent, moved, nacks>>
        /\ \/ UNCHANGED <<tops, err, late>>
           \/ /\ ~late' => ~late /\ ~busy
              /\ (~err' /\ tops' = Tail(tops)) \/ (err' /\ tops' = <<>>)
    BY <2>1, WaitEffect
  <2>3. CASE UNCHANGED <<tops, err, late>>
    BY <2>2, <2>3, Unmoved
  <2>4. CASE (~late' => ~late /\ ~busy) /\ ~err' /\ tops' = Tail(tops)
    <3>1. RecvHold(k + 1, n)' /\ (~late' => RecvAddress(k + 1)')
      BY <1>5, <1>9, <2>2, <2>4 DEF RecvHold, RecvAddress, Plain, Freed
    <3>2. QED
      BY <1>4, <2>2, <2>4, <3>1
  <2>5. CASE err' /\ tops' = <<>>
    <3>1. Plain' /\ Freed'
      BY <1>9, <2>2 DEF RecvHold, Plain, Freed
    <3>2. QED
      BY <2>5, <3>1 DEF CallInv, Refusing
  <2>6. QED
    BY <2>2, <2>3, <2>4, <2>5
<1>10. CASE k = 5
  <2>1. Head(tops) = Sladdr("read")
    BY <1>2, <1>3, <1>10
  <2>2. /\ tops' = Tail(tops) /\ sladdr' = "read"
        /\ UNCHANGED <<control, wdata, rdata, nak, bus, twicall, err, data, sent, moved, nacks>>
        /\ (~late' => ~late) /\ (busy' <=> busy)
    BY <2>1, SladdrEffect
  <2>3. RecvHold(k + 1, n)' /\ (~late' => RecvAddress(k + 1)')
    BY <1>5, <1>10, <2>2 DEF RecvHold, RecvAddress, Plain, Freed
  <2>4. QED
    BY <1>4, <2>2, <2>3
<1>11. QED
  BY <1>6, <1>7, <1>8, <1>9, <1>10
(* The accesses that receive one byte.                                     *)
LEMMA RecvOneStep ==
  ASSUME TwiInv, TwiProgram, ~err, tops # <<>>, twicall.op = "recv", twicall.n = 1,
         NEW k \in 6 .. 9, At(k), RecvHold(k, 1), ~late => RecvBytes(k, 1)
  PROVE  CallInv'
<1> DEFINE s == twi_recv(1)
<1>1. Script = s
  BY DEF Script
<1>2. s \in Seq(Access) /\ Len(s) = 8 /\ s[6] = Wdata(0) /\ s[7] = Wait("go") /\ s[8] = Rdata
  BY RecvScript
<1> HIDE DEF s
<1>3. k \in Nat /\ k \in 6 .. 8 /\ Head(tops) = s[k]
  BY <1>1, <1>2, Position
<1>4. ASSUME tops' = Tail(tops), twicall' = twicall, ~err', RecvHold(k + 1, 1)',
             ~late' => RecvAddress(k + 1)' /\ RecvOne(k + 1)'
      PROVE  CallInv'
  <2>1. RecvAddress(k + 1)' /\ RecvOne(k + 1)' => RecvBytes(k + 1, 1)'
    BY DEF RecvBytes
  <2>2. QED
    BY <1>1, <1>2, <1>3, <1>4, <2>1, RecvGo
<1>5. ~late => RecvAddress(k) /\ RecvOne(k)
  BY DEF RecvBytes
<1>6. Counted /\ CallInv
  BY DEF TwiInv
<1>7. CASE k = 6
  <2>1. Head(tops) = Wdata(0)
    BY <1>2, <1>3, <1>7
  <2>2. /\ tops' = Tail(tops) /\ wdata' = 0 /\ busy'
        /\ UNCHANGED <<control, sladdr, rdata, nak, bus, twicall, err, data, sent, moved, nacks>>
        /\ ~late' => ~late
    BY <2>1, WdataEffect
  <2>3. RecvHold(k + 1, 1)'
    BY <1>7, <2>2 DEF RecvHold, Plain, Freed
  <2>4. ASSUME ~late' PROVE RecvAddress(k + 1)' /\ RecvOne(k + 1)'
    <3>1. RecvAddress(k) /\ moved = 0 /\ data = <<>> /\ ~busy
      BY <1>5, <1>7, <2>2, <2>4 DEF RecvAddress
    <3>2. Booked(0 + 1, 0)'
      BY <1>6, <2>2, <3>1, BookedNone, BookedStart
    <3>3. QED
      BY <1>7, <2>2, <3>1, <3>2 DEF RecvAddress, RecvOne
  <2>5. QED
    BY <1>4, <2>2, <2>3, <2>4
<1>8. CASE k = 7
  <2>1. Head(tops) = Wait("go")
    BY <1>2, <1>3, <1>8
  <2>2. /\ UNCHANGED <<control, sladdr, wdata, rdata, nak, busy, bus, twicall, data, sent, moved, nacks>>
        /\ \/ UNCHANGED <<tops, err, late>>
           \/ (~late' => ~late /\ ~busy) /\ ~err' /\ tops' = Tail(tops)
    BY <2>1, WaitEffect
  <2>3. CASE UNCHANGED <<tops, err, late>>
    BY <1>6, <2>2, <2>3, Unmoved
  <2>4. CASE (~late' => ~late /\ ~busy) /\ ~err' /\ tops' = Tail(tops)
    <3>1. RecvHold(k + 1, 1)'
      BY <1>8, <2>2 DEF RecvHold, Plain, Freed
    <3>2. ASSUME ~late' PROVE RecvAddress(k + 1)' /\ RecvOne(k + 1)'
      <4>1. RecvAddress(k) /\ Booked(1, 0) /\ ~busy
        BY <1>5, <1>8, <2>4, <3>2 DEF RecvOne
      <4>2. Booked(1, 0)'
        BY <2>2, <4>1, BookedSame
      <4>3. QED
        BY <1>8, <2>2, <4>1, <4>2 DEF RecvAddress, RecvOne
    <3>3. QED
      BY <1>4, <2>2, <2>4, <3>1, <3>2
  <2>5. QED
    BY <2>2, <2>3, <2>4
<1>9. CASE k = 8
  <2>1. Head(tops) = Rdata
    BY <1>2, <1>3, <1>9
  <2>2. /\ tops' = Tail(tops) /\ data' = Append(data, rdata)
        /\ UNCHANGED <<control, sladdr, wdata, rdata, nak, bus, twicall, err, sent, moved, nacks>>
        /\ (~late' => ~late) /\ (busy' <=> busy \/ "AUTOARM" \in control)
    BY <2>1, RdataEffect
  <2>3. "AUTOARM" \notin control
    BY <1>9 DEF RecvHold, Plain
  <2>4. RecvHold(k + 1, 1)'
    BY <1>9, <2>2, <2>3 DEF RecvHold, Plain, Freed
  <2>5. ASSUME ~late' PROVE RecvAddress(k + 1)' /\ RecvOne(k + 1)'
    <3>1. RecvAddress(k) /\ Booked(0 + 1, 0) /\ ~busy
      BY <1>5, <1>9, <2>2, <2>5 DEF RecvOne
    <3>2. Booked(0 + 1, 0 + 1)'
      BY <1>6, <2>2, <2>3, <3>1, BookedStore
    <3>3. QED
      BY <1>9, <2>2, <2>3, <3>1, <3>2 DEF RecvAddress, RecvOne
  <2>6. QED
    BY <1>4, <2>2, <2>4, <2>5
<1>10. QED
  BY <1>3, <1>7, <1>8, <1>9

(* Those that receive more.                                                *)
LEMMA RecvMoreStep ==
  ASSUME TwiInv, TwiProgram, ~err, tops # <<>>, twicall.op = "recv",
         NEW n \in Nat \ {0, 1}, twicall.n = n, NEW k \in Nat, k >= 6, At(k),
         RecvHold(k, n), ~late => RecvBytes(k, n)
  PROVE  CallInv'
<1> DEFINE s == twi_recv(n)
<1>1. Script = s
  BY DEF Script
<1>2. /\ s \in Seq(Access) /\ Len(s) = 2 * n + 10
      /\ s[6] = Control({"AUTOARM", "HOLD"}) /\ s[7] = Wdata(0) /\ s[8] = Wait("go")
      /\ \A d \in 1 .. n - 2 : s[2 * d + 7] = Rdata /\ s[2 * d + 8] = Wait("go")
      /\ s[2 * n + 5] = Control({"MACK"}) /\ s[2 * n + 6] = Rdata
      /\ s[2 * n + 7] = Wait("go") /\ s[2 * n + 8] = Wdata(0)
      /\ s[2 * n + 9] = Wait("go") /\ s[2 * n + 10] = Rdata
  <2>1. n \in Nat \ {0} /\ n > 1
    OBVIOUS
  <2> HIDE DEF s
  <2>2. s = twi_recv(n)
    BY DEF s
  <2>3. QED
    BY <2>1, <2>2, RecvScript
<1> HIDE DEF s
<1>3. k \in 1 .. 2 * n + 10 /\ Head(tops) = s[k]
  BY <1>1, <1>2, Position
<1>4. ASSUME tops' = Tail(tops), twicall' = twicall, ~err', RecvHold(k + 1, n)',
             sladdr' = sladdr, ~late' => ~late,
             ~late' => RecvMore(k + 1, n)'
      PROVE  CallInv'
  <2>1. ~late' => RecvBytes(k + 1, n)'
    BY <1>4 DEF RecvBytes, RecvAddress
  <2>2. QED
    BY <1>1, <1>2, <1>3, <1>4, <2>1, RecvGo
<1>5. ~late => RecvMore(k, n)
  BY DEF RecvBytes
<1>6. Counted /\ CallInv
  BY DEF TwiInv
<1>7. CASE k = 6
  <2>1. Head(tops) = Control({"AUTOARM", "HOLD"}) /\ "I2C_RESET" \notin {"AUTOARM", "HOLD"}
    BY <1>2, <1>3, <1>7
  <2>2. /\ tops' = Tail(tops) /\ control' = {"AUTOARM", "HOLD"}
        /\ UNCHANGED <<sladdr, wdata, rdata, nak, bus, twicall, err, data, sent, moved, nacks>>
        /\ (~late' => ~late) /\ (busy' <=> busy)
    BY <2>1, ControlEffect
  <2>3. RecvHold(k + 1, n)'
    BY <1>7, <2>2 DEF RecvHold
  <2>4. ASSUME ~late' PROVE RecvMore(k + 1, n)'
    <3>1. RecvAddress(k) /\ moved = 0 /\ data = <<>> /\ ~busy
      BY <1>7, <2>2, <2>4 DEF RecvBytes, RecvAddress
    <3>2. Booked(0, 0)'
      BY <2>2, <3>1, BookedNone, BookedSame
    <3>3. QED
      BY <1>7, <2>2, <3>1, <3>2 DEF RecvMore
  <2>5. QED
    BY <1>4, <2>2, <2>3, <2>4
<1>8. CASE k = 7
  <2>1. Head(tops) = Wdata(0)
    BY <1>2, <1>3, <1>8
  <2>2. /\ tops' = Tail(tops) /\ wdata' = 0 /\ busy'
        /\ UNCHANGED <<control, sladdr, rdata, nak, bus, twicall, err, data, sent, moved, nacks>>
        /\ ~late' => ~late
    BY <2>1, WdataEffect
  <2>3. RecvHold(k + 1, n)'
    BY <1>8, <2>2 DEF RecvHold
  <2>4. ASSUME ~late' PROVE RecvMore(k + 1, n)'
    <3>1. Booked(0, 0) /\ ~busy
      BY <1>5, <1>8, <2>2, <2>4 DEF RecvMore
    <3>2. Booked(0 + 1, 0)'
      BY <1>6, <2>2, <3>1, BookedStart
    <3>3. \A d \in 0 .. n - 2 : (8 = 2 * d + 8 => d = 0) /\ ~(8 = 2 * d + 9)
      OBVIOUS
    <3>4. QED
      BY <1>8, <3>2, <3>3 DEF RecvMore
  <2>5. QED
    BY <1>4, <2>2, <2>3, <2>4
<1>9. ASSUME NEW d \in 0 .. n - 2, k = 2 * d + 8 PROVE CallInv'
  <2>1. Head(tops) = Wait("go")
    <3>1. CASE d = 0
      BY <1>2, <1>3, <1>9, <3>1
    <3>2. CASE d \in 1 .. n - 2
      BY <1>2, <1>3, <1>9, <3>2
    <3>3. QED
      BY <3>1, <3>2
  <2>2. /\ UNCHANGED <<control, sladdr, wdata, rdata, nak, busy, bus, twicall, data, sent, moved, nacks>>
        /\ \/ UNCHANGED <<tops, err, late>>
           \/ (~late' => ~late /\ ~busy) /\ ~err' /\ tops' = Tail(tops)
    BY <2>1, WaitEffect
  <2>3. CASE UNCHANGED <<tops, err, late>>
    BY <1>6, <2>2, <2>3, Unmoved
  <2>4. CASE (~late' => ~late /\ ~busy) /\ ~err' /\ tops' = Tail(tops)
    <3>1. RecvHold(k + 1, n)'
      BY <1>9, <2>2 DEF RecvHold
    <3>2. ASSUME ~late' PROVE RecvMore(k + 1, n)'
      <4>1. RecvMore(k, n) /\ ~busy
        BY <1>5, <2>4, <3>2
      <4>2. Booked(d + 1, d)
        BY <1>9, <4>1 DEF RecvMore
      <4>3. Booked(d + 1, d)' /\ ~busy'
        BY <2>2, <4>1, <4>2, BookedSame
      <4>4. \A e \in 0 .. n - 2 : /\ ~(k + 1 = 2 * e + 8)
                                  /\ k + 1 = 2 * e + 9 => e = d
        BY <1>9
      <4>5. k + 1 >= 8 /\ k + 1 <= 2 * n + 5
        BY <1>9
      <4>6. QED
        BY <4>3, <4>4, <4>5, SMTT(30) DEF RecvMore
    <3>3. QED
      BY <1>4, <2>2, <2>4, <3>1, <3>2
  <2>5. QED
    BY <2>2, <2>3, <2>4
<1>10. ASSUME NEW d \in 1 .. n - 2, k = 2 * d + 7 PROVE CallInv'
  <2>1. Head(tops) = Rdata
    BY <1>2, <1>3, <1>10
  <2>2. /\ tops' = Tail(tops) /\ data' = Append(data, rdata)
        /\ UNCHANGED <<control, sladdr, wdata, rdata, nak, bus, twicall, err, sent, moved, nacks>>
        /\ (~late' => ~late) /\ (busy' <=> busy \/ "AUTOARM" \in control)
    BY <2>1, RdataEffect
  <2>3. control = {"AUTOARM", "HOLD"}
    BY <1>10 DEF RecvHold
  <2>4. RecvHold(k + 1, n)' /\ busy'
    BY <1>10, <2>2, <2>3 DEF RecvHold
  <2>5. ASSUME ~late' PROVE RecvMore(k + 1, n)'
    <3>1. d - 1 \in 0 .. n - 2 /\ k = 2 * (d - 1) + 9 /\ d - 1 \in Nat
      BY <1>10
    <3>2. RecvMore(k, n)
      BY <1>5, <2>2, <2>5
    <3>3. Booked((d - 1) + 1, d - 1) /\ ~busy
      BY <3>1, <3>2 DEF RecvMore
    <3>4. Booked((d - 1) + 2, (d - 1) + 1)'
      BY <1>6, <2>2, <2>4, <3>1, <3>3, BookedStore
    <3>5. (d - 1) + 2 = d + 1 /\ (d - 1) + 1 = d
      BY <1>10
    <3>6. Booked(d + 1, d)'
      BY <3>4, <3>5
    <3>7. \A e \in 0 .. n - 2 : /\ ~(k + 1 = 2 * e + 9)
                                /\ k + 1 = 2 * e + 8 => e = d
      BY <1>10
    <3>8. k + 1 >= 8 /\ k + 1 <= 2 * n + 4
      BY <1>10
    <3>9. ASSUME NEW e \in 0 .. n - 2, k + 1 = 2 * e + 8 PROVE Booked(e + 1, e)'
      <4>1. e = d
        BY <3>7, <3>9
      <4>2. QED
        BY <3>6, <4>1
    <3>10. QED
      BY <3>7, <3>8, <3>9 DEF RecvMore
  <2>6. QED
    BY <1>4, <2>2, <2>4, <2>5
<1>12. ASSUME NEW d \in 0 .. n - 2 PROVE 2 * d + 9 <= 2 * n + 5
  OBVIOUS
<1>11. CASE k = 2 * n + 5
  <2>1. Head(tops) = Control({"MACK"}) /\ "I2C_RESET" \notin {"MACK"}
    BY <1>2, <1>3, <1>11
  <2>2. /\ tops' = Tail(tops) /\ control' = {"MACK"}
        /\ UNCHANGED <<sladdr, wdata, rdata, nak, bus, twicall, err, data, sent, moved, nacks>>
        /\ (~late' => ~late) /\ (busy' <=> busy)
    BY <2>1, ControlEffect
  <2>3. RecvHold(k + 1, n)'
    BY <1>11, <2>2 DEF RecvHold, Plain
  <2>4. ASSUME ~late' PROVE RecvMore(k + 1, n)'
    <3>1. n - 2 \in 0 .. n - 2 /\ k = 2 * (n - 2) + 9 /\ (n - 2) + 1 = n - 1
      BY <1>11
    <3>2. RecvMore(k, n)
      BY <1>5, <2>2, <2>4
    <3>3. Booked((n - 2) + 1, n - 2) /\ ~busy
      BY <3>1, <3>2 DEF RecvMore
    <3>4. n - 1 \in Nat /\ n - 2 \in Nat /\ Booked(n - 1, n - 2)
      BY <3>1, <3>3
    <3>5. Booked(n - 1, n - 2)' /\ ~busy'
      BY <2>2, <3>3, <3>4, BookedSame
    <3>6. QED
      BY <1>12, <1>11, <3>5 DEF RecvMore
  <2>5. QED
    BY <1>4, <2>2, <2>3, <2>4
<1>13. CASE k = 2 * n + 6
  <2>1. Head(tops) = Rdata
    BY <1>2, <1>3, <1>13
  <2>2. /\ tops' = Tail(tops) /\ data' = Append(data, rdata)
        /\ UNCHANGED <<control, sladdr, wdata, rdata, nak, bus, twicall, err, sent, moved, nacks>>
        /\ (~late' => ~late) /\ (busy' <=> busy \/ "AUTOARM" \in control)
    BY <2>1, RdataEffect
  <2>3. "AUTOARM" \notin control
    BY <1>13 DEF RecvHold, Plain
  <2>4. RecvHold(k + 1, n)'
    BY <1>13, <2>2 DEF RecvHold, Plain
  <2>5. ASSUME ~late' PROVE RecvMore(k + 1, n)'
    <3>1. RecvMore(k, n)
      BY <1>5, <2>2, <2>5
    <3>2. Booked(n - 1, n - 2) /\ ~busy
      BY <1>13, <3>1 DEF RecvMore
    <3>3. n - 2 \in Nat /\ (n - 2) + 1 = n - 1
      OBVIOUS
    <3>4. Booked((n - 2) + 1, n - 2) /\ ~busy'
      BY <2>2, <2>3, <3>2, <3>3
    <3>5. Booked((n - 2) + 1, (n - 2) + 1)'
      BY <1>6, <2>2, <3>2, <3>3, <3>4, BookedStore
    <3>6. Booked(n - 1, n - 1)'
      BY <3>3, <3>5
    <3>7. QED
      BY <1>12, <1>13, <3>4, <3>6 DEF RecvMore
  <2>6. QED
    BY <1>4, <2>2, <2>4, <2>5
<1>14. CASE k = 2 * n + 7
  <2>1. Head(tops) = Wait("go")
    BY <1>2, <1>3, <1>14
  <2>2. /\ UNCHANGED <<control, sladdr, wdata, rdata, nak, busy, bus, twicall, data, sent, moved, nacks>>
        /\ \/ UNCHANGED <<tops, err, late>>
           \/ (~late' => ~late /\ ~busy) /\ ~err' /\ tops' = Tail(tops)
    BY <2>1, WaitEffect
  <2>3. CASE UNCHANGED <<tops, err, late>>
    BY <1>6, <2>2, <2>3, Unmoved
  <2>4. CASE (~late' => ~late /\ ~busy) /\ ~err' /\ tops' = Tail(tops)
    <3>1. RecvHold(k + 1, n)'
      BY <1>14, <2>2 DEF RecvHold, Plain
    <3>2. ASSUME ~late' PROVE RecvMore(k + 1, n)'
      <4>1. RecvMore(k, n) /\ ~busy
        BY <1>5, <2>4, <3>2
      <4>2. Booked(n - 1, n - 1) /\ n - 1 \in Nat
        BY <1>14, <4>1 DEF RecvMore
      <4>3. Booked(n - 1, n - 1)' /\ ~busy'
        BY <2>2, <4>1, <4>2, BookedSame
      <4>4. QED
        BY <1>12, <1>14, <4>3 DEF RecvMore
    <3>3. QED
      BY <1>4, <2>2, <2>4, <3>1, <3>2
  <2>5. QED
    BY <2>2, <2>3, <2>4
<1>15. CASE k = 2 * n + 8
  <2>1. Head(tops) = Wdata(0)
    BY <1>2, <1>3, <1>15
  <2>2. /\ tops' = Tail(tops) /\ wdata' = 0 /\ busy'
        /\ UNCHANGED <<control, sladdr, rdata, nak, bus, twicall, err, data, sent, moved, nacks>>
        /\ ~late' => ~late
    BY <2>1, WdataEffect
  <2>3. RecvHold(k + 1, n)'
    BY <1>15, <2>2 DEF RecvHold, Plain, Freed
  <2>4. ASSUME ~late' PROVE RecvMore(k + 1, n)'
    <3>1. RecvMore(k, n)
      BY <1>5, <2>2, <2>4
    <3>2. Booked(n - 1, n - 1) /\ ~busy /\ n - 1 \in Nat /\ (n - 1) + 1 = n
      BY <1>15, <3>1 DEF RecvMore
    <3>3. Booked((n - 1) + 1, n - 1)'
      BY <1>6, <2>2, <3>2, BookedStart
    <3>4. Booked(n, n - 1)'
      BY <3>2, <3>3
    <3>5. QED
      BY <1>12, <1>15, <3>4 DEF RecvMore
  <2>5. QED
    BY <1>4, <2>2, <2>3, <2>4
<1>16. CASE k = 2 * n + 9
  <2>1. Head(tops) = Wait("go")
    BY <1>2, <1>3, <1>16
  <2>2. /\ UNCHANGED <<control, sladdr, wdata, rdata, nak, busy, bus, twicall, data, sent, moved, nacks>>
        /\ \/ UNCHANGED <<tops, err, late>>
           \/ (~late' => ~late /\ ~busy) /\ ~err' /\ tops' = Tail(tops)
    BY <2>1, WaitEffect
  <2>3. CASE UNCHANGED <<tops, err, late>>
    BY <1>6, <2>2, <2>3, Unmoved
  <2>4. CASE (~late' => ~late /\ ~busy) /\ ~err' /\ tops' = Tail(tops)
    <3>1. RecvHold(k + 1, n)'
      BY <1>16, <2>2 DEF RecvHold, Plain, Freed
    <3>2. ASSUME ~late' PROVE RecvMore(k + 1, n)'
      <4>1. RecvMore(k, n) /\ ~busy
        BY <1>5, <2>4, <3>2
      <4>2. Booked(n, n - 1) /\ n - 1 \in Nat
        BY <1>16, <4>1 DEF RecvMore
      <4>3. Booked(n, n - 1)' /\ ~busy'
        BY <2>2, <4>1, <4>2, BookedSame
      <4>4. QED
        BY <1>12, <1>16, <4>3 DEF RecvMore
    <3>3. QED
      BY <1>4, <2>2, <2>4, <3>1, <3>2
  <2>5. QED
    BY <2>2, <2>3, <2>4
<1>17. CASE k = 2 * n + 10
  <2>1. Head(tops) = Rdata
    BY <1>2, <1>3, <1>17
  <2>2. /\ tops' = Tail(tops) /\ data' = Append(data, rdata)
        /\ UNCHANGED <<control, sladdr, wdata, rdata, nak, bus, twicall, err, sent, moved, nacks>>
        /\ (~late' => ~late) /\ (busy' <=> busy \/ "AUTOARM" \in control)
    BY <2>1, RdataEffect
  <2>3. "AUTOARM" \notin control
    BY <1>17 DEF RecvHold, Plain
  <2>4. RecvHold(k + 1, n)'
    BY <1>17, <2>2, <2>3 DEF RecvHold, Plain, Freed
  <2>5. ASSUME ~late' PROVE RecvMore(k + 1, n)'
    <3>1. RecvMore(k, n)
      BY <1>5, <2>2, <2>5
    <3>2. Booked(n, n - 1) /\ ~busy /\ n - 1 \in Nat /\ (n - 1) + 1 = n
      BY <1>17, <3>1 DEF RecvMore
    <3>3. Booked((n - 1) + 1, n - 1) /\ ~busy'
      BY <2>2, <2>3, <3>2
    <3>4. Booked((n - 1) + 1, (n - 1) + 1)'
      BY <1>6, <2>2, <3>2, <3>3, BookedStore
    <3>5. Booked(n, n)'
      BY <3>2, <3>4
    <3>6. QED
      BY <1>12, <1>17, <3>3, <3>5 DEF RecvMore
  <2>6. QED
    BY <1>4, <2>2, <2>4, <2>5
<1>18. ASSUME NEW d \in 1 .. n - 2, k \in {2 * d + 7, 2 * d + 8} PROVE CallInv'
  <2>1. d \in 0 .. n - 2
    OBVIOUS
  <2>2. QED
    BY <1>9, <1>10, <1>18, <2>1
<1>19. CASE k = 8
  <2>1. 0 \in 0 .. n - 2 /\ k = 2 * 0 + 8
    BY <1>19
  <2>2. QED
    BY <1>9, <2>1
<1>20. \/ k \in 1 .. 8 \/ k \in 2 * n + 5 .. 2 * n + 10
       \/ \E d \in 1 .. n - 2 : k \in {2 * d + 7, 2 * d + 8}
  BY <1>3, RecvPlaces
<1>21. CASE k \in 2 * n + 5 .. 2 * n + 10
  BY <1>11, <1>13, <1>14, <1>15, <1>16, <1>17, <1>21
<1>22. QED
  BY <1>7, <1>8, <1>18, <1>19, <1>20, <1>21

(* An access of a receive keeps the account of it.                         *)
LEMMA RecvStep ==
  ASSUME TwiInv, TwiProgram, ~err, twicall.op = "recv", NEW k \in Nat, At(k), Receiving(k)
  PROVE  CallInv'
<1>1. /\ twicall.n \in Nat \ {0} /\ k \in 1 .. Len(Script) + 1
      /\ RecvHold(k, twicall.n) /\ (~late => RecvBytes(k, twicall.n))
  BY DEF Receiving, At
<1>2. tops # <<>> /\ CallInv
  BY DEF TwiProgram, Store, Poll, GoOn, Continue, WaitOver, Halted, TwiInv
<1>3. PICK n \in Nat \ {0} : n = twicall.n
  BY <1>1
<1>4. k >= 1 /\ RecvHold(k, n) /\ (~late => RecvBytes(k, n))
  BY <1>1, <1>3
<1>5. CASE k \in 1 .. 5
  BY <1>2, <1>3, <1>4, <1>5, RecvAddressStep
<1>6. CASE k >= 6 /\ n = 1
  <2>1. Script = twi_recv(1)
    BY <1>3, <1>6 DEF Script
  <2>2. Len(twi_recv(1)) = 8
    BY RecvScript
  <2>3. Len(Script) = 8
    BY <2>1, <2>2
  <2>4. k \in 6 .. 9
    BY <1>1, <1>6, <2>3
  <2>5. RecvHold(k, 1) /\ (~late => RecvBytes(k, 1)) /\ twicall.n = 1
    BY <1>3, <1>4, <1>6
  <2>6. QED
    BY <1>2, <2>4, <2>5, RecvOneStep
<1>7. CASE k >= 6 /\ n # 1
  <2>1. n \in Nat \ {0, 1} /\ twicall.n = n
    BY <1>3, <1>7
  <2>2. QED
    BY <1>2, <1>4, <1>7, <2>1, RecvMoreStep
<1>8. QED
  BY <1>4, <1>5, <1>6, <1>7

(* A transfer of a receive keeps the account of it.                        *)
LEMMA RecvMoves ==
  ASSUME TwiInv, Transferred, ~err, twicall.op = "recv", NEW k \in Nat, At(k), Receiving(k)
  PROVE  CallInv'
<1>1. PICK n \in Nat \ {0} : n = twicall.n
  BY DEF Receiving
<1>2. RecvHold(k, n) /\ (~late => RecvBytes(k, n)) /\ Counted
  BY <1>1 DEF Receiving, TwiInv
<1>3. /\ busy /\ ~busy' /\ bus' = IF "HOLD" \in control THEN sladdr ELSE "free"
      /\ UNCHANGED <<control, sladdr, wdata, tops, twicall, err, data>>
      /\ late' = late
  BY DEF Transferred
<1>4. /\ sladdr = "write" => moved' = moved /\ rdata' = rdata
      /\ nacks \subseteq nacks'
      /\ sladdr = "read" => \/ moved' = moved + 1 /\ rdata' = moved'
                            \/ <<"read", wdata>> \in nacks'
  BY DEF Transferred
<1>5. RecvHold(k, n)'
  BY <1>2, <1>3 DEF RecvHold, Plain, Freed
<1>6. ASSUME ~late' PROVE RecvBytes(k, n)'
  <2>1. RecvAddress(k) /\ IF n = 1 THEN RecvOne(k) ELSE RecvMore(k, n)
    BY <1>2, <1>3, <1>6 DEF RecvBytes
  <2>2. RecvAddress(k)'
    BY <1>3, <1>4, <2>1 DEF RecvAddress
  <2>3. k >= 6 => \A u, d \in Nat : Booked(u, d) => Booked(u, d)'
    BY <1>2, <1>3, <1>4, <2>1, BookedMoved DEF RecvAddress
  <2>4. CASE n = 1
    <3>1. RecvOne(k)'
      <4>1. CASE k >= 6
        BY <1>3, <2>1, <2>3, <2>4, <4>1 DEF RecvOne
      <4>2. CASE ~(k >= 6)
        BY <4>2 DEF RecvOne
      <4>3. QED
        BY <4>1, <4>2
    <3>2. QED
      BY <2>2, <2>4, <3>1 DEF RecvBytes
  <2>5. CASE n # 1
    <3>1. /\ RecvMore(k, n) /\ n - 1 \in Nat /\ n - 2 \in Nat
          /\ \A d \in 0 .. n - 2 : d \in Nat /\ d + 1 \in Nat
      BY <2>1, <2>5
    <3>2. RecvMore(k, n)'
      <4>1. CASE k >= 6
        <5>1. \A u, d \in Nat : Booked(u, d) => Booked(u, d)'
          BY <2>3, <4>1
        <5>2. QED
          BY <1>3, <3>1, <5>1 DEF RecvMore
      <4>2. CASE ~(k >= 6)
        BY <2>5, <4>2 DEF RecvMore
      <4>3. QED
        BY <4>1, <4>2
    <3>3. QED
      BY <2>2, <2>5, <3>2 DEF RecvBytes
  <2>6. QED
    BY <2>4, <2>5
<1>7. At(k)'
  BY <1>3, Stay
<1>8. Receiving(k)' /\ twicall'.op = "recv" /\ ~err'
  BY <1>1, <1>3, <1>5, <1>6 DEF Receiving
<1>9. QED
  BY <1>7, <1>8 DEF CallInv

-----------------------------------------------------------------------------
(* The same of a probe.                                                    *)
LEMMA ProbeTwiStep ==
  ASSUME CallInv, TwiProgram \/ Transferred, ~err, twicall.op = "probe", NEW k \in Nat, At(k),
         ProbingTwi(k)
  PROVE  CallInv'
<1> DEFINE s == twi_reset \o twi_probe
<1>1. Script = s
  BY DEF Script
<1>2. /\ s \in Seq(Access) /\ Len(s) = 5
      /\ s[1] = Control({"I2C_RESET"}) /\ s[2] = Control({})
      /\ s[3] = Sladdr("write") /\ s[4] = Wdata(0) /\ s[5] = Wait("error")
  BY ProbeScript
<1> HIDE DEF s
<1>3. ASSUME tops # <<>>, tops' = Tail(tops), twicall' = twicall, ~err', ProbingTwi(k + 1)'
      PROVE  CallInv'
  <2>1. At(k + 1)'
    BY <1>1, <1>2, <1>3, Advance
  <2>2. QED
    BY <1>3, <2>1 DEF CallInv
<1>4. CASE Transferred
  <2>1. /\ ~busy' /\ bus' = IF "HOLD" \in control THEN sladdr ELSE "free"
        /\ UNCHANGED <<control, tops, twicall, err>>
    BY <1>4 DEF Transferred
  <2>2. ProbingTwi(k)'
    BY <2>1 DEF ProbingTwi, Plain, Freed
  <2>3. At(k)'
    BY <2>1, Stay
  <2>4. QED
    BY <2>1, <2>2, <2>3 DEF CallInv
<1>5. CASE TwiProgram
  <2>1. tops # <<>>
    BY <1>5 DEF TwiProgram, Store, Poll, GoOn, Continue, WaitOver, Halted
  <2>2. k \in 1 .. 5 /\ Head(tops) = s[k]
    BY <1>1, <1>2, <2>1, Position
  <2>3. CASE k = 1
    <3>1. Head(tops) = Control({"I2C_RESET"})
      BY <1>2, <2>2, <2>3
    <3>2. Head(tops).reg = "CONTROL" /\ Head(tops).v = {"I2C_RESET"}
      BY <3>1, Fields
    <3>3. Store /\ Reset
      BY <1>5, <3>2 DEF TwiProgram, Poll, GoOn, Continue, WaitOver, Halted, Reset
    <3>4. control' = {} /\ tops' = Tail(tops) /\ UNCHANGED <<twicall, err>>
      BY <3>3 DEF Store
    <3>5. ProbingTwi(k + 1)'
      BY <2>3, <3>4 DEF ProbingTwi, Plain
    <3>6. QED
      BY <1>3, <2>1, <3>4, <3>5
  <2>4. CASE k = 2
    <3>1. Head(tops) = Control({}) /\ "I2C_RESET" \notin {}
      BY <1>2, <2>2, <2>4
    <3>2. control' = {} /\ tops' = Tail(tops) /\ UNCHANGED <<twicall, err>>
      BY <1>5, <2>1, <3>1, ControlEffect
    <3>3. ProbingTwi(k + 1)'
      BY <2>4, <3>2 DEF ProbingTwi, Plain
    <3>4. QED
      BY <1>3, <2>1, <3>2, <3>3
  <2>5. CASE k = 3
    <3>1. Head(tops) = Sladdr("write")
      BY <1>2, <2>2, <2>5
    <3>2. tops' = Tail(tops) /\ UNCHANGED <<control, twicall, err>>
      BY <1>5, <2>1, <3>1, SladdrEffect
    <3>3. ProbingTwi(k + 1)'
      BY <2>5, <3>2 DEF ProbingTwi, Plain
    <3>4. QED
      BY <1>3, <2>1, <3>2, <3>3
  <2>6. CASE k = 4
    <3>1. Head(tops) = Wdata(0)
      BY <1>2, <2>2, <2>6
    <3>2. tops' = Tail(tops) /\ busy' /\ UNCHANGED <<control, twicall, err>>
      BY <1>5, <2>1, <3>1, WdataEffect
    <3>3. ProbingTwi(k + 1)'
      BY <2>6, <3>2 DEF ProbingTwi, Plain, Freed
    <3>4. QED
      BY <1>3, <2>1, <3>2, <3>3
  <2>7. CASE k = 5
    <3>1. Head(tops) = Wait("error")
      BY <1>2, <2>2, <2>7
    <3>2. /\ UNCHANGED <<control, sladdr, wdata, rdata, nak, busy, bus, twicall, data, sent, moved, nacks>>
          /\ \/ UNCHANGED <<tops, err, late>>
             \/ ~err' /\ tops' = Tail(tops)
             \/ err' /\ tops' = <<>>
      BY <1>5, <2>1, <3>1, WaitEffect
    <3>3. (Plain /\ Freed)' /\ ProbingTwi(k + 1)'
      BY <2>7, <3>2 DEF ProbingTwi, Plain, Freed
    <3>4. CASE UNCHANGED <<tops, err, late>>
      BY <3>2, <3>4, Unmoved
    <3>5. CASE ~err' /\ tops' = Tail(tops)
      BY <1>3, <2>1, <3>2, <3>3, <3>5
    <3>6. CASE err' /\ tops' = <<>>
      BY <3>3, <3>6 DEF CallInv, Refusing
    <3>7. QED
      BY <3>2, <3>4, <3>5, <3>6
  <2>8. QED
    BY <2>2, <2>3, <2>4, <2>5, <2>6, <2>7
<1>6. QED
  BY <1>4, <1>5

(* A call that was refused frees the bus.                                  *)
LEMMA RefusedStep ==
  ASSUME err, Refusing, TwiProgram \/ Transferred
  PROVE  CallInv'
<1>1. CASE Transferred
  <2>1. /\ ~busy' /\ bus' = IF "HOLD" \in control THEN sladdr ELSE "free"
        /\ UNCHANGED <<control, tops>> /\ err' = err
    BY <1>1 DEF Transferred
  <2>2. Refusing' /\ err'
    BY <2>1 DEF Refusing, Plain, Freed
  <2>3. QED
    BY <2>2 DEF CallInv
<1>2. CASE TwiProgram
  <2>1. tops # <<>>
    BY <1>2 DEF TwiProgram, Store, Poll, GoOn, Continue, WaitOver, Halted
  <2>2. CASE tops = <<Control({}), Wdata(0)>>
    <3>1. Head(tops) = Control({}) /\ Tail(tops) = <<Wdata(0)>> /\ "I2C_RESET" \notin {}
      BY <2>2, Scripts
    <3>2. control' = {} /\ tops' = <<Wdata(0)>> /\ err' = err
      BY <1>2, <2>1, <3>1, ControlEffect
    <3>3. QED
      BY <3>2 DEF CallInv, Refusing, Plain
  <2>3. CASE tops = <<Wdata(0)>> /\ Plain
    <3>1. Head(tops) = Wdata(0) /\ Tail(tops) = <<>>
      BY <2>3, Scripts
    <3>2. busy' /\ tops' = <<>> /\ err' = err /\ control' = control
      BY <1>2, <2>1, <3>1, WdataEffect
    <3>3. QED
      BY <2>3, <3>2 DEF CallInv, Refusing, Plain, Freed
  <2>4. QED
    BY <2>1, <2>2, <2>3 DEF Refusing
<1>3. QED
  BY <1>1, <1>2

-----------------------------------------------------------------------------
(* A call that is over has let the bus go, or what is under way will.      *)
LEMMA AtRest ==
  ASSUME CallInv, tops = <<>>
  PROVE  Plain /\ Freed
<1>1. CASE err /\ Refusing
  <2>1. ~(tops = <<Control({}), Wdata(0)>>) /\ ~(tops = <<Wdata(0)>>)
    BY Scripts
  <2>2. QED
    BY <1>1, <2>1 DEF Refusing
<1>2. ASSUME NEW k \in Nat, At(k), twicall.op = "send", Sending(k) PROVE Plain /\ Freed
  <2>1. PICK n \in Nat \ {0} : n = twicall.n
    BY <1>2 DEF Sending
  <2>2. Script \in Seq(Access) /\ Len(Script) = 2 * n + 5
    BY <1>2, <2>1, SendScript DEF Script
  <2>3. k = 2 * n + 6
    BY <1>2, <2>2, Position
  <2>4. SendHold(k, n)
    BY <1>2, <2>1 DEF Sending
  <2>5. QED
    BY <2>3, <2>4 DEF SendHold
<1>3. ASSUME NEW k \in Nat, At(k), twicall.op = "recv", Receiving(k) PROVE Plain /\ Freed
  <2>1. PICK n \in Nat \ {0} : n = twicall.n
    BY <1>3 DEF Receiving
  <2>2. /\ Script \in Seq(Access)
        /\ n = 1 => Len(Script) = 8
        /\ n > 1 => Len(Script) = 2 * n + 10
    BY <1>3, <2>1, RecvScript DEF Script
  <2>3. (n = 1 => k = 9) /\ (n > 1 => k = 2 * n + 11)
    <3>1. k = Len(Script) + 1
      BY <1>3, <2>2, Position
    <3>2. CASE n = 1
      <4>1. Len(Script) = 8
        BY <2>2, <3>2
      <4>2. QED
        BY <3>1, <3>2, <4>1
    <3>3. CASE n > 1
      <4>1. Len(Script) = 2 * n + 10
        BY <2>2, <3>3
      <4>2. QED
        BY <3>1, <3>3, <4>1
    <3>4. QED
      BY <3>2, <3>3
  <2>4. RecvHold(k, n)
    BY <1>3, <2>1 DEF Receiving
  <2>5. CASE n = 1
    BY <2>3, <2>4, <2>5 DEF RecvHold
  <2>6. CASE n > 1
    BY <2>3, <2>4, <2>6 DEF RecvHold
  <2>7. QED
    BY <2>5, <2>6
<1>4. ASSUME NEW k \in Nat, At(k), twicall.op = "probe", ProbingTwi(k) PROVE Plain /\ Freed
  <2>1. Script \in Seq(Access) /\ Len(Script) = 5
    BY <1>4, ProbeScript DEF Script
  <2>2. k = 6
    BY <1>4, <2>1, Position
  <2>3. QED
    BY <1>4, <2>2 DEF ProbingTwi
<1>5. QED
  BY <1>1, <1>2, <1>3, <1>4 DEF CallInv

(* What a call that returns has moved.                                     *)
LEMMA Moved ==
  ASSUME TwiInv
  PROVE  TwiRight
<1>1. ASSUME Returned("send") PROVE TwiSent
  <2>1. tops = <<>> /\ twicall.op = "send" /\ ~err /\ ~late
    BY <1>1 DEF Returned
  <2>2. PICK k \in Nat : At(k) /\ Sending(k)
    BY <2>1 DEF TwiInv, CallInv
  <2>3. PICK n \in Nat \ {0} : n = twicall.n
    BY <2>2 DEF Sending
  <2>4. Script \in Seq(Access) /\ Len(Script) = 2 * n + 5
    BY <2>1, <2>3, SendScript DEF Script
  <2>5. k = 2 * n + 6
    BY <2>1, <2>2, <2>4, Position
  <2>6. SendBytes(k, n)
    BY <2>1, <2>2, <2>3 DEF Sending
  <2>7. Sent(n + 1) /\ Took(n)
    BY <2>5, <2>6 DEF SendBytes
  <2>8. QED
    BY <2>3, <2>7 DEF TwiSent, Sent, Took
<1>2. ASSUME Returned("recv"), ~Spurned PROVE TwiReceived
  <2>1. tops = <<>> /\ twicall.op = "recv" /\ ~err /\ ~late
    BY <1>2 DEF Returned
  <2>2. PICK k \in Nat : At(k) /\ Receiving(k)
    BY <2>1 DEF TwiInv, CallInv
  <2>3. PICK n \in Nat \ {0} : n = twicall.n
    BY <2>2 DEF Receiving
  <2>4. /\ Script \in Seq(Access)
        /\ n = 1 => Len(Script) = 8
        /\ n > 1 => Len(Script) = 2 * n + 10
    BY <2>1, <2>3, RecvScript DEF Script
  <2>5. (n = 1 => k = 9) /\ (n > 1 => k = 2 * n + 11)
    <3>1. k = Len(Script) + 1
      BY <2>1, <2>2, <2>4, Position
    <3>2. CASE n = 1
      <4>1. Len(Script) = 8
        BY <2>4, <3>2
      <4>2. QED
        BY <3>1, <3>2, <4>1
    <3>3. CASE n > 1
      <4>1. Len(Script) = 2 * n + 10
        BY <2>4, <3>3
      <4>2. QED
        BY <3>1, <3>3, <4>1
    <3>4. QED
      BY <3>2, <3>3
  <2>6. RecvBytes(k, n) /\ moved \in Nat
    BY <2>1, <2>2, <2>3 DEF Receiving, TwiInv, Counted
  <2>7. Booked(n, n) /\ ~busy
    <3>1. CASE n = 1
      <4>1. Booked(1, 1) /\ ~busy
        BY <2>5, <2>6, <3>1 DEF RecvBytes, RecvOne
      <4>2. QED
        BY <3>1, <4>1
    <3>2. CASE n > 1
      <4>1. k = 2 * n + 11 /\ RecvMore(k, n)
        BY <2>5, <2>6, <3>2 DEF RecvBytes
      <4>2. QED
        BY <4>1 DEF RecvMore
    <3>3. QED
      BY <3>1, <3>2
  <2>8. /\ data \in Seq(Nat) /\ Len(data) = n /\ moved = n
        /\ \A i \in 1 .. n : data[i] = i
    BY <1>2, <2>3, <2>6, <2>7 DEF Booked
  <2>9. data = [i \in 1 .. n |-> i]
    BY <2>8, LenProperties
  <2>10. QED
    BY <2>3, <2>8, <2>9 DEF TwiReceived
<1>3. QED
  BY <1>1, <1>2 DEF TwiRight, TwiSent, TwiReceived, Spurned

(* A call begins its script.                                               *)
LEMMA CallTwiStep ==
  ASSUME CallInv, TwiCall
  PROVE  CallInv'
<1>1. /\ tops = <<>> /\ ~err' /\ data' = <<>> /\ sent' = <<>> /\ moved' = 0 /\ nacks' = {}
      /\ UNCHANGED <<control, busy, bus>>
      /\ ~late' => ~busy'
  <2>1. late' = busy /\ busy' = busy
    BY DEF TwiCall
  <2>2. QED
    BY <2>1 DEF TwiCall
<1>2. Plain'
  BY <1>1, AtRest DEF Plain
<1>3. ASSUME NEW n \in 1 .. MaxBytes, twicall' = [op |-> "send", n |-> n], tops' = twi_send(n)
      PROVE  CallInv'
  <2>1. n \in Nat \ {0} /\ twicall'.op = "send" /\ twicall'.n = n
    BY <1>3, TwiAssumption
  <2>2. Script' = twi_send(n) /\ twi_send(n) \in Seq(Access) /\ Len(twi_send(n)) = 2 * n + 5
    BY <2>1, SendScript DEF Script
  <2>3. At(1)'
    <3>1. tops' = SubSeq(twi_send(n), 1, Len(twi_send(n)))
      BY <1>3, <2>2, SubSeqFull
    <3>2. 1 \in 1 .. Len(twi_send(n)) + 1
      BY <2>1, <2>2
    <3>3. QED
      BY <2>2, <3>1, <3>2 DEF At
  <2>4. SendHold(1, n)' /\ (~late' => SendBytes(1, n)')
    BY <1>1, <1>2, <2>1 DEF SendHold, SendBytes
  <2>5. Sending(1)'
    BY <2>1, <2>4 DEF Sending
  <2>6. QED
    BY <1>1, <2>1, <2>3, <2>5 DEF CallInv
<1>4. ASSUME NEW n \in 1 .. MaxBytes, twicall' = [op |-> "recv", n |-> n], tops' = twi_recv(n)
      PROVE  CallInv'
  <2>1. n \in Nat \ {0} /\ twicall'.op = "recv" /\ twicall'.n = n
    BY <1>4, TwiAssumption
  <2>2. Script' = twi_recv(n) /\ twi_recv(n) \in Seq(Access)
    BY <2>1, RecvScript DEF Script
  <2>3. At(1)'
    <3>1. tops' = SubSeq(twi_recv(n), 1, Len(twi_recv(n)))
      BY <1>4, <2>2, SubSeqFull
    <3>2. 1 \in 1 .. Len(twi_recv(n)) + 1
      BY <2>2, LenProperties
    <3>3. QED
      BY <2>2, <3>1, <3>2 DEF At
  <2>4. RecvHold(1, n)' /\ (~late' => RecvBytes(1, n)')
    BY <1>1, <1>2, <2>1 DEF RecvHold, RecvBytes, RecvAddress, RecvOne, RecvMore
  <2>5. Receiving(1)'
    BY <2>1, <2>4 DEF Receiving
  <2>6. QED
    BY <1>1, <2>1, <2>3, <2>5 DEF CallInv
<1>5. ASSUME twicall' = [op |-> "probe"], tops' \in {twi_probe, twi_reset \o twi_probe}
      PROVE  CallInv'
  <2> DEFINE s == twi_reset \o twi_probe
  <2>1. twicall'.op = "probe"
    BY <1>5
  <2>2. Script' = s /\ s \in Seq(Access) /\ Len(s) = 5 /\ twi_probe = SubSeq(s, 3, 5)
    BY <2>1, ProbeScript DEF Script
  <2>3. s = SubSeq(s, 1, Len(s))
    BY <2>2, SubSeqFull
  <2> HIDE DEF s
  <2>4. At(1)' \/ At(3)'
    <3>1. tops' = SubSeq(s, 1, Len(s)) \/ tops' = SubSeq(s, 3, Len(s))
      BY <1>5, <2>2, <2>3 DEF s
    <3>2. QED
      BY <2>2, <3>1 DEF At
  <2>5. ProbingTwi(1)' /\ ProbingTwi(3)'
    BY <1>2 DEF ProbingTwi
  <2>6. QED
    BY <1>1, <2>1, <2>4, <2>5 DEF CallInv
<1>6. QED
  BY <1>3, <1>4, <1>5 DEF TwiCall

(* The invariant is kept.                                                  *)
LEMMA TwiStep == TwiInv /\ TwiNext => TwiInv'
<1> SUFFICES ASSUME TwiInv, TwiNext PROVE TwiInv'
  OBVIOUS
<1>1. CallInv /\ Counted
  BY DEF TwiInv
<1>2. Counted'
  <2>1. CASE TwiCall
    BY <1>1, <2>1 DEF TwiCall, Counted
  <2>2. CASE TwiProgram
    <3>1. UNCHANGED <<moved, rdata>>
      BY <2>2 DEF TwiProgram, Store, Poll, GoOn, Continue, WaitOver, Halted
    <3>2. QED
      BY <1>1, <3>1 DEF Counted
  <2>3. CASE Transferred
    <3>1. moved' \in {moved, moved + 1} /\ rdata' \in {rdata, moved + 1}
      BY <2>3 DEF Transferred
    <3>2. QED
      BY <1>1, <3>1 DEF Counted
  <2>4. QED
    BY <2>1, <2>2, <2>3 DEF TwiNext
<1>3. CASE TwiCall
  BY <1>1, <1>2, <1>3, CallTwiStep DEF TwiInv
<1>4. CASE TwiProgram \/ Transferred
  <2>1. CASE err /\ Refusing
    BY <1>2, <1>4, <2>1, RefusedStep DEF TwiInv
  <2>2. CASE twicall.op = "none" /\ tops = <<>> /\ Plain /\ Freed
    <3>1. Transferred
      BY <1>4, <2>2 DEF TwiProgram, Store, Poll, GoOn, Continue, WaitOver, Halted
    <3>2. /\ UNCHANGED <<control, tops, twicall>>
          /\ bus' = IF "HOLD" \in control THEN sladdr ELSE "free"
      BY <3>1 DEF Transferred
    <3>3. QED
      BY <1>2, <2>2, <3>2 DEF TwiInv, CallInv, Plain, Freed
  <2>3. ASSUME ~err, NEW k \in Nat, At(k), twicall.op = "send", Sending(k) PROVE CallInv'
    BY <1>1, <1>4, <2>3, SendStep, SendMoves
  <2>4. ASSUME ~err, NEW k \in Nat, At(k), twicall.op = "recv", Receiving(k) PROVE CallInv'
    BY <1>4, <2>4, RecvStep, RecvMoves
  <2>5. ASSUME ~err, NEW k \in Nat, At(k), twicall.op = "probe", ProbingTwi(k) PROVE CallInv'
    BY <1>1, <1>4, <2>5, ProbeTwiStep
  <2>6. QED
    BY <1>1, <1>2, <2>1, <2>2, <2>3, <2>4, <2>5 DEF CallInv, TwiInv
<1>5. QED
  BY <1>3, <1>4 DEF TwiNext

(* The invariant holds at the start.                                       *)
LEMMA TwiStart == TwiInit => TwiInv
  BY DEF TwiInit, TwiInv, Counted, CallInv, Plain, Freed

(* It implies that calls move what they report, and let the bus go.        *)
LEMMA TwiPromises == TwiInv => TwiRight /\ TwiReleased
<1> SUFFICES ASSUME TwiInv PROVE TwiRight /\ TwiReleased
  OBVIOUS
<1>1. TwiRight
  BY Moved
<1>2. TwiReleased
  BY AtRest DEF TwiInv, TwiReleased, Freed
<1>3. QED
  BY <1>1, <1>2

(* The other drivers leave it alone.                                       *)
LEMMA TwiNextStep == TwiInv /\ [Next]_vars => TwiInv'
<1> SUFFICES ASSUME TwiInv, [Next]_vars PROVE TwiInv'
  OBVIOUS
<1>1. CASE TwiNext
  BY <1>1, TwiStep
<1>2. CASE UNCHANGED twivars
  <2>1. CallInv' /\ Counted'
    BY <1>2, Unmoved DEF twivars, TwiInv, Counted
  <2>2. QED
    BY <2>1 DEF TwiInv
<1>3. QED
  BY <1>1, <1>2 DEF Next, Flash, I2c, TwoWire, Library, vars

(* A send that returns 0 put all its bytes on the bus, each once and in    *)
(* their order, and the slave took the first and the last; a receive moved *)
(* and stored as many bytes as it was asked for, in their order, if no read*)
(* was refused.  A call that met a transfer of an earlier one or gave up   *)
(* waiting for one of its own is left out.                                 *)
THEOREM TwiRightCorrect == Spec => []TwiRight
<1>1. Init => TwiInv
  BY TwiStart DEF Init
<1>2. QED
  BY <1>1, TwiNextStep, TwiPromises, PTL DEF Spec

(* Both drivers let the bus go when a call is over, whatever was refused   *)
(* but the second address of a register read (sw/i2c_oc.c:55).             *)
THEOREM BusReleasedCorrect == Spec => []BusReleased
<1>1. Init => TwiInv
  BY TwiStart DEF Init
<1>2. OcInv => OcReleased
  BY OcPromises
<1>3. TwiInv => TwiReleased
  BY TwiPromises
<1>4. Spec => []OcReleased
  BY <1>2, OcStart, OcStep, PTL DEF Spec
<1>5. Spec => []TwiReleased
  BY <1>1, <1>3, TwiNextStep, PTL DEF Spec
<1>6. OcReleased /\ TwiReleased => BusReleased
  BY DEF BusReleased
<1>7. QED
  BY <1>4, <1>5, <1>6, PTL

-----------------------------------------------------------------------------
(***************************************************************************)
(* The flash.  What is left of a call is read from the front, so that its  *)
(* places are sequences of accesses, each before a rest: Then(x, rest).    *)
(* A step takes one access away, or changes nothing that a place says.     *)
(***************************************************************************)

(* An access of a script before the rest of it.                            *)
Tx(u) == [op |-> "tx", unit |-> u]
Test(bit) == [op |-> "test", bit |-> bit]
Then(x, s) == <<x>> \o s

(* What is shifted out, and the accesses the program makes.                *)
FlashUnit == [cmd : {"WREN", "RDSR", "RDID", "READ", "SE", "PP", "byte", "data"}, a : Nat]

FlashAccess ==
  {Op("select"), Op("deselect"), Op("wait"), Op("rx"), Op("read")}
    \cup {Tx(u) : u \in FlashUnit} \cup {Test(b) : b \in {"wip", "wel"}}
    \cup [op : {"next"}, a : Addr, from : Nat, n : Nat]

Rest == Seq(FlashAccess)

(* What is left of the calls: the words of a read, its dummy bytes, a poll *)
(* of the status, the words of a block.                                    *)
Reading32(n) == [k \in 1 .. n |-> Op("read")] \o <<Op("deselect")>>

Bytes8(h, a, r) ==
  IF h = 0 THEN r
  ELSE spi_tx(Unit("byte", a)) \o
    (IF h = 1 THEN r
     ELSE spi_tx(Unit("byte", a)) \o
       (IF h = 2 THEN r ELSE spi_tx(Unit("byte", a)) \o r))

-----------------------------------------------------------------------------
(* What stands before a rest is its head.                                  *)
LEMMA Leading ==
  ASSUME NEW x \in FlashAccess, NEW s \in Rest
  PROVE  /\ Then(x, s) \in Rest /\ Then(x, s) # <<>>
         /\ Head(Then(x, s)) = x /\ Tail(Then(x, s)) = s
<1> DEFINE t == Then(x, s)
<1>1. <<x>> \in Rest /\ Len(<<x>>) = 1 /\ <<x>>[1] = x
  BY DEF Rest
<1>2. /\ t \in Seq(FlashAccess) /\ Len(t) = 1 + Len(s) /\ Len(s) \in Nat
      /\ \A i \in 1 .. 1 + Len(s) : t[i] = IF i <= 1 THEN x ELSE s[i - 1]
  <2>1. /\ t \in Seq(FlashAccess) /\ Len(t) = Len(<<x>>) + Len(s)
        /\ \A i \in 1 .. Len(<<x>>) + Len(s) :
             t[i] = IF i <= Len(<<x>>) THEN <<x>>[i] ELSE s[i - Len(<<x>>)]
    BY <1>1, ConcatProperties DEF Then, Rest
  <2>2. Len(s) \in Nat
    BY LenProperties DEF Rest
  <2> HIDE DEF t
  <2>3. QED
    BY <1>1, <2>1, <2>2
<1> HIDE DEF t
<1>3. t # <<>>
  BY <1>2, EmptySeq
<1>4. Head(t) = x
  BY <1>2, <1>3
<1>5. Tail(t) \in Seq(FlashAccess) /\ Len(Tail(t)) = Len(s)
  BY <1>2, <1>3, HeadTailProperties
<1>6. \A i \in 1 .. Len(s) : Tail(t)[i] = s[i]
  <2>1. ASSUME NEW i \in 1 .. Len(s) PROVE Tail(t)[i] = s[i]
    <3>1. Tail(t)[i] = t[i + 1]
      BY <1>2, <1>3, <1>5, HeadTailProperties
    <3>2. t[i + 1] = s[(i + 1) - 1]
      BY <1>2
    <3>3. QED
      BY <1>2, <3>1, <3>2
  <2>2. QED
    BY <2>1
<1>7. Tail(t) = s
  BY <1>5, <1>6, SeqEqual DEF Rest
<1>8. QED
  BY <1>2, <1>3, <1>4, <1>7 DEF t, Rest

(* The second access of a rest.                                            *)
LEMMA Second ==
  ASSUME NEW x \in FlashAccess, NEW y \in FlashAccess, NEW s \in Rest
  PROVE  Then(x, Then(y, s))[2] = y
<1>1. Then(y, s) \in Rest
  BY Leading
<1>2. PICK t \in Rest : t = Then(y, s) /\ t # <<>> /\ Head(t) = y
  BY <1>1, Leading
<1>3. t[1] = y /\ Len(t) \in Nat \ {0}
  BY <1>2, EmptySeq DEF Rest
<1>4. <<x>> \in Seq(FlashAccess) /\ Len(<<x>>) = 1
  OBVIOUS
<1>5. \A i \in 1 .. 1 + Len(t) : (<<x>> \o t)[i] = IF i <= 1 THEN <<x>>[i] ELSE t[i - 1]
  BY <1>4, <1>2, ConcatProperties DEF Rest
<1>6. (<<x>> \o t)[2] = t[2 - 1]
  BY <1>3, <1>5
<1>7. QED
  BY <1>2, <1>3, <1>6 DEF Then

(* The accesses are what they are.                                         *)
LEMMA FlashAccesses ==
  /\ \A o \in {"select", "deselect", "wait", "rx", "read"} :
       Op(o) \in FlashAccess /\ Op(o).op = o
  /\ \A u \in FlashUnit : Tx(u) \in FlashAccess /\ Tx(u).op = "tx" /\ Tx(u).unit = u
  /\ \A b \in {"wip", "wel"} : Test(b) \in FlashAccess /\ Test(b).op = "test" /\ Test(b).bit = b
  /\ \A c \in {"WREN", "RDSR", "RDID", "READ", "SE", "PP", "byte", "data"}, a \in Nat :
       Unit(c, a) \in FlashUnit /\ Unit(c, a).cmd = c /\ Unit(c, a).a = a
  BY DEF FlashAccess, Op, Tx, Test, Unit, FlashUnit

(* Accesses in line, one before the other.                                 *)
LEMMA InLine ==
  ASSUME NEW x \in FlashAccess, NEW s \in Rest, NEW t \in Rest
  PROVE  /\ Then(x, s) \o t = Then(x, s \o t) /\ s \o t \in Rest
         /\ Then(x, <<>>) = <<x>> /\ <<>> \o t = t /\ <<>> \in Rest /\ t \o <<>> = t
<1>1. <<x>> \in Seq(FlashAccess) /\ <<>> \in Seq(FlashAccess)
  OBVIOUS
<1>2. (<<x>> \o s) \o t = <<x>> \o (s \o t)
  BY <1>1, ConcatAssociative DEF Rest
<1>3. s \o t \in Seq(FlashAccess)
  BY ConcatProperties DEF Rest
<1>4. <<x>> \o <<>> = <<x>> /\ <<>> \o t = t /\ t \o <<>> = t
  BY <1>1, ConcatEmptySeq DEF Rest
<1>5. QED
  BY <1>1, <1>2, <1>3, <1>4 DEF Then, Rest

(* The loop of a read, and one word of it.                                 *)
LEMMA ReadLoop ==
  ASSUME NEW n \in Nat
  PROVE  /\ Reading32(n) \in Rest
         /\ n = 0 => Reading32(n) = Then(Op("deselect"), <<>>)
         /\ n > 0 => Reading32(n) = Then(Op("read"), Reading32(n - 1))
<1> DEFINE R(k) == [i \in 1 .. k |-> Op("read")]
<1>1. ASSUME NEW k \in Nat PROVE R(k) \in Rest /\ Len(R(k)) = k
  <2>1. \A i \in 1 .. k : R(k)[i] \in FlashAccess
    BY FlashAccesses
  <2>2. QED
    BY <2>1 DEF Rest
<1>2. <<Op("deselect")>> \in Rest /\ <<>> \in Rest /\ Op("read") \in FlashAccess
      /\ Op("deselect") \in FlashAccess
  BY FlashAccesses DEF Rest
<1>3. Reading32(n) \in Rest
  BY <1>1, <1>2, InLine DEF Reading32
<1>4. CASE n = 0
  <2>1. R(0) = <<>>
    BY <1>1, EmptySeq DEF Rest
  <2>2. Reading32(n) = <<Op("deselect")>>
    BY <1>2, <1>4, <2>1, InLine DEF Reading32
  <2>3. Then(Op("deselect"), <<>>) = <<Op("deselect")>>
    BY <1>2, InLine
  <2>4. QED
    BY <1>3, <1>4, <2>2, <2>3
<1>5. CASE n > 0
  <2>1. n - 1 \in Nat
    BY <1>5
  <2>2. R(n) = Then(Op("read"), R(n - 1))
    <3> DEFINE s == R(n - 1)
               t == Then(Op("read"), s)
    <3>1. s \in Seq(FlashAccess) /\ Len(s) = n - 1 /\ \A i \in 1 .. n - 1 : s[i] = Op("read")
      BY <1>1, <2>1 DEF Rest
    <3> HIDE DEF s
    <3>2. <<Op("read")>> \in Seq(FlashAccess) /\ Len(<<Op("read")>>) = 1
      BY <1>2
    <3>3. /\ t \in Seq(FlashAccess) /\ Len(t) = 1 + (n - 1)
          /\ \A i \in 1 .. 1 + (n - 1) : t[i] = IF i <= 1 THEN <<Op("read")>>[i] ELSE s[i - 1]
      BY <3>1, <3>2, ConcatProperties DEF Then
    <3> HIDE DEF t
    <3>4. \A i \in 1 .. n : t[i] = Op("read")
      BY <2>1, <3>1, <3>3
    <3>5. Len(t) = n
      BY <2>1, <3>3
    <3>6. R(n) \in Seq(FlashAccess) /\ Len(R(n)) = n
      BY <1>1 DEF Rest
    <3>7. R(n) = t
      BY <3>3, <3>4, <3>5, <3>6, SeqEqual
    <3>8. QED
      BY <3>7 DEF s, t
  <2>3. R(n - 1) \in Rest
    BY <1>1, <2>1
  <2>4. Then(Op("read"), R(n - 1)) \o <<Op("deselect")>>
          = Then(Op("read"), R(n - 1) \o <<Op("deselect")>>)
    BY <1>2, <2>3, InLine
  <2>5. Reading32(n) = R(n) \o <<Op("deselect")>>
        /\ Reading32(n - 1) = R(n - 1) \o <<Op("deselect")>>
    BY DEF Reading32
  <2> HIDE DEF R
  <2>6. Reading32(n) = Then(Op("read"), Reading32(n - 1))
    BY <2>2, <2>4, <2>5
  <2>7. QED
    BY <1>3, <1>5, <2>6
<1>6. QED
  BY <1>3, <1>4, <1>5

(* The words of a block, and one of them.                                  *)
LEMMA WriteLoop ==
  ASSUME NEW from \in Nat, NEW n \in Nat
  PROVE  /\ Data(from, n) \in Rest
         /\ n = 0 => Data(from, n) = <<>>
         /\ n > 0 => Data(from, n) = Then(Tx(Unit("data", from + 1)),
                                          Then(Op("wait"), Data(from + 1, n - 1)))
<1>1. ASSUME NEW f \in Nat, NEW k \in Nat
      PROVE  /\ Data(f, k) \in Seq(FlashAccess) /\ Len(Data(f, k)) = 2 * k
             /\ \A i \in 1 .. 2 * k : Data(f, k)[i] = IF i % 2 = 1
                  THEN Tx(Unit("data", f + (i + 1) \div 2)) ELSE Op("wait")
  <2>0. 2 * k \in Nat
    OBVIOUS
  <2>1. ASSUME NEW i \in 1 .. 2 * k
        PROVE  /\ Data(f, k)[i] = IF i % 2 = 1
                   THEN Tx(Unit("data", f + (i + 1) \div 2)) ELSE Op("wait")
               /\ Data(f, k)[i] \in FlashAccess
    <3>1. f + (i + 1) \div 2 \in Nat
      OBVIOUS
    <3>2. \A u : spi_tx(u)[1] = Tx(u) /\ spi_tx(u)[2] = Op("wait")
      BY DEF spi_tx, Tx
    <3>3. Data(f, k)[i] = spi_tx(Unit("data", f + (i + 1) \div 2))[IF i % 2 = 1 THEN 1 ELSE 2]
      BY DEF Data
    <3>4. Data(f, k)[i] = IF i % 2 = 1 THEN Tx(Unit("data", f + (i + 1) \div 2)) ELSE Op("wait")
      BY <3>2, <3>3
    <3>5. QED
      BY <3>1, <3>4, FlashAccesses
  <2>2. Data(f, k) \in [1 .. 2 * k -> FlashAccess]
    BY <2>1 DEF Data
  <2>3. QED
    BY <2>0, <2>1, <2>2
<1>2. Data(from, n) \in Rest
  BY <1>1 DEF Rest
<1>3. CASE n = 0
  <2>1. Data(from, n) \in Seq(FlashAccess) /\ Len(Data(from, n)) = 0
    BY <1>1, <1>3
  <2>2. QED
    BY <1>2, <1>3, <2>1, EmptySeq
<1>4. CASE n > 0
  <2> DEFINE s == Data(from + 1, n - 1)
             x == Tx(Unit("data", from + 1))
             p == Then(Op("wait"), s)
             t == Then(x, p)
             d == Data(from, n)
  <2>0. n - 1 \in Nat /\ from + 1 \in Nat
    BY <1>4
  <2>1. /\ s \in Seq(FlashAccess) /\ Len(s) = 2 * (n - 1)
        /\ \A i \in 1 .. 2 * (n - 1) : s[i] = IF i % 2 = 1
             THEN Tx(Unit("data", (from + 1) + (i + 1) \div 2)) ELSE Op("wait")
    BY <1>1, <2>0
  <2>2. x \in FlashAccess /\ Op("wait") \in FlashAccess
    BY <2>0, FlashAccesses
  <2>3. /\ d \in Seq(FlashAccess) /\ Len(d) = 2 * n
        /\ \A i \in 1 .. 2 * n : d[i] = IF i % 2 = 1
             THEN Tx(Unit("data", from + (i + 1) \div 2)) ELSE Op("wait")
    BY <1>1
  <2> HIDE DEF s, d
  <2>4. /\ p \in Seq(FlashAccess) /\ Len(p) = 1 + Len(s)
        /\ \A i \in 1 .. 1 + Len(s) : p[i] = IF i <= 1 THEN Op("wait") ELSE s[i - 1]
    <3>1. <<Op("wait")>> \in Seq(FlashAccess) /\ Len(<<Op("wait")>>) = 1
      BY <2>2
    <3>2. /\ p \in Seq(FlashAccess) /\ Len(p) = 1 + Len(s)
          /\ \A i \in 1 .. 1 + Len(s) : p[i] = IF i <= 1 THEN <<Op("wait")>>[i] ELSE s[i - 1]
      BY <2>1, <3>1, ConcatProperties DEF Then
    <3> HIDE DEF p
    <3>3. QED
      BY <2>0, <2>1, <3>2
  <2> HIDE DEF p
  <2>5. /\ t \in Seq(FlashAccess) /\ Len(t) = 1 + Len(p)
        /\ \A i \in 1 .. 1 + Len(p) : t[i] = IF i <= 1 THEN x ELSE p[i - 1]
    <3> HIDE DEF x
    <3>1. <<x>> \in Seq(FlashAccess) /\ Len(<<x>>) = 1
      BY <2>2
    <3>2. /\ t \in Seq(FlashAccess) /\ Len(t) = 1 + Len(p)
          /\ \A i \in 1 .. 1 + Len(p) : t[i] = IF i <= 1 THEN <<x>>[i] ELSE p[i - 1]
      BY <2>4, <3>1, ConcatProperties DEF Then
    <3>3. Len(p) \in Nat
      BY <2>1, <2>4, LenProperties
    <3> HIDE DEF t
    <3>4. QED
      BY <3>2, <3>3
  <2> HIDE DEF t
  <2>6. Len(p) = 2 * n - 1 /\ Len(t) = 2 * n
    BY <2>0, <2>1, <2>4, <2>5
  <2>7. ASSUME NEW i \in 1 .. 2 * n PROVE t[i] = d[i]
    <3>1. CASE i = 1
      <4>1. d[1] = Tx(Unit("data", from + 1))
        <5>1. 1 % 2 = 1 /\ (1 + 1) \div 2 = 1
          OBVIOUS
        <5>2. QED
          BY <1>4, <2>3, <5>1
      <4>2. QED
        BY <2>4, <2>5, <2>6, <3>1, <4>1
    <3>2. CASE i = 2
      <4>1. d[2] = Op("wait")
        BY <2>3, <3>2
      <4>2. t[2] = p[2 - 1]
        BY <2>5, <2>6, <3>2
      <4>3. p[2 - 1] = Op("wait")
        BY <2>1, <2>4, <2>6, <3>2
      <4>4. QED
        BY <3>2, <4>1, <4>2, <4>3
    <3>3. CASE i > 2
      <4>1. t[i] = p[i - 1] /\ p[i - 1] = s[(i - 1) - 1] /\ (i - 1) - 1 = i - 2
        BY <2>1, <2>4, <2>5, <2>6, <3>3, SMTT(30)
      <4>2. i - 2 \in 1 .. 2 * (n - 1)
        BY <3>3
      <4>3. (i - 2) % 2 = i % 2 /\ (from + 1) + ((i - 2) + 1) \div 2 = from + (i + 1) \div 2
        OBVIOUS
      <4>4. s[i - 2] = d[i]
        BY <2>1, <2>3, <4>2, <4>3
      <4>5. QED
        BY <4>1, <4>4
    <3>4. QED
      BY <3>1, <3>2, <3>3
  <2>8. t = d
    BY <2>3, <2>5, <2>6, <2>7, SeqEqual
  <2>9. QED
    BY <1>2, <1>4, <2>8 DEF d, t, p, x, s
<1>5. QED
  BY <1>2, <1>3, <1>4


Sending32(c, a, s) == Then(Op("select"), Then(Tx(Unit(c, a)), Then(Op("wait"), s)))
Enabled32(c, a, s) == Sending32("WREN", 0, Then(Op("deselect"), Sending32(c, a, s)))
Polled(bit, r) == Sending32("RDSR", 0, Then(Op("deselect"), Then(Test(bit), r)))

FlashCmd == {"WREN", "RDSR", "RDID", "READ", "SE", "PP", "byte", "data"}

(* A command, and what follows it.                                         *)
LEMMA SendLine ==
  ASSUME NEW c \in FlashCmd, NEW a \in Nat, NEW s \in Rest
  PROVE  /\ Send(c, a) \in Rest /\ Sending32(c, a, s) \in Rest
         /\ Send(c, a) \o s = Sending32(c, a, s)
         /\ Command(c, a) \in Rest
         /\ Command(c, a) \o s = Sending32(c, a, Then(Op("deselect"), s))
         /\ spi_tx(Unit(c, a)) \in Rest
         /\ spi_tx(Unit(c, a)) \o s = Then(Tx(Unit(c, a)), Then(Op("wait"), s))
<1> DEFINE u == Unit(c, a)
<1>1. /\ Op("select") \in FlashAccess /\ Op("deselect") \in FlashAccess
      /\ Op("wait") \in FlashAccess /\ Tx(u) \in FlashAccess
  BY FlashAccesses DEF FlashCmd
<1> HIDE DEF u
<1>2. spi_tx(u) \in Rest /\ \A t \in Rest : spi_tx(u) \o t = Then(Tx(u), Then(Op("wait"), t))
  <2>1. spi_tx(u) = <<Tx(u)>> \o <<Op("wait")>>
    BY DEF spi_tx, Tx
  <2>2. <<Tx(u)>> \in Seq(FlashAccess) /\ <<Op("wait")>> \in Seq(FlashAccess)
    BY <1>1
  <2>3. spi_tx(u) \in Rest
    BY <2>1, <2>2, ConcatProperties DEF Rest
  <2>4. ASSUME NEW t \in Rest PROVE spi_tx(u) \o t = Then(Tx(u), Then(Op("wait"), t))
    <3>1. (<<Tx(u)>> \o <<Op("wait")>>) \o t = <<Tx(u)>> \o (<<Op("wait")>> \o t)
      BY <2>2, ConcatAssociative DEF Rest
    <3>2. QED
      BY <2>1, <3>1 DEF Then
  <2>5. QED
    BY <2>3, <2>4
<1>3. ASSUME NEW t \in Rest
      PROVE  /\ Send(c, a) \in Rest /\ Send(c, a) \o t = Sending32(c, a, t)
  <2>1. <<Op("select")>> \in Seq(FlashAccess)
    BY <1>1
  <2>2. Send(c, a) = <<Op("select")>> \o spi_tx(u)
    BY DEF Send, u
  <2>3. Send(c, a) \in Rest
    BY <1>2, <2>1, <2>2, ConcatProperties DEF Rest
  <2>4. Send(c, a) \o t = <<Op("select")>> \o (spi_tx(u) \o t)
    BY <1>2, <2>1, <2>2, ConcatAssociative DEF Rest
  <2>5. QED
    BY <1>2, <2>3, <2>4 DEF Then, Sending32, u
<1>4. <<Op("deselect")>> \in Rest
  BY <1>1 DEF Rest
<1>5. Command(c, a) \in Rest
  BY <1>3, <1>4, InLine, <1>1, ConcatProperties DEF Command, Rest
<1>6. Command(c, a) \o s = Sending32(c, a, Then(Op("deselect"), s))
  <2>1. Command(c, a) = Send(c, a) \o <<Op("deselect")>>
    BY DEF Command
  <2>2. (Send(c, a) \o <<Op("deselect")>>) \o s = Send(c, a) \o (<<Op("deselect")>> \o s)
    BY <1>3, <1>4, ConcatAssociative DEF Rest
  <2>3. <<Op("deselect")>> \o s \in Rest
    BY <1>4, ConcatProperties DEF Rest
  <2>4. QED
    BY <1>3, <2>1, <2>2, <2>3 DEF Then
<1>7. Sending32(c, a, s) \in Rest
  BY <1>1, Leading DEF Sending32, u
<1>8. QED
  BY <1>2, <1>3, <1>5, <1>6, <1>7 DEF u

(* Scripts put together.                                                   *)
Cat(s, t) == s \o t

(* Joining rests gives a rest.                                             *)
LEMMA Joined ==
  /\ <<>> \in Rest /\ \A t \in Rest : Cat(<<>>, t) = t /\ Cat(t, <<>>) = t
  /\ \A s, t \in Rest : Cat(s, t) \in Rest
  /\ \A s, t, u \in Rest : Cat(Cat(s, t), u) = Cat(s, Cat(t, u))
  BY ConcatAssociative, ConcatProperties, ConcatEmptySeq DEF Rest, Cat

(* Three rests may be joined in either order.                              *)
LEMMA Regrouped ==
  ASSUME NEW s \in Rest, NEW t \in Rest, NEW u \in Rest, NEW v \in Rest
  PROVE  Cat(Cat(Cat(s, t), u), v) = Cat(s, Cat(t, Cat(u, v)))
  BY Joined

(* Two accesses.                                                           *)
LEMMA Pair ==
  ASSUME NEW x, NEW y
  PROVE  <<x>> \o <<y>> = <<x, y>>
<1> DEFINE S == {x, y}
<1>1. /\ <<x>> \in Seq(S) /\ Len(<<x>>) = 1 /\ <<x>>[1] = x
      /\ <<y>> \in Seq(S) /\ Len(<<y>>) = 1 /\ <<y>>[1] = y
      /\ <<x, y>> \in Seq(S) /\ Len(<<x, y>>) = 2 /\ <<x, y>>[1] = x /\ <<x, y>>[2] = y
  OBVIOUS
<1> HIDE DEF S
<1> DEFINE p == <<x>>
           q == <<y>>
           r == <<x, y>>
<1> HIDE DEF p, q, r
<1>2. /\ p \in Seq(S) /\ Len(p) = 1 /\ p[1] = x /\ q \in Seq(S) /\ Len(q) = 1 /\ q[1] = y
      /\ r \in Seq(S) /\ Len(r) = 2 /\ r[1] = x /\ r[2] = y
  BY <1>1 DEF p, q, r
<1>3. /\ p \o q \in Seq(S) /\ Len(p \o q) = 2
      /\ \A i \in 1 .. 2 : (p \o q)[i] = IF i <= 1 THEN p[i] ELSE q[i - 1]
  <2>1. /\ p \o q \in Seq(S) /\ Len(p \o q) = Len(p) + Len(q)
        /\ \A i \in 1 .. Len(p) + Len(q) :
             (p \o q)[i] = IF i <= Len(p) THEN p[i] ELSE q[i - Len(p)]
    BY <1>2, ConcatProperties
  <2>2. QED
    BY <1>2, <2>1
<1>4. (p \o q)[1] = x /\ (p \o q)[2] = y
  BY <1>2, <1>3
<1>5. p \o q = r
  BY <1>2, <1>3, <1>4, SeqEqual
<1>6. QED
  BY <1>5 DEF p, q, r

(* Single accesses, and the pieces the calls are made of.                  *)
LEMMA Pieces ==
  /\ \A o \in {"select", "deselect", "wait", "rx", "read"} :
       Op(o) \in FlashAccess /\ <<Op(o)>> \in Rest
  /\ \A o \in {"select", "deselect", "wait", "rx", "read"}, s \in Rest :
       Cat(<<Op(o)>>, s) = Then(Op(o), s) /\ Then(Op(o), s) \in Rest
  /\ \A bit \in {"wip", "wel"} : Test(bit) \in FlashAccess /\ <<Test(bit)>> \in Rest
  /\ \A bit \in {"wip", "wel"}, s \in Rest :
       Cat(<<Test(bit)>>, s) = Then(Test(bit), s) /\ Then(Test(bit), s) \in Rest
  /\ \A c \in FlashCmd, a \in Nat :
       Send(c, a) \in Rest /\ Command(c, a) \in Rest /\ spi_tx(Unit(c, a)) \in Rest
  /\ \A c \in FlashCmd, a \in Nat, s \in Rest :
       /\ Cat(Send(c, a), s) = Sending32(c, a, s)
       /\ Cat(Command(c, a), s) = Sending32(c, a, Then(Op("deselect"), s))
       /\ Sending32(c, a, s) \in Rest
<1>1. /\ \A o \in {"select", "deselect", "wait", "rx", "read"} : Op(o) \in FlashAccess
      /\ \A bit \in {"wip", "wel"} : Test(bit) \in FlashAccess
  BY FlashAccesses
<1>2. \A x \in FlashAccess : <<x>> \in Rest
  BY DEF Rest
<1>3. \A x \in FlashAccess, s \in Rest : Cat(<<x>>, s) = Then(x, s) /\ Then(x, s) \in Rest
  BY Leading DEF Cat, Then
<1>4. <<>> \in Rest
  BY Joined
<1>5. ASSUME NEW c \in FlashCmd, NEW a \in Nat, NEW s \in Rest
      PROVE  /\ Send(c, a) \in Rest /\ Cat(Send(c, a), s) = Sending32(c, a, s)
             /\ Command(c, a) \in Rest
             /\ Cat(Command(c, a), s) = Sending32(c, a, Then(Op("deselect"), s))
             /\ Sending32(c, a, s) \in Rest /\ spi_tx(Unit(c, a)) \in Rest
  BY SendLine DEF Cat
<1>6. \A c \in FlashCmd, a \in Nat :
        Send(c, a) \in Rest /\ Command(c, a) \in Rest /\ spi_tx(Unit(c, a)) \in Rest
  BY <1>4, <1>5
<1>7. QED
  BY <1>1, <1>2, <1>3, <1>5, <1>6

(* A poll of the status.                                                   *)
LEMMA PollLine ==
  ASSUME NEW bit \in {"wip", "wel"}, NEW r \in Rest
  PROVE  /\ Polled(bit, r) \in Rest /\ pollstatus(bit) \in Rest
         /\ Cat(pollstatus(bit), r) = Polled(bit, r)
<1> DEFINE s == Send("RDSR", 0)
           d == <<Op("deselect")>>
           e == <<Test(bit)>>
<1>1. s \in Rest /\ d \in Rest /\ e \in Rest /\ "RDSR" \in FlashCmd /\ 0 \in Nat
  BY Pieces DEF FlashCmd
<1>2. pollstatus(bit) = Cat(s, Cat(d, e))
  BY DEF pollstatus, Test, Cat
<1>3. Cat(e, r) = Then(Test(bit), r) /\ Then(Test(bit), r) \in Rest
  BY <1>1, Pieces
<1>4. /\ Cat(d, Then(Test(bit), r)) = Then(Op("deselect"), Then(Test(bit), r))
      /\ Then(Op("deselect"), Then(Test(bit), r)) \in Rest
  BY <1>1, <1>3, Pieces
<1>5. /\ Cat(s, Then(Op("deselect"), Then(Test(bit), r))) = Polled(bit, r)
      /\ Polled(bit, r) \in Rest
  BY <1>1, <1>4, Pieces DEF Polled
<1> HIDE DEF s, d, e
<1>6. Cat(Cat(s, Cat(d, e)), r) = Cat(s, Cat(d, Cat(e, r)))
  BY <1>1, Joined
<1>7. Cat(s, Cat(d, e)) \in Rest
  BY <1>1, Joined
<1>8. QED
  BY <1>2, <1>3, <1>4, <1>5, <1>6, <1>7

(* The calls, access by access: a detection,                               *)
LEMMA DetectLine ==
  detect = Sending32("RDID", 0, Then(Op("deselect"), Then(Op("read"), <<>>)))
<1> DEFINE s == Then(Op("deselect"), Then(Op("read"), <<>>))
<1>1. Then(Op("read"), <<>>) \in Rest /\ <<Op("read")>> \in Rest
  BY Joined, Pieces
<1>2. s \in Rest
  BY <1>1, Joined, Pieces
<1>3. detect = Cat(Send("RDID", 0), s)
  <2>1. Then(Op("read"), <<>>) = <<Op("read")>>
    BY <1>1, Joined DEF Then, Cat
  <2>2. <<Op("deselect"), Op("read")>> = Then(Op("deselect"), <<Op("read")>>)
    BY DEF Then
  <2>3. QED
    BY <2>1, <2>2 DEF detect, Cat
<1>4. "RDID" \in FlashCmd /\ 0 \in Nat
  BY DEF FlashCmd
<1> HIDE DEF s
<1>5. Cat(Send("RDID", 0), s) = Sending32("RDID", 0, s)
  BY <1>2, <1>4, Pieces
<1>6. QED
  BY <1>3, <1>5 DEF s

(* a read,                                                                 *)
LEMMA ReadLine ==
  ASSUME NEW a \in Nat, NEW n \in Nat
  PROVE  read(a, n) = Sending32("READ", a,
                        Bytes8(IF spi32 THEN 0 ELSE 3, a, Then(Op("rx"), Reading32(n))))
<1> DEFINE s == Send("READ", a)
           y == spi_tx(Unit("byte", a))
           x == <<Op("rx")>>
           w == [k \in 1 .. n |-> Op("read")]
           d == <<Op("deselect")>>
           t == Then(Op("rx"), Reading32(n))
           b == Bytes8(IF spi32 THEN 0 ELSE 3, a, t)
           z == IF spi32 THEN <<>> ELSE Cat(Cat(y, y), y)
<1>1. /\ s \in Rest /\ y \in Rest /\ x \in Rest /\ d \in Rest /\ Reading32(n) \in Rest
      /\ "READ" \in FlashCmd
  BY Joined, Pieces, ReadLoop DEF FlashCmd
<1>2. w \in Rest
  <2>1. Op("read") \in FlashAccess
    BY Joined, Pieces
  <2>2. QED
    BY <2>1 DEF Rest
<1>3. read(a, n) = Cat(Cat(Cat(Cat(s, z), x), w), d)
  BY DEF read, Cat
<1>4. Cat(x, Cat(w, d)) = t /\ t \in Rest
  <2>1. Cat(w, d) = Reading32(n)
    BY DEF Reading32, Cat
  <2>2. QED
    BY <1>1, <2>1, Pieces
<1>5. b = IF spi32 THEN t ELSE Cat(y, Cat(y, Cat(y, t)))
  BY DEF Bytes8, Cat
<1>6. z = IF spi32 THEN <<>> ELSE Cat(Cat(y, y), y)
  OBVIOUS
<1> HIDE DEF s, y, x, w, d, t, b, z
<1>7. z \in Rest
  BY <1>1, <1>6, Joined
<1>8. Cat(Cat(Cat(Cat(s, z), x), w), d) = Cat(s, Cat(z, t))
  <2>1. PICK g \in Rest : g = Cat(s, z)
    BY <1>1, <1>7, Joined
  <2>2. Cat(Cat(Cat(g, x), w), d) = Cat(g, t)
    BY <1>1, <1>2, <1>4, Regrouped
  <2>3. Cat(Cat(s, z), t) = Cat(s, Cat(z, t))
    BY <1>1, <1>4, <1>7, Joined
  <2>4. QED
    BY <2>1, <2>2, <2>3
<1>9. Cat(z, t) = b
  <2>1. Cat(Cat(Cat(y, y), y), t) = Cat(y, Cat(y, Cat(y, t)))
    BY <1>1, <1>4, Regrouped
  <2>2. Cat(<<>>, t) = t
    BY <1>4, Joined
  <2>3. QED
    BY <1>5, <1>6, <2>1, <2>2
<1>10. b \in Rest
  BY <1>4, <1>7, <1>9, Joined
<1>11. Cat(s, b) = Sending32("READ", a, b)
  BY <1>1, <1>10, Pieces DEF s
<1>12. QED
  BY <1>3, <1>8, <1>9, <1>11 DEF b, t

(* an erase,                                                               *)
LEMMA EraseLine ==
  erasesector(0) = Enabled32("SE", 0, Then(Op("deselect"),
                     Polled("wel", Then(Op("select"), Then(Op("deselect"), <<>>)))))
<1> DEFINE w == Command("WREN", 0)
           c == Command("SE", 0)
           p == pollstatus("wel")
           e == Then(Op("select"), Then(Op("deselect"), <<>>))
           q == Polled("wel", e)
           v == Then(Op("deselect"), q)
<1>1. /\ w \in Rest /\ c \in Rest /\ p \in Rest /\ <<Op("deselect")>> \in Rest
      /\ "SE" \in FlashCmd /\ "WREN" \in FlashCmd /\ 0 \in Nat
  BY Joined, Pieces, PollLine DEF FlashCmd
<1>2. Then(Op("deselect"), <<>>) = <<Op("deselect")>>
  BY <1>1, Joined DEF Then, Cat
<1>3. e \in Rest
  BY <1>1, <1>2, Pieces
<1>4. e = <<Op("select"), Op("deselect")>>
  <2>1. e = <<Op("select")>> \o <<Op("deselect")>>
    BY <1>2 DEF Then
  <2> HIDE DEF e
  <2>2. QED
    BY <2>1, Pair
<1>5. erasesector(0) = Cat(Cat(Cat(w, c), p), e)
  <2> HIDE DEF e
  <2>1. QED
    BY <1>4 DEF erasesector, Cat
<1> HIDE DEF e
<1>6. Cat(p, e) = q /\ q \in Rest
  BY <1>3, PollLine
<1> HIDE DEF q
<1>7. v \in Rest /\ Cat(c, q) = Sending32("SE", 0, v) /\ Sending32("SE", 0, v) \in Rest
  <2>1. v \in Rest
    BY <1>6, Pieces
  <2> HIDE DEF v
  <2>2. Sending32("SE", 0, v) \in Rest
    BY <1>1, <2>1, Pieces
  <2>3. QED
    BY <1>1, <1>6, <2>1, <2>2, Pieces DEF v
<1> HIDE DEF v
<1>8. Cat(w, Sending32("SE", 0, v)) = Enabled32("SE", 0, v)
  BY <1>1, <1>7, Pieces DEF Enabled32
<1> HIDE DEF w, c, p
<1>9. Cat(Cat(Cat(w, c), p), e) = Cat(w, Cat(c, Cat(p, e)))
  BY <1>1, <1>3, Regrouped
<1>10. QED
  BY <1>5, <1>6, <1>7, <1>8, <1>9 DEF e, q, v

(* a block, and what follows it.                                           *)
LEMMA BlockLine ==
  ASSUME NEW a \in Nat, NEW n \in Nat, NEW from \in Nat, NEW r \in Rest
  PROVE  /\ writeblk32(a, from, n) \o r =
              Enabled32("PP", a, Cat(Data(from, n), Then(Op("deselect"), Polled("wip", r))))
         /\ writeblk32(a, from, n) =
              Enabled32("PP", a, Cat(Data(from, n), Then(Op("deselect"), Polled("wip", <<>>))))
<1> DEFINE w == Command("WREN", 0)
           c == Send("PP", a)
           d == Data(from, n)
           z == <<Op("deselect")>>
           p == pollstatus("wip")
           b == writeblk32(a, from, n)
<1>1. /\ w \in Rest /\ c \in Rest /\ d \in Rest /\ z \in Rest /\ p \in Rest
      /\ "PP" \in FlashCmd /\ "WREN" \in FlashCmd /\ 0 \in Nat
  BY Joined, Pieces, PollLine, WriteLoop DEF FlashCmd
<1>2. b = Cat(Cat(Cat(Cat(w, c), d), z), p)
  BY DEF writeblk32, Cat
<1>3. ASSUME NEW s \in Rest
      PROVE  Cat(b, s) = Enabled32("PP", a, Cat(d, Then(Op("deselect"), Polled("wip", s))))
  <2> DEFINE q == Then(Op("deselect"), Polled("wip", s))
             v == Cat(d, q)
  <2>1. Cat(p, s) = Polled("wip", s) /\ Polled("wip", s) \in Rest
    BY PollLine
  <2>2. Cat(z, Polled("wip", s)) = q /\ q \in Rest
    BY <2>1, Pieces
  <2> HIDE DEF q
  <2>3. v \in Rest
    BY <1>1, <2>2, Joined
  <2> HIDE DEF v
  <2>4. Cat(c, v) = Sending32("PP", a, v) /\ Sending32("PP", a, v) \in Rest
    BY <1>1, <2>3, Pieces
  <2>5. Cat(w, Sending32("PP", a, v)) = Enabled32("PP", a, v)
    BY <1>1, <2>4, Pieces DEF Enabled32
  <2> HIDE DEF w, c, d, z, p, b
  <2>6. Cat(b, s) = Cat(w, Cat(c, Cat(d, Cat(z, Cat(p, s)))))
    <3>1. PICK g \in Rest : g = Cat(w, c)
      BY <1>1, Joined
    <3>2. PICK h \in Rest : h = Cat(Cat(g, d), z)
      BY <1>1, Joined
    <3>3. PICK k \in Rest : k = Cat(p, s)
      BY <1>1, Joined
    <3>4. Cat(Cat(h, p), s) = Cat(h, k)
      BY <1>1, <3>3, Joined
    <3>5. Cat(Cat(Cat(g, d), z), k) = Cat(g, Cat(d, Cat(z, k)))
      BY <1>1, Regrouped
    <3>6. PICK y \in Rest : y = Cat(d, Cat(z, k))
      BY <1>1, Joined
    <3>7. Cat(Cat(w, c), y) = Cat(w, Cat(c, y))
      BY <1>1, Joined
    <3>8. QED
      BY <1>2, <3>1, <3>2, <3>3, <3>4, <3>5, <3>6, <3>7
  <2>7. Cat(b, s) = Cat(w, Cat(c, v))
    BY <2>1, <2>2, <2>6 DEF v
  <2>8. QED
    BY <2>4, <2>5, <2>7 DEF v, q
<1>4. b \in Rest
  <2> HIDE DEF w, c, d, z, p, b
  <2>1. QED
    BY <1>1, <1>2, Joined
<1>5. Cat(b, <<>>) = b /\ <<>> \in Rest
  BY <1>4, Joined
<1>6. Cat(b, r) = b \o r
  BY DEF Cat
<1>7. QED
  BY <1>3, <1>5, <1>6

-----------------------------------------------------------------------------
(* The transfer under way, and the session and the answer once it is over. *)
Idle == state = "S_IDLE"
Coming == IF state = "S_SETUP" THEN tx ELSE out
Settled == IF Idle THEN session ELSE Take(Coming)
Held == IF Idle THEN rx ELSE Answer(Coming)

(* What can be shifted in.                                                 *)
Heard == Word \cup ({"status"} \X SUBSET {"wip", "wel"}) \cup {<<"id", 0>>}

(* A session: the command, where it is, bytes to skip, words to program.   *)
Opened(c, a, h, f) == [cmd |-> c, a |-> a, skip |-> h, fill |-> f]

FlashTypes ==
  /\ spi32 \in BOOLEAN /\ pump \in BOOLEAN /\ spics \in BOOLEAN
  /\ wel \in BOOLEAN /\ wip \in BOOLEAN
  /\ state \in {"S_IDLE", "S_SETUP", "S_TRANSFER"}
  /\ session \in [cmd : FlashCmd \cup {"none", "busy"}, a : Addr, skip : 0 .. 3, fill : Seq(Nat)]
  /\ session.cmd # "PP" => session.fill = <<>>
  /\ tx \in FlashUnit /\ out \in FlashUnit
  /\ rx \in Heard /\ buf \in Seq(Heard)
  /\ flash \in [Addr -> Word] /\ goal \in [Addr -> Word]
  /\ ~wip => flash = goal
  /\ was \in [flash : [Addr -> Word], rest : BOOLEAN]

(* Between selections, a transfer that a read has left may be under way.   *)
Outside == spics /\ IF Idle THEN session = Closed ELSE session.cmd \in {"READ", "busy"}

(* The flash is selected, and no unit was sent to it.                      *)
Chosen ==
  /\ ~spics /\ pump
  /\ session.cmd \in {"none", "READ", "busy"}
  /\ ~Idle => session.cmd # "none"
  /\ was.rest => Idle /\ session = Closed /\ ~wip

(* The flash is selected, and waits for a command.                         *)
Ready32 == ~spics /\ pump /\ Idle /\ session = Closed

(* The unit u was the first to be sent to it.                              *)
Open(u) ==
  /\ ~spics /\ pump
  /\ Settled.cmd \in {u.cmd, "READ", "busy"}
  /\ ~Idle /\ session.cmd = "none" => Coming = u

-----------------------------------------------------------------------------
(* A read.                                                                 *)
Dummies(h, a, n) == Bytes8(h, a, Then(Op("rx"), Reading32(n)))
Skipped == IF spi32 THEN 0 ELSE 3
FromFlash(j) == [k \in 1 .. j |-> goal[(call.a + k - 1) % Words]]

(* The command, and the dummy bytes after it.                              *)
FlashOpening(a, n) ==
  /\ buf = <<>>
  /\ \/ ops = Sending32("READ", a, Dummies(Skipped, a, n)) /\ Outside
     \/ ops = Then(Tx(Unit("READ", a)), Then(Op("wait"), Dummies(Skipped, a, n))) /\ Chosen

FlashSkipping(h, a, n) ==
  /\ buf = <<>> /\ Open(Unit("READ", a))
  /\ ops = Then(Op("wait"), Dummies(h, a, n)) \/ (ops = Dummies(h, a, n) /\ Idle)
  /\ was.rest => ~wip /\ Settled = Opened("READ", a, h, <<>>)

(* The words, the first j of which were read.                              *)
FlashFetching(j, a, n) ==
  /\ ops = Reading32(n - j) /\ Open(Unit("READ", a)) /\ session.cmd # "none"
  /\ Len(buf) = j
  /\ was.rest => /\ ~wip
                 /\ Settled = Opened("READ", (a + j + 1) % Words, 0, <<>>)
                 /\ Held = goal[(a + j) % Words]
                 /\ buf = FromFlash(j)

(* All of them were read.                                                  *)
FetchedAll(a, n) == ops = <<>> /\ Outside /\ Len(buf) = n /\ (was.rest => ~wip /\ buf = FromFlash(n))

FlashReading ==
  /\ call.op = "read"
  /\ \E a \in Addr, n \in 0 .. MaxRead :
       /\ call.a = a /\ call.n = n
       /\ \/ FlashOpening(a, n)
          \/ \E h \in 0 .. 3 : FlashSkipping(h, a, n)
          \/ \E j \in 0 .. n : FlashFetching(j, a, n)
          \/ FetchedAll(a, n)

(* A detection.                                                            *)
Detected == Then(Op("deselect"), Then(Op("read"), <<>>))

FlashDetecting ==
  LET u == Unit("RDID", 0)
  IN  /\ call.op = "detect"
      /\ \/ ops = Sending32("RDID", 0, Detected) /\ Outside /\ buf = <<>>
         \/ ops = Then(Tx(u), Then(Op("wait"), Detected)) /\ Chosen /\ buf = <<>>
         \/ ops = Then(Op("wait"), Detected) /\ Open(u) /\ buf = <<>>
         \/ ops = Detected /\ Open(u) /\ Idle /\ buf = <<>>
         \/ ops = Then(Op("read"), <<>>) /\ Outside /\ Idle /\ ~pump /\ buf = <<>>
         \/ ops = <<>> /\ Outside /\ Len(buf) = 1

(* An erase or a block of a write: the contents before and after it.       *)
Written == call.a .. call.a + call.n - 1

Fits == call.n + (call.a % PageWords) <= PageWords /\ \A i \in Written : was.flash[i] = FF

(* Before the effect, and after it: of a block, if the call has but one.   *)
Kept == (call.op = "write" => call.n < pagesize) => goal = was.flash

Changed ==
  IF call.op = "erase" THEN goal = [i \in Addr |-> FF]
  ELSE Fits => goal = [i \in Addr |-> IF i \in Written THEN <<"new", i - call.a + 1>>
                                       ELSE was.flash[i]]

(* A bit of the status is clear; the answer tells the truth about it;      *)
(* the status was asked for, and the answer has come.                      *)
Clear(bit) == IF bit = "wip" THEN ~wip ELSE ~wel
Told(bit) == bit \notin rx[2] => Clear(bit)
Asked == ~Idle /\ session = Closed /\ Coming = Unit("RDSR", 0)
Answered(bit) == Idle /\ session = Opened("RDSR", 0, 0, <<>>) /\ Told(bit)

(* The write enable, sent before a command.                                *)
FlashEnabling(c, a, d) ==
  LET u == Unit(c, a)
      w == Unit("WREN", 0)
      q == Then(Op("deselect"), Sending32(c, a, d))
  IN  \/ ops = Enabled32(c, a, d) /\ Outside /\ (was.rest => Kept)
      \/ ops = Then(Tx(w), Then(Op("wait"), q)) /\ Chosen /\ (was.rest => Kept)
      \/ /\ ops = Then(Op("wait"), q) \/ (ops = q /\ Idle)
         /\ Open(w)
         /\ was.rest => ~wip /\ Settled = Opened("WREN", 0, 0, <<>>) /\ Kept
      \/ /\ \/ ops = Sending32(c, a, d) /\ Outside /\ Idle
            \/ ops = Then(Tx(u), Then(Op("wait"), d)) /\ Ready32
         /\ was.rest => ~wip /\ wel /\ Kept

(* The command, and the words of it that were sent.                        *)
FlashSending(c, a, f, j, d) ==
  /\ ops = Then(Op("wait"), d) \/ (ops = d /\ Idle)
  /\ Open(Unit(c, a))
  /\ was.rest => /\ ~wip /\ wel /\ Kept
                 /\ Settled = Opened(c, a, 0, [i \in 1 .. j |-> f + i])

(* The status, asked for until a bit of it is clear.                       *)
FlashPolling(bit, r) ==
  LET t == Then(Op("deselect"), Then(Test(bit), r))
  IN  \/ ops = Polled(bit, r) /\ Outside /\ Idle
      \/ ops = Then(Tx(Unit("RDSR", 0)), Then(Op("wait"), t)) /\ Ready32
      \/ ops = Then(Op("wait"), t) /\ ~spics /\ pump /\ (Asked \/ Answered(bit))
      \/ ops = t /\ ~spics /\ pump /\ Answered(bit)
      \/ ops = Then(Test(bit), r) /\ Outside /\ Idle /\ ~pump /\ Told(bit)

FlashPolled(bit, r) == ops = r /\ Outside /\ Idle /\ (was.rest => Clear(bit))

(* The rest of a command after its first j words.                          *)
Unsent(f, m, bit, r, j) == Cat(Data(f + j, m - j), Then(Op("deselect"), Polled(bit, r)))

(* The command has had its effect, or is having it.                        *)
Effective(c, m) == was.rest => Changed /\ (m > 0 \/ c = "SE" => wip \/ ~wel)

FlashUpdating(c, a, f, m, bit, r) ==
  \/ FlashEnabling(c, a, Unsent(f, m, bit, r, 0))
  \/ \E j \in 0 .. m : FlashSending(c, a, f, j, Unsent(f, m, bit, r, j))
  \/ (FlashPolling(bit, r) \/ FlashPolled(bit, r)) /\ Effective(c, m)

(* An erase, which ends with an empty selection.                           *)
Emptied == Then(Op("select"), Then(Op("deselect"), <<>>))

FlashErasing ==
  /\ call.op = "erase" /\ buf = <<>>
  /\ \/ FlashUpdating("SE", 0, 0, 0, "wel", Emptied)
     \/ /\ \/ ops = Then(Op("deselect"), <<>>) /\ Ready32
           \/ ops = <<>> /\ Outside
        /\ was.rest => Changed /\ ~wel

(* A write, block by block.                                                *)
Next32(a, f, n) == [op |-> "next", a |-> a, from |-> f, n |-> n]

Portion(n) == IF n < pagesize THEN n ELSE pagesize
Remains(a, f, n) ==
  IF n < pagesize THEN <<>>
  ELSE Then(Next32((a + PageWords) % Words, f + pagesize, n - pagesize), <<>>)

FlashBlock(a, f, n) == FlashUpdating("PP", a, f, Portion(n), "wip", Remains(a, f, n))

(* The block at a, the first of the n words that are left.                 *)
FlashWriting ==
  /\ call.op = "write" /\ call.a \in Addr /\ call.n \in Nat /\ buf = <<>>
  /\ \E a \in Addr, f \in Nat, n \in Nat :
       /\ n % pagesize = call.n % pagesize /\ n <= call.n
       /\ call.n < pagesize => a = call.a /\ f = 0 /\ n = call.n
       /\ FlashBlock(a, f, n)

(* The invariant: a call is at one of its places.                          *)
FlashInv ==
  /\ FlashTypes
  /\ \/ call.op = "none" /\ ops = <<>> /\ Outside /\ buf = <<>>
     \/ FlashReading
     \/ FlashDetecting
     \/ FlashErasing
     \/ FlashWriting

-----------------------------------------------------------------------------
(* A number is a multiple and a remainder.                                 *)
LEMMA DivMod ==
  ASSUME NEW a \in Nat, NEW p \in Nat \ {0}
  PROVE  a % p \in 0 .. p - 1 /\ \E q \in Nat : a = p * q + (a % p)
<1>1. a \div p \in Nat /\ a % p \in 0 .. p - 1 /\ a = p * (a \div p) + (a % p)
  OBVIOUS
<1>2. QED
  BY <1>1

(* A remainder is the only one.                                            *)
LEMMA ModUnique ==
  ASSUME NEW a \in Nat, NEW p \in Nat \ {0}, NEW q \in Nat, NEW r \in 0 .. p - 1, a = p * q + r
  PROVE  a % p = r
  OBVIOUS

(* A step that stays in the page adds to the remainder.                    *)
LEMMA ModShift ==
  ASSUME NEW a \in Nat, NEW p \in Nat \ {0}, NEW k \in Nat, (a % p) + k < p
  PROVE  (a + k) % p = (a % p) + k
<1>1. PICK q \in Nat : a = p * q + (a % p)
  BY DivMod
<1>2. PICK r \in 0 .. p - 1 : r = (a % p) + k
  <2>1. PICK b \in 0 .. p - 1 : b = a % p
    BY DivMod
  <2>2. b + k \in 0 .. p - 1
    BY <2>1
  <2>3. QED
    BY <2>1, <2>2
<1>3. a + k = p * q + r /\ a + k \in Nat
  BY <1>1, <1>2, DivMod
<1>4. QED
  BY <1>2, <1>3, ModUnique

(* Whole pages do not change it.                                           *)
LEMMA ModSame ==
  ASSUME NEW a \in Nat, NEW p \in Nat \ {0}, NEW b \in Nat, NEW q \in Nat, a = p * q + b
  PROVE  a % p = b % p
<1>1. PICK k \in Nat : b = p * k + (b % p)
  BY DivMod
<1>2. p * q + p * k = p * (q + k) /\ q + k \in Nat /\ p * q \in Nat /\ p * k \in Nat
  OBVIOUS
<1>3. PICK r \in 0 .. p - 1 : r = b % p
  BY DivMod
<1>4. a = p * (q + k) + r
  BY <1>1, <1>2, <1>3
<1>5. QED
  BY <1>2, <1>3, <1>4, ModUnique

(* The next remainder is that of the next number.                          *)
LEMMA ModStep ==
  ASSUME NEW a \in Nat, NEW p \in Nat \ {0}
  PROVE  ((a % p) + 1) % p = (a + 1) % p
<1>1. PICK q \in Nat : a = p * q + (a % p)
  BY DivMod
<1>2. PICK b \in Nat : b = (a % p) + 1
  BY DivMod
<1>3. PICK c \in Nat : c = a + 1
  OBVIOUS
<1>4. c = p * q + b
  BY <1>1, <1>2, <1>3, DivMod
<1>5. c % p = b % p
  BY <1>4, ModSame
<1>6. QED
  BY <1>2, <1>3, <1>5

(* One page less does not change it.                                       *)
LEMMA ModLess ==
  ASSUME NEW a \in Nat, NEW p \in Nat \ {0}, a >= p
  PROVE  (a - p) % p = a % p
<1>1. a - p \in Nat /\ a = p * 1 + (a - p)
  OBVIOUS
<1>2. QED
  BY <1>1, ModSame, ZenonT(30)

(* A number in the first page is its remainder.                            *)
LEMMA ModSmall ==
  ASSUME NEW a \in Nat, NEW p \in Nat \ {0}, a < p
  PROVE  a % p = a
  OBVIOUS

Sessions == [cmd : FlashCmd \cup {"none", "busy"}, a : Addr, skip : 0 .. 3, fill : Seq(Nat)]

(* The sizes.                                                              *)
LEMMA Sizes32 ==
  /\ Words \in Nat \ {0} /\ PageWords \in Nat \ {0} /\ pagesize \in Nat \ {0}
  /\ PageWords < pagesize /\ MaxRead \in Nat \ {0}
  /\ 0 \in Addr /\ Addr \subseteq Nat /\ \A x \in Nat : x % Words \in Addr
<1>1. Words \in Nat \ {0} /\ PageWords \in Nat \ {0} /\ MaxRead \in Nat \ {0}
  BY FlashAssumption
<1>2. pagesize \in Nat \ {0} /\ PageWords < pagesize
  BY <1>1 DEF pagesize
<1>3. \A x \in Nat : x % Words \in 0 .. Words - 1
  BY <1>1, DivMod
<1>4. QED
  BY <1>1, <1>2, <1>3 DEF Addr

(* What the flash makes of a unit.                                         *)
LEMMA Taken ==
  ASSUME FlashTypes, NEW u \in FlashUnit, session.cmd = "none" => u.a \in Addr
  PROVE  /\ Take(u) \in Sessions /\ (Take(u).cmd # "PP" => Take(u).fill = <<>>)
         /\ Answer(u) \in Heard
         /\ Take(u).cmd = IF session.cmd = "none"
                          THEN IF wip /\ u.cmd # "RDSR" THEN "busy" ELSE u.cmd
                          ELSE session.cmd
<1>1. session \in Sessions /\ (session.cmd # "PP" => session.fill = <<>>)
  BY DEF FlashTypes, Sessions
<1>2. u.cmd \in FlashCmd /\ u.a \in Nat
  BY DEF FlashUnit, FlashCmd
<1>3. <<>> \in Seq(Nat) /\ 0 \in Addr /\ session.a \in Nat
  <2>1. session.a \in Addr
    BY <1>1 DEF Sessions
  <2>2. <<>> \in Seq(Nat)
    OBVIOUS
  <2>3. 0 \in Addr /\ session.a \in Nat
    BY <2>1, Sizes32
  <2>4. QED
    BY <2>2, <2>3
<1>4. Answer(u) \in Heard
  <2>1. FF \in Heard /\ <<"id", 0>> \in Heard
    BY DEF FF, Heard, Word
  <2>2. \A x \in SUBSET {"wip", "wel"} : <<"status", x>> \in Heard
    BY DEF Heard
  <2>3. flash[session.a] \in Heard
    BY <1>1 DEF FlashTypes, Heard, Sessions
  <2>4. (IF wip THEN {"wip"} ELSE {}) \cup (IF wel THEN {"wel"} ELSE {}) \in SUBSET {"wip", "wel"}
    OBVIOUS
  <2>5. QED
    BY <2>1, <2>2, <2>3, <2>4 DEF Answer
<1>5. CASE session.cmd = "none"
  <2>1. CASE wip /\ u.cmd # "RDSR"
    <3>1. Take(u) = Busy
      BY <1>5, <2>1 DEF Take
    <3>2. QED
      BY <1>3, <1>4, <1>5, <2>1, <3>1 DEF Busy, Sessions
  <2>2. CASE ~(wip /\ u.cmd # "RDSR")
    <3>1. PICK h \in {0, 3} : Take(u) = [Closed EXCEPT !.cmd = u.cmd, !.a = u.a, !.skip = h]
      BY <1>5, <2>2 DEF Take
    <3>2. Take(u) = [cmd |-> u.cmd, a |-> u.a, skip |-> h, fill |-> <<>>]
      BY <3>1 DEF Closed
    <3>3. QED
      BY <1>2, <1>3, <1>4, <1>5, <2>2, <3>2 DEF Sessions
  <2>3. QED
    BY <2>1, <2>2
<1>6. ASSUME session.cmd # "none", NEW a \in Addr, NEW h \in 0 .. 3, NEW f \in Seq(Nat),
             session.cmd # "PP" => f = <<>>,
             Take(u) = [cmd |-> session.cmd, a |-> a, skip |-> h, fill |-> f]
      PROVE  /\ Take(u) \in Sessions /\ (Take(u).cmd # "PP" => Take(u).fill = <<>>)
             /\ Take(u).cmd = session.cmd
  BY <1>1, <1>6 DEF Sessions
<1>7. CASE session.cmd # "none"
  <2>0. /\ session = [cmd |-> session.cmd, a |-> session.a, skip |-> session.skip,
                      fill |-> session.fill]
        /\ session.a \in Addr /\ session.skip \in 0 .. 3 /\ session.fill \in Seq(Nat)
    BY <1>1 DEF Sessions
  <2>1. CASE session.skip > 0
    <3>1. Take(u) = [session EXCEPT !.skip = @ - 1]
      BY <1>7, <2>1 DEF Take
    <3>2. session.skip - 1 \in 0 .. 3
      BY <2>0, <2>1
    <3>3. Take(u) = [cmd |-> session.cmd, a |-> session.a, skip |-> session.skip - 1,
                     fill |-> session.fill]
      BY <2>0, <3>1
    <3>4. QED
      BY <1>1, <1>4, <1>6, <1>7, <2>0, <3>2, <3>3
  <2>2. CASE ~(session.skip > 0) /\ session.cmd = "READ"
    <3>1. Take(u) = [session EXCEPT !.a = (@ + 1) % Words]
      BY <1>7, <2>2 DEF Take
    <3>2. (session.a + 1) % Words \in Addr
      BY <1>3, Sizes32
    <3>3. Take(u) = [cmd |-> session.cmd, a |-> (session.a + 1) % Words, skip |-> session.skip,
                     fill |-> session.fill]
      BY <2>0, <3>1
    <3>4. QED
      BY <1>1, <1>4, <1>6, <1>7, <2>0, <3>2, <3>3
  <2>3. CASE ~(session.skip > 0) /\ session.cmd = "PP"
    <3>1. Take(u) = [session EXCEPT !.fill = Append(@, u.a)]
      BY <1>7, <2>3 DEF Take
    <3>2. Append(session.fill, u.a) \in Seq(Nat)
      BY <1>2, <2>0
    <3>3. Take(u) = [cmd |-> session.cmd, a |-> session.a, skip |-> session.skip,
                     fill |-> Append(session.fill, u.a)]
      BY <2>0, <3>1
    <3>4. QED
      BY <1>1, <1>4, <1>6, <1>7, <2>0, <2>3, <3>2, <3>3
  <2>4. CASE ~(session.skip > 0) /\ session.cmd \notin {"READ", "PP"}
    <3>1. Take(u) = session
      BY <1>7, <2>4 DEF Take
    <3>2. QED
      BY <1>1, <1>4, <1>7, <3>1
  <2>5. QED
    BY <2>1, <2>2, <2>3, <2>4
<1>8. QED
  BY <1>5, <1>7

(* What becomes of a session that is known.                                *)
LEMMA TakenFrom ==
  ASSUME NEW u \in FlashUnit
  PROVE  /\ session = Closed /\ (~wip \/ u.cmd = "RDSR") =>
              Take(u) = Opened(u.cmd, u.a, IF u.cmd = "READ" /\ ~spi32 THEN 3 ELSE 0, <<>>)
         /\ \A a, h \in Nat : h > 0 /\ session = Opened("READ", a, h, <<>>) =>
              Take(u) = Opened("READ", a, h - 1, <<>>)
         /\ \A a \in Nat : session = Opened("READ", a, 0, <<>>) =>
              Take(u) = Opened("READ", (a + 1) % Words, 0, <<>>) /\ Answer(u) = flash[a]
         /\ \A a, f : session = Opened("PP", a, 0, f) =>
              Take(u) = Opened("PP", a, 0, Append(f, u.a))
<1>1. ASSUME session = Closed, ~wip \/ u.cmd = "RDSR"
      PROVE  Take(u) = Opened(u.cmd, u.a, IF u.cmd = "READ" /\ ~spi32 THEN 3 ELSE 0, <<>>)
  <2>1. Take(u) = [Closed EXCEPT !.cmd = u.cmd, !.a = u.a,
                        !.skip = IF u.cmd = "READ" /\ ~spi32 THEN 3 ELSE 0]
    BY <1>1 DEF Take, Closed
  <2>2. QED
    BY <2>1 DEF Closed, Opened
<1>2. ASSUME NEW a \in Nat, NEW h \in Nat, h > 0, session = Opened("READ", a, h, <<>>)
      PROVE  Take(u) = Opened("READ", a, h - 1, <<>>)
  BY <1>2 DEF Take, Opened
<1>3. ASSUME NEW a \in Nat, session = Opened("READ", a, 0, <<>>)
      PROVE  Take(u) = Opened("READ", (a + 1) % Words, 0, <<>>) /\ Answer(u) = flash[a]
  BY <1>3 DEF Take, Answer, Opened
<1>4. ASSUME NEW a, NEW f, session = Opened("PP", a, 0, f)
      PROVE  Take(u) = Opened("PP", a, 0, Append(f, u.a))
  BY <1>4, SMTT(30) DEF Take, Opened
<1>5. QED
  BY <1>1, <1>2, <1>3, <1>4

(* A set of numbers that is not empty and bounded has a largest one.       *)
LEMMA Largest ==
  ASSUME NEW n \in Nat, NEW T \in SUBSET (1 .. n), T # {}
  PROVE  \E k \in T : \A j \in T : j <= k
<1> DEFINE R == {p \in Nat \X Nat : p[1] < p[2]}
           U == {i \in 0 .. n : n - i \in T}
<1>1. IsWellFoundedOn(R, Nat)
  <2>1. R = OpToRel(<, Nat)
    BY DEF OpToRel
  <2>2. QED
    BY <2>1, NatLessThanWellFounded
<1>2. U \in SUBSET Nat /\ U # {}
  <2>1. PICK k \in T : k \in 1 .. n
    OBVIOUS
  <2>2. n - k \in 0 .. n /\ n - (n - k) = k
    BY <2>1
  <2>3. n - k \in U
    BY <2>1, <2>2
  <2>4. U \subseteq 0 .. n
    OBVIOUS
  <2>5. QED
    BY <2>3, <2>4
<1>3. PICK x \in U : \A y \in U : ~ (<<y, x>> \in R)
  <2> HIDE DEF R, U
  <2>1. QED
    BY <1>1, <1>2, WFMin
<1>4. \A y \in U : <<y, x>> \in Nat \X Nat /\ <<y, x>>[1] = y /\ <<y, x>>[2] = x
  OBVIOUS
<1>5. \A y \in U : ~ (y < x)
  BY <1>3, <1>4
<1>6. ASSUME NEW j \in T PROVE j <= n - x
  <2>1. n - j \in U
    <3>1. n - j \in 0 .. n /\ n - (n - j) = j
      OBVIOUS
    <3>2. QED
      BY <3>1
  <2>2. QED
    BY <1>5, <2>1
<1>7. n - x \in T
  OBVIOUS
<1>8. QED
  BY <1>6, <1>7

(* A page is programmed with words.                                        *)
LEMMA ProgramTyped ==
  ASSUME FlashTypes, NEW s \in Sessions
  PROVE  Program(s) \in [Addr -> Word]
<1> DEFINE base == s.a - (s.a % PageWords)
           words(i) == {k \in 1 .. Len(s.fill) : base + ((s.a + k - 1) % PageWords) = i}
           last(i) == s.fill[CHOOSE k \in words(i) : \A j \in words(i) : j <= k]
<1>1. Program(s) = [i \in Addr |-> IF words(i) = {} THEN goal[i]
                                   ELSE IF goal[i] = FF THEN <<"new", last(i)>> ELSE Spoilt]
  BY DEF Program
<1>2. s.fill \in Seq(Nat) /\ Len(s.fill) \in Nat
  BY DEF Sessions
<1>3. ASSUME NEW i \in Addr, words(i) # {} PROVE last(i) \in Nat
  <2>1. words(i) \in SUBSET (1 .. Len(s.fill))
    OBVIOUS
  <2> DEFINE T == words(i)
  <2> HIDE DEF words, T
  <2>2. \E k \in T : \A j \in T : j <= k
    BY <1>2, <1>3, <2>1, Largest DEF T
  <2>3. (CHOOSE k \in T : \A j \in T : j <= k) \in T
    BY <2>2
  <2>4. QED
    BY <1>2, <2>1, <2>3, ElementOfSeq DEF T
<1>4. Spoilt \in Word /\ \A x \in Nat : <<"new", x>> \in Word
  BY DEF Spoilt, Word
<1> HIDE DEF words, last
<1>5. QED
  BY <1>1, <1>3, <1>4 DEF FlashTypes

(* The place of a word among those sent.                                   *)
LEMMA OneWord ==
  ASSUME NEW a \in Nat, NEW m \in Nat, NEW i \in Nat
  PROVE  /\ i \in a .. a + m - 1 =>
              i - a + 1 \in 1 .. m /\ {k \in 1 .. m : a + k - 1 = i} = {i - a + 1}
         /\ i \notin a .. a + m - 1 => {k \in 1 .. m : a + k - 1 = i} = {}
<1>1. \A k \in 1 .. m : a + k - 1 = i <=> k = i - a + 1
  OBVIOUS
<1>2. i \in a .. a + m - 1 <=> i - a + 1 \in 1 .. m
  OBVIOUS
<1>3. QED
  BY <1>1, <1>2

(* A block that fits a page, erased where it goes, is programmed there.    *)
LEMMA ProgramFits ==
  ASSUME FlashTypes, NEW a \in Addr, NEW m \in Nat, m + (a % PageWords) <= PageWords,
         \A i \in a .. a + m - 1 : goal[i] = FF
  PROVE  Program(Opened("PP", a, 0, [i \in 1 .. m |-> 0 + i]))
           = [i \in Addr |-> IF i \in a .. a + m - 1 THEN <<"new", i - a + 1>> ELSE goal[i]]
<1> DEFINE s == Opened("PP", a, 0, [i \in 1 .. m |-> 0 + i])
           base == s.a - (s.a % PageWords)
           words(i) == {k \in 1 .. Len(s.fill) : base + ((s.a + k - 1) % PageWords) = i}
           last(i) == s.fill[CHOOSE k \in words(i) : \A j \in words(i) : j <= k]
<1>1. Program(s) = [i \in Addr |-> IF words(i) = {} THEN goal[i]
                                   ELSE IF goal[i] = FF THEN <<"new", last(i)>> ELSE Spoilt]
  BY DEF Program
<1>2. s.a = a /\ s.fill = [i \in 1 .. m |-> i] /\ Len(s.fill) = m
  BY DEF Opened
<1>3. a \in Nat /\ PageWords \in Nat \ {0} /\ a % PageWords \in 0 .. PageWords - 1
  BY Sizes32, DivMod
<1> HIDE DEF s
<1>4. ASSUME NEW k \in 1 .. m
      PROVE  base + ((s.a + k - 1) % PageWords) = a + k - 1
  <2>1. PICK l \in Nat : l = k - 1 /\ (a % PageWords) + l < PageWords
    <3>1. k - 1 \in Nat /\ (a % PageWords) + (k - 1) < PageWords
      BY <1>3
    <3>2. QED
      BY <3>1
  <2>2. (a + l) % PageWords = (a % PageWords) + l
    BY <1>3, <2>1, ModShift
  <2>3. s.a + k - 1 = a + l
    BY <1>2, <1>3, <2>1
  <2>4. QED
    BY <1>2, <1>3, <2>1, <2>2, <2>3
<1>5. \A i \in Addr : words(i) = {k \in 1 .. m : a + k - 1 = i}
  BY <1>2, <1>4
<1>6. ASSUME NEW i \in Addr, i \in a .. a + m - 1
      PROVE  words(i) # {} /\ last(i) = i - a + 1
  <2> DEFINE x == i - a + 1
  <2>1. x \in 1 .. m /\ words(i) = {x}
    BY <1>3, <1>5, <1>6, OneWord, Sizes32
  <2> HIDE DEF x, words
  <2>2. (CHOOSE k \in {x} : \A j \in {x} : j <= k) = x
    BY <2>1
  <2>3. s.fill[x] = x
    BY <1>2, <2>1
  <2>4. QED
    BY <2>1, <2>2, <2>3 DEF x
<1>7. ASSUME NEW i \in Addr, i \notin a .. a + m - 1
      PROVE  words(i) = {}
  BY <1>3, <1>5, <1>7, OneWord, Sizes32
<1> HIDE DEF words, last
<1>8. QED
  BY <1>1, <1>6, <1>7 DEF s

(* The end of a session.                                                   *)
LEMMA Risen ==
  ASSUME FlashTypes, NEW s \in Sessions, Rise(s)
  PROVE  /\ session' = Closed
         /\ wel' \in BOOLEAN /\ wip' \in BOOLEAN /\ goal' \in [Addr -> Word]
         /\ s.cmd \notin {"WREN", "SE", "PP"} => wel' = wel /\ wip' = wip /\ goal' = goal
         /\ ~wip' => ~wip /\ goal' = goal
<1>1. wel \in BOOLEAN /\ wip \in BOOLEAN /\ goal \in [Addr -> Word]
  BY DEF FlashTypes
<1> DEFINE starts == wel /\ (s.cmd = "SE" \/ (s.cmd = "PP" /\ s.fill # <<>>))
<1>2. /\ session' = Closed
      /\ wel' = (wel \/ s.cmd = "WREN")
      /\ wip' = (wip \/ starts)
      /\ goal' = IF ~starts THEN goal
                  ELSE IF s.cmd = "SE" THEN [i \in Addr |-> FF] ELSE Program(s)
  BY DEF Rise
<1>3. [i \in Addr |-> FF] \in [Addr -> Word]
  BY DEF FF, Word
<1>4. goal' \in [Addr -> Word]
  BY <1>1, <1>2, <1>3, ProgramTyped
<1>5. QED
  BY <1>1, <1>2, <1>4

(* A unit on its way to a flash that waits for a command brings an address.*)
Reach == ~Idle /\ session.cmd = "none" => Coming.a \in Addr

(* What happens while the program makes no access.                         *)
Meanwhile == Setup \/ Transfer \/ FlashWorks \/ UNCHANGED spivars

(* A phase of a transfer or of a programming cycle does not change what    *)
(* will have become of the transfer, unless the flash is busy.             *)
LEMMA CoreKeeps ==
  ASSUME FlashTypes, Reach, spics => Outside, Meanwhile
  PROVE  /\ UNCHANGED <<spi32, pump, spics, ops, call, buf, was, goal>>
         /\ FlashTypes'
         /\ Idle => Idle' /\ session' = session /\ rx' = rx
         /\ ~wip => wip' = wip /\ wel' = wel
         /\ (wip' => wip) /\ (wel' => wel) /\ (wip \/ ~wel => wip' \/ ~wel')
         /\ (Outside => Outside')
         /\ session.cmd # "none" /\ ~spics => session'.cmd = session.cmd
         /\ ~spics /\ ~wip => Settled' = Settled /\ Held' = Held
         /\ ~spics => \/ Settled'.cmd = Settled.cmd
                      \/ session.cmd = "none" /\ ~Idle /\ Settled'.cmd \in {"busy", Coming.cmd}
         /\ ~Idle' => ~Idle /\ Coming' = Coming /\ session' = session
         /\ ~Idle /\ Idle' /\ ~spics => /\ rx' = Answer(Coming) /\ session' = Take(Coming)
                                       /\ wip' = wip /\ wel' = wel
<1>0. /\ session \in Sessions /\ (session.cmd # "PP" => session.fill = <<>>)
      /\ Coming \in FlashUnit /\ wel \in BOOLEAN /\ wip \in BOOLEAN
  BY DEF FlashTypes, Sessions, Coming
<1>1. CASE Setup
  <2>1. /\ ~Idle /\ ~Idle' /\ Coming' = Coming /\ out' = tx /\ state' = "S_TRANSFER"
        /\ UNCHANGED <<spi32, pump, spics, tx, rx, session, flash, goal, wel, wip, ops, call, buf, was>>
    BY <1>1 DEF Setup, Idle, Coming
  <2>2. Take(Coming)' = Take(Coming) /\ Answer(Coming)' = Answer(Coming)
    BY <2>1 DEF Take, Answer
  <2>3. Settled' = Settled /\ Held' = Held
    BY <2>1, <2>2 DEF Settled, Held
  <2>4. FlashTypes'
    BY <2>1 DEF FlashTypes
  <2>5. Outside => Outside'
    BY <2>1 DEF Outside
  <2>6. QED
    BY <1>0, <2>1, <2>3, <2>4, <2>5
<1>2. CASE Transfer
  <2>1. /\ ~Idle /\ Idle' /\ Coming = out /\ state' = "S_IDLE" /\ out' \in FlashUnit
        /\ UNCHANGED <<spi32, pump, spics, tx, flash, ops, call, buf, was>>
        /\ rx' = Answer(Coming)
        /\ IF spics THEN Rise(Take(Coming))
           ELSE session' = Take(Coming) /\ UNCHANGED <<goal, wel, wip>>
    BY <1>2 DEF Transfer, Idle, Coming, Nothing, Unit, FlashUnit
  <2>2. /\ Take(Coming) \in Sessions /\ (Take(Coming).cmd # "PP" => Take(Coming).fill = <<>>)
        /\ Answer(Coming) \in Heard
        /\ session.cmd # "none" => Take(Coming).cmd = session.cmd
    BY <1>0, <2>1, Taken DEF Reach
  <2>3. CASE spics
    <3>1. session.cmd \in {"READ", "busy"} /\ Outside
      BY <2>1, <2>3 DEF Outside
    <3>2. Rise(Take(Coming)) /\ Take(Coming).cmd \notin {"WREN", "SE", "PP"}
      BY <2>1, <2>2, <2>3, <3>1
    <3>3. session' = Closed /\ wel' = wel /\ wip' = wip /\ goal' = goal
      BY <2>2, <3>2, Risen
    <3>4. Closed \in Sessions /\ Closed.fill = <<>>
      BY Sizes32 DEF Closed, Sessions
    <3>5. FlashTypes'
      BY <2>1, <2>2, <3>3, <3>4 DEF FlashTypes, Sessions
    <3>6. Outside'
      BY <2>1, <2>3, <3>3 DEF Outside
    <3>7. QED
      BY <2>1, <2>3, <3>3, <3>5, <3>6
  <2>4. CASE ~spics
    <3>1. session' = Take(Coming) /\ wel' = wel /\ wip' = wip /\ goal' = goal
      BY <2>1, <2>4
    <3>2. FlashTypes'
      BY <2>1, <2>2, <3>1 DEF FlashTypes, Sessions
    <3>3. Settled' = Settled /\ Held' = Held
      BY <2>1, <3>1 DEF Settled, Held
    <3>4. ~Outside
      BY <2>4 DEF Outside
    <3>5. QED
      BY <2>1, <2>2, <2>4, <3>1, <3>2, <3>3, <3>4
  <2>5. QED
    BY <2>3, <2>4
<1>3. CASE FlashWorks
  <2>1. /\ wip /\ wel' = FALSE /\ wip' \in BOOLEAN /\ flash' = IF wip' THEN flash ELSE goal
        /\ UNCHANGED <<spi32, pump, spics, tx, rx, state, out, session, goal, ops, call, buf, was>>
    BY <1>0, <1>3 DEF FlashWorks
  <2>2. (Idle' <=> Idle) /\ Coming' = Coming
    BY <2>1 DEF Idle, Coming
  <2>3. FlashTypes'
    BY <2>1 DEF FlashTypes
  <2>4. Outside => Outside'
    BY <2>1, <2>2 DEF Outside
  <2>5. /\ Take(Coming).cmd = IF session.cmd = "none"
                                THEN IF wip /\ Coming.cmd # "RDSR" THEN "busy" ELSE Coming.cmd
                              ELSE session.cmd
        /\ ~Idle => Take(Coming)'.cmd = IF session.cmd = "none"
                                 THEN IF wip' /\ Coming.cmd # "RDSR" THEN "busy" ELSE Coming.cmd
                               ELSE session.cmd
    <3>1. CASE session.cmd = "none" /\ ~Idle
      <4>1. Take(Coming)' = IF wip' /\ Coming.cmd # "RDSR" THEN Busy
                            ELSE [Closed EXCEPT !.cmd = Coming.cmd, !.a = Coming.a,
                                     !.skip = IF Coming.cmd = "READ" /\ ~spi32 THEN 3 ELSE 0]
        BY <2>1, <2>2, <3>1 DEF Take
      <4>2. Take(Coming) = IF wip /\ Coming.cmd # "RDSR" THEN Busy
                            ELSE [Closed EXCEPT !.cmd = Coming.cmd, !.a = Coming.a,
                                     !.skip = IF Coming.cmd = "READ" /\ ~spi32 THEN 3 ELSE 0]
        BY <3>1 DEF Take
      <4>3. QED
        BY <3>1, <4>1, <4>2 DEF Busy, Closed
    <3>2. CASE session.cmd # "none"
      <4>1. Take(Coming)' = Take(Coming)
        BY <2>1, <2>2, <3>2 DEF Take
      <4>2. QED
        BY <1>0, <3>2, <4>1, Taken
    <3>3. CASE Idle /\ session.cmd = "none"
      BY <3>3 DEF Take, Busy, Closed
    <3>4. QED
      BY <3>1, <3>2, <3>3
  <2>6. /\ Idle => Settled' = Settled
        /\ ~Idle => Settled = Take(Coming) /\ Settled' = Take(Coming)'
    BY <2>1, <2>2 DEF Settled
  <2>7. QED
    BY <1>0, <2>1, <2>2, <2>3, <2>4, <2>5, <2>6
<1>4. CASE UNCHANGED spivars
  <2>1. /\ UNCHANGED <<spi32, pump, spics, tx, rx, state, out, session>>
        /\ UNCHANGED <<flash, goal, wel, wip, ops, call, buf, was>>
    BY <1>4 DEF spivars
  <2>2. (Idle' <=> Idle) /\ Coming' = Coming
    BY <2>1 DEF Idle, Coming
  <2>3. Take(Coming)' = Take(Coming) /\ Answer(Coming)' = Answer(Coming)
    BY <2>1, <2>2 DEF Take, Answer
  <2>4. Settled' = Settled /\ Held' = Held
    BY <2>1, <2>2, <2>3 DEF Settled, Held
  <2>5. FlashTypes'
    BY <2>1 DEF FlashTypes
  <2>6. Outside => Outside'
    BY <2>1, <2>2 DEF Outside
  <2>7. QED
    BY <1>0, <2>1, <2>2, <2>4, <2>5, <2>6
<1>5. QED
  BY <1>1, <1>2, <1>3, <1>4 DEF Meanwhile

(* The session, the answer and the flash are as before.                    *)
Still == UNCHANGED <<spi32, tx, rx, state, out, session, flash, goal, wel, wip, call, buf>>

(* The flash is selected.                                                  *)
LEMMA SelectEffect ==
  ASSUME FlashTypes, SpiProgram, NEW y \in FlashAccess, NEW s \in Rest,
         ops = Then(Op("select"), Then(y, s))
  PROVE  /\ ops' = Then(y, s) /\ ~spics' /\ pump' /\ Still /\ FlashTypes'
         /\ was'.flash = was.flash
         /\ was'.rest <=> /\ was.rest /\ Idle
                          /\ wip => y \in {Tx(Unit("RDSR", 0)), Op("deselect")}
<1>1. /\ Then(y, s) \in Rest /\ Op("select") \in FlashAccess /\ Op("select").op = "select"
  BY Leading, FlashAccesses
<1>2. ops # <<>> /\ Head(ops) = Op("select") /\ Tail(ops) = Then(y, s) /\ ops[2] = y
  BY <1>1, Leading, Second
<1>3. Select
  BY <1>1, <1>2 DEF SpiProgram, Deselect, Write, Ready, Loop
<1>4. /\ ops' = Then(y, s) /\ spics' = FALSE /\ pump' = TRUE /\ Still
      /\ was' = [was EXCEPT !.rest = @ /\ state = "S_IDLE"
                                 /\ (wip => ops[2] \in {[op |-> "tx", unit |-> Unit("RDSR", 0)],
                                                        Op("deselect")})]
  BY <1>2, <1>3 DEF Select, Still
<1>5. was \in [flash : [Addr -> Word], rest : BOOLEAN]
  BY DEF FlashTypes
<1>6. /\ was'.flash = was.flash
      /\ was'.rest <=> /\ was.rest /\ Idle
                       /\ wip => y \in {Tx(Unit("RDSR", 0)), Op("deselect")}
      /\ was' \in [flash : [Addr -> Word], rest : BOOLEAN]
  BY <1>2, <1>4, <1>5 DEF Idle, Tx
<1>7. FlashTypes'
  BY <1>4, <1>6 DEF FlashTypes, Still
<1>8. QED
  BY <1>4, <1>6, <1>7

(* It is selected no more, which ends the session, unless a transfer is    *)
(* under way.                                                              *)
LEMMA DeselectEffect ==
  ASSUME FlashTypes, SpiProgram, NEW s \in Rest, ops = Then(Op("deselect"), s)
  PROVE  /\ ops' = s /\ spics' /\ ~pump' /\ FlashTypes'
         /\ UNCHANGED <<spi32, tx, rx, state, out, flash, call, buf, was>>
         /\ Idle => Rise(session) /\ session' = Closed
         /\ ~Idle \/ session.cmd \notin {"WREN", "SE", "PP"} => UNCHANGED <<goal, wel, wip>>
         /\ ~Idle => session' = session
<1>1. Op("deselect") \in FlashAccess /\ Op("deselect").op = "deselect"
  BY FlashAccesses
<1>2. ops # <<>> /\ Head(ops) = Op("deselect") /\ Tail(ops) = s
  BY <1>1, Leading
<1>3. Deselect
  BY <1>1, <1>2 DEF SpiProgram, Select, Write, Ready, Loop
<1>4. /\ ops' = s /\ spics' = TRUE /\ pump' = FALSE
      /\ UNCHANGED <<spi32, tx, rx, state, out, flash, call, buf, was>>
      /\ IF Idle THEN Rise(session) ELSE UNCHANGED <<session, goal, wel, wip>>
  BY <1>2, <1>3 DEF Deselect, Idle
<1>5. session \in Sessions
  BY DEF FlashTypes, Sessions
<1>6. /\ Idle => session' = Closed /\ wel' \in BOOLEAN /\ wip' \in BOOLEAN
                 /\ goal' \in [Addr -> Word] /\ (~wip' => ~wip /\ goal' = goal)
      /\ ~Idle \/ session.cmd \notin {"WREN", "SE", "PP"} => UNCHANGED <<goal, wel, wip>>
  BY <1>4, <1>5, Risen
<1>7. Closed \in Sessions /\ Closed.fill = <<>>
  BY Sizes32 DEF Closed, Sessions
<1>8. ~wip' => flash' = goal'
  BY <1>4, <1>6 DEF FlashTypes
<1>9. FlashTypes'
  <2>1. CASE Idle
    BY <1>4, <1>6, <1>7, <1>8, <2>1 DEF FlashTypes, Sessions
  <2>2. CASE ~Idle
    BY <1>4, <1>8, <2>2 DEF FlashTypes
  <2>3. QED
    BY <2>1, <2>2
<1>10. QED
  BY <1>4, <1>6, <1>9

(* A unit is sent, if the controller is idle.                              *)
LEMMA TxEffect ==
  ASSUME FlashTypes, SpiProgram, NEW u \in FlashUnit, NEW s \in Rest, ops = Then(Tx(u), s), pump,
         Idle /\ session.cmd = "none" => u.a \in Addr
  PROVE  /\ ops' = s /\ FlashTypes'
         /\ UNCHANGED <<spi32, pump, spics, rx, out, session, flash, goal, wel, wip, call, buf, was>>
         /\ ~Idle'
         /\ Idle => Coming' = u /\ Settled' = Take(u) /\ Held' = Answer(u)
         /\ Idle /\ session.cmd = "none" => Settled'.cmd \in {u.cmd, "busy"}
         /\ session.cmd # "none" => Settled'.cmd = session.cmd
<1>1. Tx(u) \in FlashAccess /\ Tx(u).op = "tx" /\ Tx(u).unit = u
  BY FlashAccesses
<1>2. ops # <<>> /\ Head(ops) = Tx(u) /\ Tail(ops) = s
  BY <1>1, Leading
<1>3. Write
  BY <1>1, <1>2 DEF SpiProgram, Select, Deselect, Ready, Loop
<1>4. /\ ops' = s /\ tx' = u
      /\ UNCHANGED <<spi32, pump, spics, rx, out, session, flash, goal, wel, wip, call, buf, was>>
      /\ state' = IF Idle THEN "S_SETUP" ELSE state
  BY <1>1, <1>2, <1>3 DEF Write, Start, Idle
<1>5. FlashTypes'
  BY <1>4 DEF FlashTypes, Idle
<1>6. ~Idle' /\ (Idle => Coming' = u) /\ Coming' \in FlashUnit
  BY <1>4, <1>5 DEF Idle, Coming, FlashTypes
<1>7. Settled' = Take(Coming') /\ Held' = Answer(Coming')
  <2>1. Settled' = Take(Coming)' /\ Held' = Answer(Coming)'
    BY <1>6 DEF Settled, Held
  <2>2. Take(Coming)' = Take(Coming') /\ Answer(Coming)' = Answer(Coming')
    BY <1>4 DEF Take, Answer
  <2>3. QED
    BY <2>1, <2>2
<1>8. session.cmd # "none" => Take(Coming').cmd = session.cmd
  BY <1>6, Taken
<1>9. Idle /\ session.cmd = "none" =>
        Take(u).cmd = IF wip /\ u.cmd # "RDSR" THEN "busy" ELSE u.cmd
  BY Taken
<1>10. QED
  BY <1>4, <1>5, <1>6, <1>7, <1>8, <1>9

(* The program waits for the controller.                                   *)
LEMMA PauseEffect ==
  ASSUME FlashTypes, SpiProgram, NEW s \in Rest, ops = Then(Op("wait"), s)
  PROVE  /\ ops' = s /\ Idle /\ FlashTypes'
         /\ Still /\ UNCHANGED <<pump, spics, was>>
<1>1. Op("wait") \in FlashAccess /\ Op("wait").op = "wait"
  BY FlashAccesses
<1>2. ops # <<>> /\ Head(ops) = Op("wait") /\ Tail(ops) = s
  BY <1>1, Leading
<1>3. Ready
  BY <1>1, <1>2 DEF SpiProgram, Select, Deselect, Write, Loop
<1>4. /\ ops' = s /\ Idle /\ Still /\ UNCHANGED <<pump, spics, was>>
  BY <1>1, <1>2, <1>3 DEF Ready, Idle, Still
<1>5. FlashTypes'
  BY <1>4 DEF FlashTypes, Still
<1>6. QED
  BY <1>4, <1>5

(* It reads what was shifted in, or leaves it, and the access begins       *)
(* another transfer if the controller is to begin one.                     *)
LEMMA InEffect ==
  ASSUME FlashTypes, SpiProgram, NEW o \in {"rx", "read"}, NEW s \in Rest, ops = Then(Op(o), s)
  PROVE  /\ ops' = s /\ Idle /\ FlashTypes'
         /\ UNCHANGED <<spi32, pump, spics, tx, rx, out, session, flash, goal, wel, wip, call, was>>
         /\ buf' = IF o = "read" THEN Append(buf, rx) ELSE buf
         /\ ~pump => Idle'
         /\ pump => /\ ~Idle' /\ Coming' = tx /\ Settled' = Take(tx) /\ Held' = Answer(tx)
<1>1. Op(o) \in FlashAccess /\ Op(o).op = o
  BY FlashAccesses
<1>2. ops # <<>> /\ Head(ops) = Op(o) /\ Tail(ops) = s
  BY <1>1, Leading
<1>3. Ready
  BY <1>1, <1>2 DEF SpiProgram, Select, Deselect, Write, Loop
<1>4. /\ ops' = s /\ Idle
      /\ UNCHANGED <<spi32, pump, spics, tx, rx, out, session, flash, goal, wel, wip, call, was>>
      /\ buf' = IF o = "read" THEN Append(buf, rx) ELSE buf
      /\ state' = IF pump THEN "S_SETUP" ELSE state
  BY <1>1, <1>2, <1>3 DEF Ready, Start, Idle
<1>5. FlashTypes'
  <2>1. buf' \in Seq(Heard)
    BY <1>4 DEF FlashTypes
  <2>2. QED
    BY <1>4, <2>1 DEF FlashTypes, Idle
<1>6. (~pump => Idle') /\ (pump => ~Idle' /\ Coming' = tx)
  BY <1>4 DEF Idle, Coming
<1>7. pump => Settled' = Take(tx) /\ Held' = Answer(tx)
  <2>1. pump => Settled' = Take(Coming)' /\ Held' = Answer(Coming)'
    BY <1>6 DEF Settled, Held
  <2>2. pump => Take(Coming)' = Take(tx) /\ Answer(Coming)' = Answer(tx)
    BY <1>4, <1>6 DEF Take, Answer
  <2>3. QED
    BY <2>1, <2>2
<1>8. QED
  BY <1>4, <1>5, <1>6, <1>7

(* It looks at a bit of the status, and asks again while it is set.        *)
LEMMA TestEffect ==
  ASSUME FlashTypes, SpiProgram, NEW bit \in {"wip", "wel"}, NEW s \in Rest,
         ops = Then(Test(bit), s), ~pump
  PROVE  /\ ops' = IF bit \in rx[2] THEN Polled(bit, s) ELSE s
         /\ FlashTypes' /\ Still /\ UNCHANGED <<pump, spics, was>>
<1>1. Test(bit) \in FlashAccess /\ Test(bit).op = "test" /\ Test(bit).bit = bit
  BY FlashAccesses
<1>2. ops # <<>> /\ Head(ops) = Test(bit) /\ Tail(ops) = s
  BY <1>1, Leading
<1>3. Ready
  BY <1>1, <1>2 DEF SpiProgram, Select, Deselect, Write, Loop
<1>4. /\ ops' = IF bit \in rx[2] THEN pollstatus(bit) \o s ELSE s
      /\ Still /\ UNCHANGED <<pump, spics, was>>
  BY <1>1, <1>2, <1>3 DEF Ready, Start, Still
<1>5. pollstatus(bit) \o s = Polled(bit, s)
  BY PollLine DEF Cat
<1>6. FlashTypes'
  BY <1>4 DEF FlashTypes, Still
<1>7. QED
  BY <1>4, <1>5, <1>6

(* The next block.                                                         *)
LEMMA LoopEffect ==
  ASSUME FlashTypes, SpiProgram, NEW a \in Addr, NEW f \in Nat, NEW n \in Nat, NEW s \in Rest,
         ops = Then(Next32(a, f, n), s)
  PROVE  /\ ops' = write32(a, f, n)
         /\ FlashTypes' /\ Still /\ UNCHANGED <<pump, spics, was>>
<1>1. /\ Next32(a, f, n) \in FlashAccess /\ Next32(a, f, n).op = "next" /\ Next32(a, f, n).a = a
      /\ Next32(a, f, n).from = f /\ Next32(a, f, n).n = n
  BY DEF Next32, FlashAccess
<1>2. ops # <<>> /\ Head(ops) = Next32(a, f, n) /\ Tail(ops) = s
  BY <1>1, Leading
<1>3. Loop
  BY <1>1, <1>2 DEF SpiProgram, Select, Deselect, Write, Ready
<1>4. ops' = write32(a, f, n) /\ Still /\ UNCHANGED <<pump, spics, was>>
  BY <1>1, <1>2, <1>3 DEF Loop, Still
<1>5. FlashTypes'
  BY <1>4 DEF FlashTypes, Still
<1>6. QED
  BY <1>4, <1>5

(* A call that has returned makes no access.                               *)
LEMMA NoAccess == SpiProgram => ops # <<>>
  BY DEF SpiProgram, Select, Deselect, Write, Ready, Loop

(* What a phase of a transfer or of a programming cycle leaves true.       *)
LEMMA CoreHolds ==
  ASSUME FlashTypes, Reach, spics => Outside, Meanwhile
  PROVE  /\ Chosen => Chosen'
         /\ Ready32 => Ready32'
         /\ \A c \in FlashCmd, a \in Nat : Open(Unit(c, a)) => Open(Unit(c, a))'
         /\ (Kept => Kept') /\ (Changed => Changed')
         /\ \A bit \in {"wip", "wel"} :
              /\ Clear(bit) => Clear(bit)'
              /\ Idle /\ Told(bit) => Told(bit)'
              /\ Answered(bit) => Answered(bit)'
              /\ ~spics /\ (Asked \/ Answered(bit)) => Asked' \/ Answered(bit)'
<1>1. /\ UNCHANGED <<spi32, pump, spics, ops, call, buf, was, goal>>
      /\ FlashTypes'
      /\ Idle => Idle' /\ session' = session /\ rx' = rx
      /\ ~wip => wip' = wip /\ wel' = wel
      /\ (wip' => wip) /\ (wel' => wel)
      /\ session.cmd # "none" /\ ~spics => session'.cmd = session.cmd
      /\ ~spics => \/ Settled'.cmd = Settled.cmd
                   \/ session.cmd = "none" /\ ~Idle /\ Settled'.cmd \in {"busy", Coming.cmd}
      /\ ~Idle' => ~Idle /\ Coming' = Coming /\ session' = session
      /\ ~Idle /\ Idle' /\ ~spics => /\ rx' = Answer(Coming) /\ session' = Take(Coming)
                                     /\ wip' = wip /\ wel' = wel
  BY CoreKeeps
<1>2. Chosen => Chosen'
  BY <1>1 DEF Chosen
<1>3. Ready32 => Ready32'
  BY <1>1 DEF Ready32
<1>4. ASSUME NEW c \in FlashCmd, NEW a \in Nat, Open(Unit(c, a)) PROVE Open(Unit(c, a))'
  <2>1. Unit(c, a).cmd = c
    BY DEF Unit
  <2>2. /\ ~spics /\ pump /\ Settled.cmd \in {c, "READ", "busy"}
        /\ ~Idle /\ session.cmd = "none" => Coming = Unit(c, a)
    BY <1>4, <2>1 DEF Open
  <2>3. Settled'.cmd \in {c, "READ", "busy"}
    BY <1>1, <2>1, <2>2
  <2>4. QED
    BY <1>1, <2>1, <2>2, <2>3 DEF Open
<1>5. (Kept => Kept') /\ (Changed => Changed')
  BY <1>1 DEF Kept, Changed, Fits, Written
<1>6. ASSUME NEW bit \in {"wip", "wel"}
      PROVE  /\ Clear(bit) => Clear(bit)'
             /\ Idle /\ Told(bit) => Told(bit)'
             /\ Answered(bit) => Answered(bit)'
             /\ ~spics /\ (Asked \/ Answered(bit)) => Asked' \/ Answered(bit)'
  <2>1. Clear(bit) => Clear(bit)'
    BY <1>1 DEF Clear
  <2>2. Idle /\ Told(bit) => Told(bit)'
    BY <1>1, <2>1 DEF Told
  <2>3. Answered(bit) => Answered(bit)'
    BY <1>1, <2>2 DEF Answered
  <2>4. ASSUME ~spics, Asked PROVE Asked' \/ Answered(bit)'
    <3>1. CASE ~Idle'
      BY <1>1, <2>4, <3>1 DEF Asked
    <3>2. CASE Idle'
      <4>1. /\ session = Closed /\ Coming = Unit("RDSR", 0)
            /\ rx' = Answer(Coming) /\ session' = Take(Coming) /\ wip' = wip /\ wel' = wel
        BY <1>1, <2>4, <3>2 DEF Asked
      <4>2. Coming \in FlashUnit /\ Coming.cmd = "RDSR" /\ Coming.a = 0
        BY <4>1, FlashAccesses
      <4>3. session' = Opened("RDSR", 0, 0, <<>>)
        BY <4>1, <4>2, TakenFrom
      <4>4. rx' = <<"status", (IF wip THEN {"wip"} ELSE {}) \cup (IF wel THEN {"wel"} ELSE {})>>
        BY <4>1, <4>2 DEF Answer, Closed
      <4>5. rx'[2] = (IF wip THEN {"wip"} ELSE {}) \cup (IF wel THEN {"wel"} ELSE {})
        BY <4>4
      <4>6. Told(bit)'
        BY <4>1, <4>5 DEF Told, Clear
      <4>7. QED
        BY <3>2, <4>3, <4>6 DEF Answered
    <3>3. QED
      BY <3>1, <3>2
  <2>5. QED
    BY <2>1, <2>2, <2>3, <2>4
<1>7. QED
  BY <1>2, <1>3, <1>4, <1>5, <1>6

(* A phase of a transfer or of a programming cycle, in an update.          *)
LEMMA EnablingCore ==
  ASSUME FlashTypes, Reach, spics => Outside, Meanwhile,
         NEW c, NEW a, NEW d, FlashEnabling(c, a, d)
  PROVE  FlashEnabling(c, a, d)'
<1> DEFINE u == Unit(c, a)
           w == Unit("WREN", 0)
           q == Then(Op("deselect"), Sending32(c, a, d))
<1>1. /\ ops' = ops /\ was' = was /\ (Outside => Outside') /\ (Idle => Idle')
      /\ ~wip => wip' = wip /\ wel' = wel
      /\ ~spics /\ ~wip => Settled' = Settled
  BY CoreKeeps
<1>2. (Chosen => Chosen') /\ (Ready32 => Ready32') /\ (Kept => Kept')
      /\ (Open(w) => Open(w)')
  <2>1. "WREN" \in FlashCmd /\ 0 \in Nat
    BY DEF FlashCmd
  <2>2. QED
    BY <2>1, CoreHolds
<1>3. Open(w) => ~spics
  BY DEF Open
<1> DEFINE p1 == Enabled32(c, a, d)
           p2 == Then(Tx(w), Then(Op("wait"), q))
           p3 == Then(Op("wait"), q)
           p5 == Sending32(c, a, d)
           p6 == Then(Tx(u), Then(Op("wait"), d))
<1>4. FlashEnabling(c, a, d) <=>
        \/ ops = p1 /\ Outside /\ (was.rest => Kept)
        \/ ops = p2 /\ Chosen /\ (was.rest => Kept)
        \/ /\ ops = p3 \/ (ops = q /\ Idle)
           /\ Open(w)
           /\ was.rest => ~wip /\ Settled = Opened("WREN", 0, 0, <<>>) /\ Kept
        \/ /\ \/ ops = p5 /\ Outside /\ Idle
              \/ ops = p6 /\ Ready32
           /\ was.rest => ~wip /\ wel /\ Kept
  BY DEF FlashEnabling
<1>5. FlashEnabling(c, a, d)' <=>
        \/ ops' = p1 /\ Outside' /\ (was'.rest => Kept')
        \/ ops' = p2 /\ Chosen' /\ (was'.rest => Kept')
        \/ /\ ops' = p3 \/ (ops' = q /\ Idle')
           /\ Open(w)'
           /\ was'.rest => ~wip' /\ Settled' = Opened("WREN", 0, 0, <<>>) /\ Kept'
        \/ /\ \/ ops' = p5 /\ Outside' /\ Idle'
              \/ ops' = p6 /\ Ready32'
           /\ was'.rest => ~wip' /\ wel' /\ Kept'
  BY DEF FlashEnabling
<1> HIDE DEF p1, p2, p3, p5, p6, q, w, u
<1>6. QED
  BY <1>1, <1>2, <1>3, <1>4, <1>5

(* Likewise while the command and its words are sent,                      *)
LEMMA SendingCore ==
  ASSUME FlashTypes, Reach, spics => Outside, Meanwhile,
         NEW c \in FlashCmd, NEW a \in Nat, NEW f, NEW j, NEW d, FlashSending(c, a, f, j, d)
  PROVE  FlashSending(c, a, f, j, d)'
<1> DEFINE u == Unit(c, a)
           p == Then(Op("wait"), d)
           s == Opened(c, a, 0, [i \in 1 .. j |-> f + i])
<1>1. /\ ops' = ops /\ was' = was /\ (Idle => Idle')
      /\ ~wip => wip' = wip /\ wel' = wel
      /\ ~spics /\ ~wip => Settled' = Settled
  BY CoreKeeps
<1>2. (Kept => Kept') /\ (Open(u) => Open(u)')
  BY CoreHolds
<1>3. Open(u) => ~spics
  BY DEF Open
<1>4. /\ ops = p \/ (ops = d /\ Idle)
      /\ Open(u)
      /\ was.rest => ~wip /\ wel /\ Kept /\ Settled = s
  BY DEF FlashSending
<1>5. FlashSending(c, a, f, j, d)' <=>
        /\ ops' = p \/ (ops' = d /\ Idle')
        /\ Open(u)'
        /\ was'.rest => ~wip' /\ wel' /\ Kept' /\ Settled' = s
  BY DEF FlashSending
<1> HIDE DEF p, s, u
<1>6. QED
  BY <1>1, <1>2, <1>3, <1>4, <1>5

(* while the status is asked for,                                          *)
LEMMA PollingCore ==
  ASSUME FlashTypes, Reach, spics => Outside, Meanwhile,
         NEW bit \in {"wip", "wel"}, NEW r
  PROVE  /\ FlashPolling(bit, r) => FlashPolling(bit, r)'
         /\ FlashPolled(bit, r) => FlashPolled(bit, r)'
         /\ \A c, m : Effective(c, m) => Effective(c, m)'
<1> DEFINE t == Then(Op("deselect"), Then(Test(bit), r))
           p1 == Polled(bit, r)
           p2 == Then(Tx(Unit("RDSR", 0)), Then(Op("wait"), t))
           p3 == Then(Op("wait"), t)
           p5 == Then(Test(bit), r)
<1>1. /\ ops' = ops /\ was' = was /\ spics' = spics /\ pump' = pump
      /\ (Idle => Idle') /\ (Outside => Outside')
      /\ (wip \/ ~wel => wip' \/ ~wel')
  BY CoreKeeps
<1>2. /\ (Ready32 => Ready32') /\ (Changed => Changed')
      /\ Clear(bit) => Clear(bit)'
      /\ Idle /\ Told(bit) => Told(bit)'
      /\ Answered(bit) => Answered(bit)'
      /\ ~spics /\ (Asked \/ Answered(bit)) => Asked' \/ Answered(bit)'
  BY CoreHolds
<1>3. FlashPolling(bit, r) <=>
        \/ ops = p1 /\ Outside /\ Idle
        \/ ops = p2 /\ Ready32
        \/ ops = p3 /\ ~spics /\ pump /\ (Asked \/ Answered(bit))
        \/ ops = t /\ ~spics /\ pump /\ Answered(bit)
        \/ ops = p5 /\ Outside /\ Idle /\ ~pump /\ Told(bit)
  BY DEF FlashPolling
<1>4. FlashPolling(bit, r)' <=>
        \/ ops' = p1 /\ Outside' /\ Idle'
        \/ ops' = p2 /\ Ready32'
        \/ ops' = p3 /\ ~spics' /\ pump' /\ (Asked' \/ Answered(bit)')
        \/ ops' = t /\ ~spics' /\ pump' /\ Answered(bit)'
        \/ ops' = p5 /\ Outside' /\ Idle' /\ ~pump' /\ Told(bit)'
  BY DEF FlashPolling
<1> HIDE DEF p1, p2, p3, p5, t
<1>5. FlashPolled(bit, r) => FlashPolled(bit, r)'
  BY <1>1, <1>2 DEF FlashPolled
<1>6. \A c, m : Effective(c, m) => Effective(c, m)'
  BY <1>1, <1>2 DEF Effective
<1>7. QED
  BY <1>1, <1>2, <1>3, <1>4, <1>5, <1>6

(* and so in any place of an update.                                       *)
LEMMA UpdatingCore ==
  ASSUME FlashTypes, Reach, spics => Outside, Meanwhile,
         NEW c \in FlashCmd, NEW a \in Nat, NEW f, NEW m, NEW bit \in {"wip", "wel"}, NEW r,
         FlashUpdating(c, a, f, m, bit, r)
  PROVE  FlashUpdating(c, a, f, m, bit, r)'
<1>1. CASE FlashEnabling(c, a, Unsent(f, m, bit, r, 0))
  <2>1. FlashEnabling(c, a, Unsent(f, m, bit, r, 0))'
    BY <1>1, EnablingCore
  <2>2. QED
    BY <2>1 DEF FlashUpdating
<1>2. ASSUME NEW j \in 0 .. m, FlashSending(c, a, f, j, Unsent(f, m, bit, r, j))
      PROVE  FlashUpdating(c, a, f, m, bit, r)'
  <2>1. FlashSending(c, a, f, j, Unsent(f, m, bit, r, j))'
    BY <1>2, SendingCore
  <2>2. QED
    BY <2>1 DEF FlashUpdating
<1>3. CASE (FlashPolling(bit, r) \/ FlashPolled(bit, r)) /\ Effective(c, m)
  <2>1. (FlashPolling(bit, r)' \/ FlashPolled(bit, r)') /\ Effective(c, m)'
    BY <1>3, PollingCore
  <2>2. QED
    BY <2>1 DEF FlashUpdating
<1>4. QED
  BY <1>1, <1>2, <1>3 DEF FlashUpdating

(* What the program's accesses make of an update.                          *)
LEMMA EnablingStep ==
  ASSUME FlashTypes, SpiProgram, NEW c \in {"SE", "PP"}, NEW a \in Addr, NEW d \in Rest,
         FlashEnabling(c, a, d), NEW f
  PROVE  /\ FlashTypes' /\ UNCHANGED <<spi32, call, buf>>
         /\ FlashEnabling(c, a, d)' \/ FlashSending(c, a, f, 0, d)'
<1> DEFINE u == Unit(c, a)
           w == Unit("WREN", 0)
           e == Sending32(c, a, d)
           q == Then(Op("deselect"), e)
           W == Then(Op("wait"), q)
           X == Then(Op("wait"), d)
           s == Opened("WREN", 0, 0, <<>>)
<1>1. /\ c \in FlashCmd /\ "WREN" \in FlashCmd /\ a \in Nat /\ 0 \in Nat
      /\ u \in FlashUnit /\ w \in FlashUnit /\ u.cmd = c /\ u.a = a /\ w.cmd = "WREN" /\ w.a = 0
      /\ Tx(u) \in FlashAccess /\ Tx(w) \in FlashAccess
  <2>1. c \in FlashCmd /\ "WREN" \in FlashCmd /\ a \in Nat /\ 0 \in Nat
    BY Sizes32 DEF FlashCmd
  <2>2. /\ u \in FlashUnit /\ u.cmd = c /\ u.a = a
        /\ w \in FlashUnit /\ w.cmd = "WREN" /\ w.a = 0
    BY <2>1, FlashAccesses DEF FlashCmd
  <2>3. QED
    BY <2>1, <2>2, FlashAccesses
<1>2. /\ e \in Rest /\ q \in Rest /\ W \in Rest /\ X \in Rest
  <2>1. e \in Rest
    BY <1>1, Pieces
  <2>2. q \in Rest
    BY <2>1, Pieces
  <2>3. QED
    BY <2>1, <2>2, Pieces
<1>3. FlashEnabling(c, a, d) <=>
        \/ ops = Then(Op("select"), Then(Tx(w), W)) /\ Outside /\ (was.rest => Kept)
        \/ ops = Then(Tx(w), W) /\ Chosen /\ (was.rest => Kept)
        \/ /\ ops = W \/ (ops = q /\ Idle)
           /\ Open(w)
           /\ was.rest => ~wip /\ Settled = s /\ Kept
        \/ /\ \/ ops = e /\ Outside /\ Idle
              \/ ops = Then(Tx(u), X) /\ Ready32
           /\ was.rest => ~wip /\ wel /\ Kept
  BY DEF FlashEnabling, Enabled32, Sending32
<1>4. FlashEnabling(c, a, d)' <=>
        \/ ops' = Then(Op("select"), Then(Tx(w), W)) /\ Outside' /\ (was'.rest => Kept')
        \/ ops' = Then(Tx(w), W) /\ Chosen' /\ (was'.rest => Kept')
        \/ /\ ops' = W \/ (ops' = q /\ Idle')
           /\ Open(w)'
           /\ was'.rest => ~wip' /\ Settled' = s /\ Kept'
        \/ /\ \/ ops' = e /\ Outside' /\ Idle'
              \/ ops' = Then(Tx(u), X) /\ Ready32'
           /\ was'.rest => ~wip' /\ wel' /\ Kept'
  BY DEF FlashEnabling, Enabled32, Sending32
<1>5. FlashSending(c, a, f, 0, d)' <=>
        /\ ops' = X \/ (ops' = d /\ Idle')
        /\ Open(u)'
        /\ was'.rest => /\ ~wip' /\ wel' /\ Kept'
                        /\ Settled' = Opened(c, a, 0, [i \in 1 .. 0 |-> f + i])
  BY DEF FlashSending
<1>6. e = Then(Op("select"), Then(Tx(u), X))
  BY DEF Sending32
<1>7. [i \in 1 .. 0 |-> f + i] = <<>>
  OBVIOUS
<1>8. wel \in BOOLEAN /\ wip \in BOOLEAN /\ was.rest \in BOOLEAN
  BY DEF FlashTypes
<1>9. Closed.cmd = "none" /\ w.cmd # "READ" /\ u.cmd # "READ" /\ u.cmd # "RDSR" /\ w.cmd # "RDSR"
      /\ w # Unit("RDSR", 0) /\ Tx(w) # Tx(Unit("RDSR", 0)) /\ Tx(w) # Op("deselect")
      /\ u # Unit("RDSR", 0) /\ Tx(u) # Tx(Unit("RDSR", 0)) /\ Tx(u) # Op("deselect")
  <2>1. Unit("RDSR", 0).cmd = "RDSR" /\ \A v : Tx(v).unit = v /\ Tx(v).op = "tx"
        /\ Op("deselect").op = "deselect" /\ Closed.cmd = "none"
    BY DEF Unit, Tx, Op, Closed
  <2>2. QED
    BY <1>1, <2>1
<1> HIDE DEF u, w, e, q, W, X, s
<1>10. CASE ops = Then(Op("select"), Then(Tx(w), W)) /\ Outside /\ (was.rest => Kept)
  <2>1. /\ ops' = Then(Tx(w), W) /\ ~spics' /\ pump' /\ Still /\ FlashTypes'
        /\ was'.flash = was.flash /\ (was'.rest <=> was.rest /\ Idle /\ ~wip)
    BY <1>1, <1>2, <1>9, <1>10, SelectEffect
  <2>2. Kept => Kept'
    BY <2>1 DEF Still, Kept
  <2>3. Chosen'
    BY <1>9, <1>10, <2>1 DEF Chosen, Outside, Still, Idle
  <2>4. QED
    BY <1>4, <1>10, <2>1, <2>2, <2>3 DEF Still
<1>11. CASE ops = Then(Tx(w), W) /\ Chosen /\ (was.rest => Kept)
  <2>1. /\ ops' = W /\ FlashTypes'
        /\ UNCHANGED <<spi32, pump, spics, rx, out, session, flash, goal, wel, wip, call, buf, was>>
        /\ ~Idle'
        /\ Idle => Coming' = w /\ Settled' = Take(w)
        /\ Idle /\ session.cmd = "none" => Settled'.cmd \in {w.cmd, "busy"}
        /\ session.cmd # "none" => Settled'.cmd = session.cmd
    <3>1. 0 \in Addr /\ pump
      BY <1>11, Sizes32 DEF Chosen
    <3>2. QED
      BY <1>1, <1>2, <1>11, <3>1, TxEffect
  <2>2. was.rest => Settled' = s
    <3>1. was.rest => Idle /\ session = Closed /\ ~wip
      BY <1>11 DEF Chosen
    <3>2. was.rest => Take(w) = s
      BY <1>1, <1>9, <3>1, TakenFrom DEF s
    <3>3. QED
      BY <2>1, <3>1, <3>2
  <2>3. Open(w)'
    BY <1>1, <1>11, <2>1 DEF Open, Chosen
  <2>4. Kept => Kept'
    BY <2>1 DEF Kept
  <2>5. was.rest => ~wip'
    BY <1>11, <2>1 DEF Chosen
  <2>6. QED
    BY <1>4, <1>11, <2>1, <2>2, <2>3, <2>4, <2>5
<1>12. CASE ops = W /\ Open(w) /\ (was.rest => ~wip /\ Settled = s /\ Kept)
  <2>1. ops' = q /\ Idle /\ FlashTypes' /\ Still /\ UNCHANGED <<pump, spics, was>>
    BY <1>2, <1>12, PauseEffect DEF W
  <2>2. /\ Idle' /\ Settled' = session' /\ Settled = session
    BY <2>1 DEF Still, Idle, Settled
  <2>3. Open(w)' /\ (Kept => Kept')
    BY <1>12, <2>1, <2>2 DEF Still, Open, Kept
  <2>4. QED
    BY <1>4, <1>12, <2>1, <2>2, <2>3 DEF Still
<1>13. CASE ops = q /\ Idle /\ Open(w) /\ (was.rest => ~wip /\ Settled = s /\ Kept)
  <2>1. /\ ops' = e /\ spics' /\ ~pump' /\ FlashTypes'
        /\ UNCHANGED <<spi32, tx, rx, state, out, call, buf, was>>
        /\ Rise(session) /\ session' = Closed
    BY <1>2, <1>13, DeselectEffect DEF q
  <2>2. Outside' /\ Idle'
    BY <1>13, <2>1 DEF Outside, Idle
  <2>3. was.rest => ~wip' /\ wel' /\ goal' = goal
    <3>1. was.rest => session = Opened("WREN", 0, 0, <<>>) /\ ~wip
      BY <1>13 DEF Settled, s
    <3>2. was.rest => session.cmd = "WREN"
      BY <3>1 DEF Opened
    <3>3. QED
      BY <2>1, <3>1, <3>2 DEF Rise
  <2>4. was.rest => Kept'
    BY <1>13, <2>1, <2>3 DEF Kept
  <2>5. QED
    BY <1>4, <2>1, <2>2, <2>3, <2>4
<1>14. CASE ops = e /\ Outside /\ Idle /\ (was.rest => ~wip /\ wel /\ Kept)
  <2>1. /\ ops' = Then(Tx(u), X) /\ ~spics' /\ pump' /\ Still /\ FlashTypes'
        /\ was'.flash = was.flash /\ (was'.rest => was.rest)
    BY <1>1, <1>2, <1>6, <1>14, SelectEffect
  <2>2. Ready32' /\ (Kept => Kept')
    BY <1>14, <2>1 DEF Ready32, Outside, Still, Idle, Kept
  <2>3. QED
    BY <1>4, <1>14, <2>1, <2>2 DEF Still
<1>15. CASE ops = Then(Tx(u), X) /\ Ready32 /\ (was.rest => ~wip /\ wel /\ Kept)
  <2>1. /\ ops' = X /\ FlashTypes'
        /\ UNCHANGED <<spi32, pump, spics, rx, out, session, flash, goal, wel, wip, call, buf, was>>
        /\ ~Idle'
        /\ Idle => Coming' = u /\ Settled' = Take(u)
        /\ Idle /\ session.cmd = "none" => Settled'.cmd \in {u.cmd, "busy"}
    <3>1. a \in Addr /\ pump
      BY <1>15 DEF Ready32
    <3>2. QED
      BY <1>1, <1>2, <1>15, <3>1, TxEffect
  <2>2. was.rest => Settled' = Opened(c, a, 0, <<>>)
    BY <1>1, <1>9, <1>15, <2>1, TakenFrom DEF Ready32
  <2>3. Open(u)'
    BY <1>1, <1>9, <1>15, <2>1 DEF Open, Ready32
  <2>4. Kept => Kept'
    BY <2>1 DEF Kept
  <2>5. QED
    BY <1>5, <1>7, <1>15, <2>1, <2>2, <2>3, <2>4
<1>16. QED
  BY <1>3, <1>10, <1>11, <1>12, <1>13, <1>14, <1>15

(* What they make of the poll.                                             *)
LEMMA PollingStep ==
  ASSUME FlashTypes, SpiProgram, NEW bit \in {"wip", "wel"}, NEW r \in Rest, FlashPolling(bit, r),
         NEW c, NEW m, Effective(c, m)
  PROVE  /\ FlashTypes' /\ UNCHANGED <<spi32, call, buf>>
         /\ FlashPolling(bit, r)' \/ FlashPolled(bit, r)'
         /\ Effective(c, m)'
<1> DEFINE u == Unit("RDSR", 0)
           e == Then(Test(bit), r)
           t == Then(Op("deselect"), e)
           X == Then(Op("wait"), t)
           p == Polled(bit, r)
<1>1. u \in FlashUnit /\ Tx(u) \in FlashAccess /\ u.cmd = "RDSR" /\ u.a = 0 /\ 0 \in Addr
  BY FlashAccesses, Sizes32
<1>2. e \in Rest /\ t \in Rest /\ X \in Rest
  <2>1. e \in Rest
    BY Pieces
  <2>2. t \in Rest
    BY <2>1, Pieces
  <2>3. QED
    BY <2>1, <2>2, Pieces
<1>3. p = Then(Op("select"), Then(Tx(u), X))
  BY DEF Polled, Sending32
<1>4. FlashPolling(bit, r) <=>
        \/ ops = p /\ Outside /\ Idle
        \/ ops = Then(Tx(u), X) /\ Ready32
        \/ ops = X /\ ~spics /\ pump /\ (Asked \/ Answered(bit))
        \/ ops = t /\ ~spics /\ pump /\ Answered(bit)
        \/ ops = e /\ Outside /\ Idle /\ ~pump /\ Told(bit)
  BY DEF FlashPolling
<1>5. FlashPolling(bit, r)' <=>
        \/ ops' = p /\ Outside' /\ Idle'
        \/ ops' = Then(Tx(u), X) /\ Ready32'
        \/ ops' = X /\ ~spics' /\ pump' /\ (Asked' \/ Answered(bit)')
        \/ ops' = t /\ ~spics' /\ pump' /\ Answered(bit)'
        \/ ops' = e /\ Outside' /\ Idle' /\ ~pump' /\ Told(bit)'
  BY DEF FlashPolling
<1>6. ASSUME UNCHANGED <<goal, call, wip, wel>>, was'.flash = was.flash, was'.rest => was.rest
      PROVE  Effective(c, m)'
  BY <1>6 DEF Effective, Changed, Fits, Written
<1>7. /\ \A o : Asked <=> ~Idle /\ session = Closed /\ Coming = u
      /\ Asked' <=> ~Idle' /\ session' = Closed /\ Coming' = u
  BY DEF Asked
<1> HIDE DEF u, e, t, X, p
<1>8. CASE ops = p /\ Outside /\ Idle
  <2>1. /\ ops' = Then(Tx(u), X) /\ ~spics' /\ pump' /\ Still /\ FlashTypes'
        /\ was'.flash = was.flash /\ (was'.rest => was.rest)
    BY <1>1, <1>2, <1>3, <1>8, SelectEffect
  <2>2. Ready32'
    BY <1>8, <2>1 DEF Ready32, Outside, Still, Idle
  <2>3. QED
    BY <1>5, <1>6, <2>1, <2>2 DEF Still
<1>9. CASE ops = Then(Tx(u), X) /\ Ready32
  <2>1. pump /\ Idle /\ session = Closed /\ ~spics
    BY <1>9 DEF Ready32
  <2>2. /\ ops' = X /\ FlashTypes'
        /\ UNCHANGED <<spi32, pump, spics, rx, out, session, flash, goal, wel, wip, call, buf, was>>
        /\ ~Idle' /\ Coming' = u
    BY <1>1, <1>2, <1>9, <2>1, TxEffect
  <2>3. QED
    BY <1>5, <1>6, <1>7, <2>1, <2>2
<1>10. CASE ops = X /\ ~spics /\ pump /\ (Asked \/ Answered(bit))
  <2>1. ops' = t /\ Idle /\ FlashTypes' /\ Still /\ UNCHANGED <<pump, spics, was>>
    BY <1>2, <1>10, PauseEffect DEF X
  <2>2. Answered(bit)
    BY <1>7, <1>10, <2>1
  <2>3. Answered(bit)'
    BY <2>1, <2>2 DEF Answered, Idle, Told, Clear, Still
  <2>4. QED
    BY <1>5, <1>6, <1>10, <2>1, <2>3 DEF Still
<1>11. CASE ops = t /\ ~spics /\ pump /\ Answered(bit)
  <2>1. Idle /\ session = Opened("RDSR", 0, 0, <<>>) /\ Told(bit)
    BY <1>11 DEF Answered
  <2>2. session.cmd = "RDSR"
    BY <2>1 DEF Opened
  <2>3. /\ ops' = e /\ spics' /\ ~pump' /\ FlashTypes'
        /\ UNCHANGED <<spi32, tx, rx, state, out, call, buf, was, goal, wel, wip>>
        /\ session' = Closed
    <3>1. ops = Then(Op("deselect"), e)
      BY <1>11 DEF t
    <3>2. QED
      BY <1>2, <2>1, <2>2, <3>1, DeselectEffect
  <2>4. Outside' /\ Idle' /\ Told(bit)'
    BY <2>1, <2>3 DEF Outside, Idle, Told, Clear
  <2>5. QED
    BY <1>5, <1>6, <2>3, <2>4
<1>12. CASE ops = e /\ Outside /\ Idle /\ ~pump /\ Told(bit)
  <2>1. /\ ops' = IF bit \in rx[2] THEN p ELSE r
        /\ FlashTypes' /\ Still /\ UNCHANGED <<pump, spics, was>>
    BY <1>12, TestEffect DEF e, p
  <2>2. Outside' /\ Idle'
    BY <1>12, <2>1 DEF Outside, Idle, Still
  <2>3. bit \notin rx[2] => Clear(bit)'
    BY <1>12, <2>1 DEF Told, Clear, Still
  <2>4. FlashPolling(bit, r)' \/ FlashPolled(bit, r)'
    BY <1>5, <2>1, <2>2, <2>3 DEF FlashPolled
  <2>5. QED
    BY <1>6, <2>1, <2>4 DEF Still
<1>13. QED
  BY <1>4, <1>8, <1>9, <1>10, <1>11, <1>12

(* What an update is a part of.                                            *)
PartOf(c, a, f, m) ==
  \/ c = "SE" /\ call.op = "erase" /\ m = 0
  \/ /\ c = "PP" /\ call.op = "write" /\ call.a \in Addr /\ call.n \in Nat
     /\ call.n < pagesize => a = call.a /\ f = 0 /\ m = call.n

(* The end of a command has its effect.                                    *)
LEMMA CommandEnds ==
  ASSUME FlashTypes, NEW c \in {"SE", "PP"}, NEW a \in Addr, NEW f \in Nat, NEW m \in Nat,
         PartOf(c, a, f, m), wel, Kept, UNCHANGED <<call, was>>,
         session = Opened(c, a, 0, [i \in 1 .. m |-> f + i]), Rise(session)
  PROVE  Changed' /\ (m > 0 \/ c = "SE" => wip')
<1> DEFINE w == [i \in 1 .. m |-> f + i]
<1>1. /\ session.cmd = c /\ session.a = a /\ session.fill = w
      /\ (w = <<>> <=> m = 0)
  <2>1. session.cmd = c /\ session.a = a /\ session.fill = w
    BY DEF Opened
  <2>2. w \in Seq(Nat) /\ Len(w) = m
    OBVIOUS
  <2> HIDE DEF w
  <2>3. w = <<>> <=> m = 0
    BY <2>2, EmptySeq
  <2>4. QED
    BY <2>1, <2>3
<1>2. /\ wip' = (wip \/ (wel /\ (c = "SE" \/ (c = "PP" /\ w # <<>>))))
      /\ goal' = IF ~(wel /\ (c = "SE" \/ (c = "PP" /\ w # <<>>))) THEN goal
                  ELSE IF c = "SE" THEN [i \in Addr |-> FF] ELSE Program(session)
  BY <1>1 DEF Rise
<1> HIDE DEF w
<1>3. m > 0 \/ c = "SE" => wip'
  <2>1. m > 0 => w # <<>> /\ c \in {"SE", "PP"}
    BY <1>1
  <2>2. wel /\ wip \in BOOLEAN
    BY DEF FlashTypes
  <2>3. QED
    BY <1>2, <2>1, <2>2
<1>4. CASE c = "SE"
  <2>1. goal' = [i \in Addr |-> FF] /\ call'.op = "erase"
    BY <1>2, <1>4 DEF PartOf
  <2>2. QED
    BY <1>3, <2>1 DEF Changed
<1>5. CASE c = "PP"
  <2>1. /\ call.op = "write" /\ call.a \in Addr /\ call.n \in Nat /\ call' = call /\ was' = was
        /\ call.n < pagesize => a = call.a /\ f = 0 /\ m = call.n
    BY <1>5 DEF PartOf
  <2>2. Fits' = Fits /\ Written' = Written
    BY <2>1 DEF Fits, Written
  <2>3. ASSUME Fits
        PROVE  goal' = [i \in Addr |-> IF i \in Written THEN <<"new", i - call.a + 1>>
                                        ELSE was.flash[i]]
    <3>1. call.n + (call.a % PageWords) <= PageWords /\ (\A i \in Written : was.flash[i] = FF)
      BY <2>3 DEF Fits
    <3>2. call.n < pagesize
      <4>1. call.a % PageWords \in 0 .. PageWords - 1
        BY <2>1, Sizes32, DivMod
      <4>2. PICK b \in 0 .. PageWords - 1 : b = call.a % PageWords
        BY <4>1
      <4>3. PICK n \in Nat : n = call.n
        BY <2>1
      <4>4. n + b <= PageWords
        BY <3>1, <4>2, <4>3
      <4>5. n < pagesize
        BY <4>2, <4>4, Sizes32, SMTT(30)
      <4>6. QED
        BY <4>3, <4>5
    <3>3. a = call.a /\ f = 0 /\ m = call.n /\ goal = was.flash
      BY <2>1, <3>2 DEF Kept
    <3>4. goal \in [Addr -> Word]
      BY DEF FlashTypes
    <3>5. CASE m = 0
      <4>1. goal' = goal
        BY <1>1, <1>2, <1>5, <3>5
      <4>2. Written = {}
        <5>1. a + 0 - 1 < a /\ a \in Nat
          BY Sizes32
        <5>2. a .. a + 0 - 1 = {}
          BY <5>1
        <5>3. QED
          BY <3>3, <3>5, <5>2 DEF Written
      <4>3. QED
        BY <3>3, <3>4, <4>1, <4>2
    <3>6. CASE m > 0
      <4>1. goal' = Program(Opened("PP", a, 0, [i \in 1 .. m |-> 0 + i]))
        BY <1>1, <1>2, <1>5, <3>3, <3>6
      <4>2. \A i \in a .. a + m - 1 : goal[i] = FF
        BY <3>1, <3>3 DEF Written
      <4>3. goal' = [i \in Addr |-> IF i \in a .. a + m - 1 THEN <<"new", i - a + 1>>
                                     ELSE goal[i]]
        BY <3>1, <3>3, <4>1, <4>2, ProgramFits
      <4>4. QED
        BY <3>3, <4>3 DEF Written
    <3>7. QED
      BY <3>5, <3>6
  <2>4. Changed'
    BY <2>1, <2>2, <2>3 DEF Changed
  <2>5. QED
    BY <1>3, <2>4
<1>6. QED
  BY <1>4, <1>5

(* The rest of a command is what is left of its words, and then its end.   *)
LEMMA UnsentRest ==
  ASSUME NEW f \in Nat, NEW m \in Nat, NEW bit \in {"wip", "wel"}, NEW r \in Rest, NEW j \in 0 .. m
  PROVE  /\ Unsent(f, m, bit, r, j) \in Rest
         /\ j = m => Unsent(f, m, bit, r, j) = Then(Op("deselect"), Polled(bit, r))
         /\ j < m => Unsent(f, m, bit, r, j) =
              Then(Tx(Unit("data", f + j + 1)), Then(Op("wait"), Unsent(f, m, bit, r, j + 1)))
<1> DEFINE z == Then(Op("deselect"), Polled(bit, r))
           x == Tx(Unit("data", f + j + 1))
<1>1. z \in Rest
  <2>1. Polled(bit, r) \in Rest
    BY PollLine
  <2>2. QED
    BY <2>1, Pieces
<1>2. Data(f + j, m - j) \in Rest
  BY WriteLoop
<1>3. j = m => Data(f + j, m - j) = <<>>
  BY WriteLoop
<1>4. ASSUME j < m
      PROVE  Unsent(f, m, bit, r, j) = Then(x, Then(Op("wait"), Unsent(f, m, bit, r, j + 1)))
  <2>1. j + 1 \in 0 .. m /\ m - (j + 1) = (m - j) - 1 /\ f + (j + 1) = (f + j) + 1
        /\ f + j \in Nat /\ m - j \in Nat \ {0} /\ (f + j) + 1 \in Nat /\ (m - j) - 1 \in Nat
    BY <1>4
  <2> DEFINE g == Data((f + j) + 1, (m - j) - 1)
  <2>2. g \in Rest /\ Data(f + j, m - j) = Then(x, Then(Op("wait"), g))
    <3>1. Data(f + j, m - j) = Then(Tx(Unit("data", (f + j) + 1)), Then(Op("wait"), g))
      BY <2>1, WriteLoop
    <3>2. g \in Rest
      BY <2>1, WriteLoop
    <3>3. QED
      BY <3>1, <3>2
  <2>3. Unsent(f, m, bit, r, j + 1) = Cat(g, z)
    BY <2>1 DEF Unsent
  <2>4. x \in FlashAccess /\ Op("wait") \in FlashAccess
    BY <2>1, FlashAccesses
  <2> HIDE DEF g, z, x
  <2>5. Then(Op("wait"), g) \in Rest
    BY <2>2, <2>4, Leading
  <2>6. Cat(Then(x, Then(Op("wait"), g)), z) = Then(x, Cat(Then(Op("wait"), g), z))
        /\ Cat(Then(Op("wait"), g), z) = Then(Op("wait"), Cat(g, z))
    BY <1>1, <2>2, <2>4, <2>5, InLine DEF Cat
  <2>7. QED
    BY <2>2, <2>3, <2>6 DEF Unsent, z
<1>5. Unsent(f, m, bit, r, j) = Cat(Data(f + j, m - j), z)
  BY DEF Unsent
<1> HIDE DEF z
<1>6. Unsent(f, m, bit, r, j) \in Rest
  BY <1>1, <1>2, <1>5, Joined
<1>7. j = m => Unsent(f, m, bit, r, j) = z
  BY <1>1, <1>3, <1>5, Joined
<1>8. QED
  BY <1>4, <1>6, <1>7 DEF z, x

(* What they make of the command and its words.                            *)
LEMMA SendingStep ==
  ASSUME FlashTypes, SpiProgram, NEW c \in {"SE", "PP"}, NEW a \in Addr, NEW f \in Nat,
         NEW m \in Nat, NEW bit \in {"wip", "wel"}, NEW r \in Rest, NEW j \in 0 .. m,
         PartOf(c, a, f, m), FlashSending(c, a, f, j, Unsent(f, m, bit, r, j))
  PROVE  FlashTypes' /\ UNCHANGED <<spi32, call, buf>> /\ FlashUpdating(c, a, f, m, bit, r)'
<1> DEFINE u == Unit(c, a)
           d == Unsent(f, m, bit, r, j)
           W == Then(Op("wait"), d)
           s == Opened(c, a, 0, [i \in 1 .. j |-> f + i])
<1>1. d \in Rest /\ u.cmd = c /\ u.cmd # "none"
  BY UnsentRest DEF Unit
<1>2. /\ ops = W \/ (ops = d /\ Idle)
      /\ Open(u)
      /\ was.rest => ~wip /\ wel /\ Kept /\ Settled = s
  BY DEF FlashSending
<1>3. (/\ ops' = W \/ (ops' = d /\ Idle')
       /\ Open(u)'
       /\ was'.rest => ~wip' /\ wel' /\ Kept' /\ Settled' = s)
        => FlashUpdating(c, a, f, m, bit, r)'
  <2>1. (/\ ops' = W \/ (ops' = d /\ Idle')
         /\ Open(u)'
         /\ was'.rest => ~wip' /\ wel' /\ Kept' /\ Settled' = s)
          => FlashSending(c, a, f, j, Unsent(f, m, bit, r, j))'
    BY DEF FlashSending
  <2>2. FlashSending(c, a, f, j, Unsent(f, m, bit, r, j))' => FlashUpdating(c, a, f, m, bit, r)'
    BY DEF FlashUpdating
  <2>3. QED
    BY <2>1, <2>2
<1> HIDE DEF d, s
<1>4. CASE ops = W
  <2>1. ops' = d /\ Idle /\ FlashTypes' /\ Still /\ UNCHANGED <<pump, spics, was>>
    BY <1>1, <1>4, PauseEffect
  <2>2. Idle' /\ Settled' = session' /\ Settled = session
    BY <2>1 DEF Still, Idle, Settled
  <2>3. Open(u)' /\ (Kept => Kept')
    BY <1>2, <2>1, <2>2 DEF Still, Open, Kept
  <2>4. QED
    BY <1>2, <1>3, <2>1, <2>2, <2>3 DEF Still
<1>5. CASE ops = d /\ Idle /\ j < m
  <2> DEFINE x == Unit("data", f + j + 1)
             e == Unsent(f, m, bit, r, j + 1)
             W2 == Then(Op("wait"), e)
             s2 == Opened(c, a, 0, [i \in 1 .. j + 1 |-> f + i])
  <2>1. /\ x \in FlashUnit /\ x.a = f + j + 1 /\ j + 1 \in 0 .. m /\ d = Then(Tx(x), W2)
        /\ e \in Rest /\ W2 \in Rest
    <3>1. j + 1 \in 0 .. m /\ f + j + 1 \in Nat
      BY <1>5
    <3>2. e \in Rest
      BY <3>1, UnsentRest
    <3>3. W2 \in Rest
      BY <3>2, Pieces
    <3>4. d = Then(Tx(x), W2)
      BY <1>5, UnsentRest, ZenonT(30) DEF d
    <3>5. x \in FlashUnit /\ x.a = f + j + 1
      BY <3>1, FlashAccesses
    <3>6. QED
      BY <3>1, <3>2, <3>3, <3>4, <3>5
  <2>2. c = "PP"
    BY <1>5 DEF PartOf
  <2>3. /\ Settled = session /\ session.cmd \in {c, "READ", "busy"} /\ session.cmd # "none"
        /\ pump /\ ~spics
    BY <1>1, <1>2, <1>5 DEF Open, Settled
  <2> HIDE DEF x, e, W2
  <2>4. /\ ops' = W2 /\ FlashTypes'
        /\ UNCHANGED <<spi32, pump, spics, rx, out, session, flash, goal, wel, wip, call, buf, was>>
        /\ ~Idle' /\ Settled' = Take(x) /\ Settled'.cmd = session.cmd
    BY <1>5, <2>1, <2>3, TxEffect
  <2>5. was.rest => Settled' = s2
    <3>1. ASSUME was.rest PROVE Settled' = s2
      <4>1. session = Opened("PP", a, 0, [i \in 1 .. j |-> f + i])
        BY <1>2, <2>2, <2>3, <3>1 DEF s
      <4>2. Take(x) = Opened("PP", a, 0, Append([i \in 1 .. j |-> f + i], f + j + 1))
        BY <2>1, <4>1, TakenFrom
      <4>3. Append([i \in 1 .. j |-> f + i], f + j + 1) = [i \in 1 .. j + 1 |-> f + i]
        <5> DEFINE v == [i \in 1 .. j |-> f + i]
                   y == [i \in 1 .. j + 1 |-> f + i]
        <5>1. v \in Seq(Nat) /\ Len(v) = j /\ y \in Seq(Nat) /\ Len(y) = j + 1
              /\ (\A i \in 1 .. j : v[i] = f + i) /\ (\A i \in 1 .. j + 1 : y[i] = f + i)
          OBVIOUS
        <5> HIDE DEF v, y
        <5>2. Append(v, f + j + 1) \in Seq(Nat) /\ Len(Append(v, f + j + 1)) = j + 1
              /\ \A i \in 1 .. j + 1 : Append(v, f + j + 1)[i] = f + i
          BY <5>1, AppendProperties
        <5>3. Append(v, f + j + 1) = y
          BY <5>1, <5>2, SeqEqual
        <5>4. QED
          BY <5>3 DEF v, y
      <4>4. QED
        BY <2>2, <2>4, <4>2, <4>3
    <3>2. QED
      BY <3>1
  <2>6. Open(u)'
    BY <1>1, <2>3, <2>4 DEF Open
  <2>7. Kept => Kept'
    BY <2>4 DEF Kept
  <2>8. FlashSending(c, a, f, j + 1, Unsent(f, m, bit, r, j + 1))'
    <3>1. /\ ops' = W2 /\ Open(u)'
          /\ was'.rest => ~wip' /\ wel' /\ Kept' /\ Settled' = s2
      BY <1>2, <2>4, <2>5, <2>6, <2>7
    <3>2. QED
      BY <3>1 DEF FlashSending, W2, e
  <2>9. FlashUpdating(c, a, f, m, bit, r)'
    BY <2>1, <2>8 DEF FlashUpdating
  <2>10. QED
    BY <2>4, <2>9
<1>6. CASE ops = d /\ Idle /\ j = m
  <2>1. d = Then(Op("deselect"), Polled(bit, r)) /\ Polled(bit, r) \in Rest
    BY <1>6, UnsentRest, PollLine DEF d
  <2>2. /\ ops' = Polled(bit, r) /\ spics' /\ ~pump' /\ FlashTypes'
        /\ UNCHANGED <<spi32, tx, rx, state, out, call, buf, was>>
        /\ Rise(session) /\ session' = Closed
    BY <1>6, <2>1, DeselectEffect
  <2>3. Outside' /\ Idle'
    BY <1>6, <2>2 DEF Outside, Idle
  <2>4. Effective(c, m)'
    <3>1. ASSUME was.rest PROVE Changed' /\ (m > 0 \/ c = "SE" => wip')
      <4>1. session = Opened(c, a, 0, [i \in 1 .. m |-> f + i]) /\ wel /\ Kept
        BY <1>2, <1>6, <3>1 DEF Settled, s
      <4>2. QED
        BY <2>2, <4>1, CommandEnds
    <3>2. was' = was
      BY <2>2
    <3>3. Effective(c, m)' <=> (was'.rest => Changed' /\ (m > 0 \/ c = "SE" => wip' \/ ~wel'))
      BY DEF Effective
    <3>4. QED
      BY <3>1, <3>2, <3>3
  <2>5. FlashPolling(bit, r)'
    BY <2>2, <2>3 DEF FlashPolling
  <2>6. FlashUpdating(c, a, f, m, bit, r)'
    BY <2>4, <2>5 DEF FlashUpdating
  <2>7. QED
    BY <2>2, <2>6
<1>7. QED
  BY <1>2, <1>4, <1>5, <1>6

(* A step of an update stays in it, until it is over.                      *)
LEMMA UpdatingStep ==
  ASSUME FlashTypes, SpiProgram, NEW c \in {"SE", "PP"}, NEW a \in Addr, NEW f \in Nat,
         NEW m \in Nat, NEW bit \in {"wip", "wel"}, NEW r \in Rest,
         PartOf(c, a, f, m), FlashUpdating(c, a, f, m, bit, r)
  PROVE  \/ FlashPolled(bit, r) /\ Effective(c, m)
         \/ FlashTypes' /\ UNCHANGED <<spi32, call, buf>> /\ FlashUpdating(c, a, f, m, bit, r)'
<1>1. CASE FlashEnabling(c, a, Unsent(f, m, bit, r, 0))
  <2> DEFINE d == Unsent(f, m, bit, r, 0)
  <2>1. d \in Rest
    <3>1. 0 \in 0 .. m
      OBVIOUS
    <3>2. QED
      BY <3>1, UnsentRest
  <2>2. /\ FlashTypes' /\ UNCHANGED <<spi32, call, buf>>
        /\ FlashEnabling(c, a, d)' \/ FlashSending(c, a, f, 0, d)'
    <3> HIDE DEF d
    <3>1. QED
      BY <1>1, <2>1, EnablingStep DEF d
  <2>3. FlashUpdating(c, a, f, m, bit, r)'
    BY <2>2 DEF FlashUpdating
  <2>4. QED
    BY <2>2, <2>3
<1>2. ASSUME NEW j \in 0 .. m, FlashSending(c, a, f, j, Unsent(f, m, bit, r, j))
      PROVE  FlashTypes' /\ UNCHANGED <<spi32, call, buf>> /\ FlashUpdating(c, a, f, m, bit, r)'
  BY <1>2, SendingStep
<1>3. CASE FlashPolling(bit, r) /\ Effective(c, m)
  <2>1. /\ FlashTypes' /\ UNCHANGED <<spi32, call, buf>>
        /\ FlashPolling(bit, r)' \/ FlashPolled(bit, r)'
        /\ Effective(c, m)'
    BY <1>3, PollingStep
  <2>2. QED
    BY <2>1 DEF FlashUpdating
<1>4. QED
  BY <1>1, <1>2, <1>3 DEF FlashUpdating

(* A call that is not over has an access to make; the flash is selected or *)
(* left alone; and a unit on its way brings an address.                    *)
Sound == (ops = <<>> => Outside) /\ (spics => Outside) /\ Reach

LEMMA Places ==
  /\ Outside => Sound
  /\ Chosen /\ ops # <<>> => Sound
  /\ Ready32 /\ ops # <<>> => Sound
  /\ ~spics /\ (Idle \/ Asked) /\ ops # <<>> => Sound
  /\ \A c \in FlashCmd, a \in Addr : Open(Unit(c, a)) /\ ops # <<>> => Sound
<1>1. ~spics /\ (Idle \/ Asked) /\ ops # <<>> => Sound
  <2>1. Unit("RDSR", 0).a \in Addr
    BY Sizes32 DEF Unit
  <2>2. QED
    BY <2>1 DEF Sound, Reach, Asked
<1>2. ASSUME NEW c \in FlashCmd, NEW a \in Addr
      PROVE  Open(Unit(c, a)) /\ ops # <<>> => Sound
  <2>1. Unit(c, a).a \in Addr
    BY DEF Unit
  <2>2. QED
    BY <2>1 DEF Sound, Reach, Open
<1>3. Outside => Sound
  BY DEF Sound, Reach, Outside
<1>4. Chosen /\ ops # <<>> => Sound
  BY DEF Sound, Reach, Chosen
<1>5. Ready32 /\ ops # <<>> => Sound
  BY DEF Sound, Reach, Ready32
<1>6. QED
  BY <1>1, <1>2, <1>3, <1>4, <1>5

(* While the write is enabled, the answers and the selection are in order, *)
LEMMA EnablingSound ==
  ASSUME NEW c \in FlashCmd, NEW a \in Addr, NEW d \in Rest, FlashEnabling(c, a, d)
  PROVE  ops # <<>> /\ Sound
<1> DEFINE u == Unit(c, a)
           w == Unit("WREN", 0)
           e == Sending32(c, a, d)
           q == Then(Op("deselect"), e)
           W == Then(Op("wait"), q)
           X == Then(Op("wait"), d)
<1>1. /\ "WREN" \in FlashCmd /\ a \in Nat /\ 0 \in Nat /\ 0 \in Addr
      /\ Tx(u) \in FlashAccess /\ Tx(w) \in FlashAccess
  BY FlashAccesses, Sizes32 DEF FlashCmd
<1>2. e \in Rest /\ X \in Rest /\ X # <<>>
  <2>1. e \in Rest
    BY <1>1, Pieces
  <2>2. Op("wait") \in FlashAccess
    BY Pieces
  <2>3. X \in Rest /\ X # <<>>
    BY <2>2, Leading
  <2>4. QED
    BY <2>1, <2>3
<1>3. q \in Rest /\ q # <<>>
  <2>1. Op("deselect") \in FlashAccess
    BY Pieces
  <2> HIDE DEF e
  <2>2. QED
    BY <1>2, <2>1, Leading
<1>4. W \in Rest /\ W # <<>>
  <2>1. Op("wait") \in FlashAccess
    BY Pieces
  <2> HIDE DEF q
  <2>2. QED
    BY <1>3, <2>1, Leading
<1>5. Then(Tx(w), W) # <<>> /\ Then(Tx(u), X) # <<>> /\ Then(Tx(u), X) \in Rest
  <2> HIDE DEF W, X, u, w
  <2>1. QED
    BY <1>1, <1>2, <1>4, Leading
<1>6. e # <<>>
  <2>1. Op("select") \in FlashAccess
    BY Pieces
  <2>2. e = Then(Op("select"), Then(Tx(u), X))
    BY DEF Sending32
  <2> HIDE DEF e, X, u
  <2>3. QED
    BY <1>5, <2>1, <2>2, Leading
<1>7. Enabled32(c, a, d) # <<>>
  <2>1. Op("select") \in FlashAccess
    BY Pieces
  <2>2. Enabled32(c, a, d) = Then(Op("select"), Then(Tx(w), W))
    BY DEF Enabled32, Sending32
  <2>3. Then(Tx(w), W) \in Rest
    <3> HIDE DEF W, w
    <3>1. QED
      BY <1>1, <1>4, Leading
  <2> HIDE DEF W, w
  <2>4. QED
    BY <2>1, <2>2, <2>3, Leading
<1>8. \/ ops = Enabled32(c, a, d) /\ Outside
      \/ ops = Then(Tx(w), W) /\ Chosen
      \/ ops \in {W, q} /\ Open(w)
      \/ ops = e /\ Outside
      \/ ops = Then(Tx(u), X) /\ Ready32
  BY DEF FlashEnabling
<1> HIDE DEF u, w, e, q, W, X
<1>9. ops # <<>>
  BY <1>3, <1>4, <1>5, <1>6, <1>7, <1>8
<1>10. Sound
  BY <1>1, <1>8, <1>9, Places DEF w
<1>11. QED
  BY <1>9, <1>10

(* so they are while the status is asked for,                              *)
LEMMA PollingSound ==
  ASSUME NEW bit \in {"wip", "wel"}, NEW r \in Rest, FlashPolling(bit, r)
  PROVE  ops # <<>> /\ Sound
<1> DEFINE u == Unit("RDSR", 0)
           e == Then(Test(bit), r)
           t == Then(Op("deselect"), e)
           X == Then(Op("wait"), t)
           p == Polled(bit, r)
<1>1. Tx(u) \in FlashAccess /\ Test(bit) \in FlashAccess
      /\ \A o \in {"select", "deselect", "wait"} : Op(o) \in FlashAccess
  BY FlashAccesses, Sizes32
<1>2. e \in Rest /\ e # <<>>
  BY <1>1, Leading
<1>3. t \in Rest /\ t # <<>>
  <2> HIDE DEF e
  <2>1. QED
    BY <1>1, <1>2, Leading
<1>4. X \in Rest /\ X # <<>>
  <2> HIDE DEF t
  <2>1. QED
    BY <1>1, <1>3, Leading
<1>5. Then(Tx(u), X) \in Rest /\ Then(Tx(u), X) # <<>>
  <2> HIDE DEF X, u
  <2>1. QED
    BY <1>1, <1>4, Leading
<1>6. p # <<>>
  <2>1. p = Then(Op("select"), Then(Tx(u), X))
    BY DEF Polled, Sending32
  <2> HIDE DEF p, X, u
  <2>2. QED
    BY <1>1, <1>5, <2>1, Leading
<1>7. \/ ops \in {p, e} /\ Outside
      \/ ops = Then(Tx(u), X) /\ Ready32
      \/ ops = X /\ ~spics /\ (Asked \/ Answered(bit))
      \/ ops = t /\ ~spics /\ Answered(bit)
  BY DEF FlashPolling
<1>8. Answered(bit) => Idle
  BY DEF Answered
<1> HIDE DEF e, t, X, p, u
<1>9. ops # <<>>
  BY <1>2, <1>3, <1>4, <1>5, <1>6, <1>7
<1>10. QED
  BY <1>7, <1>8, <1>9, Places

(* and in any place of an update.                                          *)
LEMMA UpdatingSound ==
  ASSUME NEW c \in FlashCmd, NEW a \in Addr, NEW f \in Nat, NEW m \in Nat,
         NEW bit \in {"wip", "wel"}, NEW r \in Rest, FlashUpdating(c, a, f, m, bit, r)
  PROVE  Sound /\ (ops = <<>> => FlashPolled(bit, r) /\ Effective(c, m))
<1>1. CASE FlashEnabling(c, a, Unsent(f, m, bit, r, 0))
  <2>1. 0 \in 0 .. m
    OBVIOUS
  <2>2. QED
    BY <1>1, <2>1, EnablingSound, UnsentRest
<1>2. ASSUME NEW j \in 0 .. m, FlashSending(c, a, f, j, Unsent(f, m, bit, r, j))
      PROVE  Sound /\ ops # <<>>
  <2> DEFINE d == Unsent(f, m, bit, r, j)
  <2>1. d \in Rest /\ d # <<>>
    <3>1. d \in Rest
      BY UnsentRest
    <3>2. CASE j = m
      <4>1. d = Then(Op("deselect"), Polled(bit, r))
        BY <3>2, UnsentRest
      <4>2. Op("deselect") \in FlashAccess /\ Polled(bit, r) \in Rest
        BY Pieces, PollLine
      <4> HIDE DEF d
      <4>3. QED
        BY <3>1, <4>1, <4>2, Leading
    <3>3. CASE j < m
      <4> DEFINE x == Tx(Unit("data", f + j + 1))
                 e == Unsent(f, m, bit, r, j + 1)
      <4>1. d = Then(x, Then(Op("wait"), e))
        BY <3>3, UnsentRest, ZenonT(30)
      <4>2. x \in FlashAccess
        BY FlashAccesses
      <4>3. e \in Rest
        <5>1. j + 1 \in 0 .. m
          BY <3>3
        <5>2. QED
          BY <5>1, UnsentRest
      <4> HIDE DEF d, x, e
      <4>4. Then(Op("wait"), e) \in Rest
        BY <4>3, Pieces
      <4>5. QED
        BY <3>1, <4>1, <4>2, <4>4, Leading
    <3>4. QED
      BY <3>2, <3>3
  <2>2. Then(Op("wait"), d) # <<>>
    <3>1. Op("wait") \in FlashAccess
      BY Pieces
    <3> HIDE DEF d
    <3>2. QED
      BY <2>1, <3>1, Leading
  <2>3. ops # <<>> /\ Open(Unit(c, a))
    BY <1>2, <2>1, <2>2 DEF FlashSending
  <2>4. QED
    BY <2>3, Places
<1>3. CASE FlashPolling(bit, r)
  BY <1>3, PollingSound
<1>4. CASE FlashPolled(bit, r) /\ Effective(c, m)
  <2>1. Outside
    BY <1>4 DEF FlashPolled
  <2>2. QED
    BY <1>4, <2>1, Places
<1>5. QED
  BY <1>1, <1>2, <1>3, <1>4 DEF FlashUpdating

(* A read: its dummy bytes, one by one.                                    *)
LEMMA DummyLine ==
  ASSUME NEW a \in Nat, NEW n \in Nat, NEW h \in 0 .. 3
  PROVE  /\ Dummies(h, a, n) \in Rest /\ Dummies(h, a, n) # <<>>
         /\ h = 0 => Dummies(h, a, n) = Then(Op("rx"), Reading32(n))
         /\ h > 0 => Dummies(h, a, n) = Then(Tx(Unit("byte", a)),
                                             Then(Op("wait"), Dummies(h - 1, a, n)))
<1> DEFINE t == Then(Op("rx"), Reading32(n))
           x == Tx(Unit("byte", a))
           B(s) == Then(x, Then(Op("wait"), s))
<1>1. t \in Rest /\ t # <<>>
  <2>1. Reading32(n) \in Rest /\ Op("rx") \in FlashAccess
    BY ReadLoop, Pieces
  <2>2. QED
    BY <2>1, Leading
<1>2. \A s \in Rest : B(s) \in Rest /\ B(s) # <<>> /\ spi_tx(Unit("byte", a)) \o s = B(s)
  <2>1. ASSUME NEW s \in Rest
        PROVE  B(s) \in Rest /\ B(s) # <<>> /\ spi_tx(Unit("byte", a)) \o s = B(s)
    <3>1. "byte" \in FlashCmd /\ x \in FlashAccess
      BY FlashAccesses DEF FlashCmd
    <3>2. Then(Op("wait"), s) \in Rest
      BY Pieces
    <3>3. spi_tx(Unit("byte", a)) \o s = B(s)
      BY <3>1, SendLine
    <3> HIDE DEF x
    <3>4. QED
      BY <3>1, <3>2, <3>3, Leading
  <2>2. QED
    BY <2>1
<1>3. /\ Dummies(0, a, n) = t
      /\ Dummies(1, a, n) = spi_tx(Unit("byte", a)) \o t
      /\ Dummies(2, a, n) = spi_tx(Unit("byte", a)) \o (spi_tx(Unit("byte", a)) \o t)
      /\ Dummies(3, a, n)
           = spi_tx(Unit("byte", a)) \o (spi_tx(Unit("byte", a)) \o (spi_tx(Unit("byte", a)) \o t))
  BY DEF Dummies, Bytes8
<1> HIDE DEF t, B
<1>4. Dummies(1, a, n) = B(t) /\ B(t) \in Rest /\ B(t) # <<>>
  BY <1>1, <1>2, <1>3
<1>5. Dummies(2, a, n) = B(B(t)) /\ B(B(t)) \in Rest /\ B(B(t)) # <<>>
  BY <1>1, <1>2, <1>3, <1>4
<1>6. Dummies(3, a, n) = B(B(B(t))) /\ B(B(B(t))) \in Rest /\ B(B(B(t))) # <<>>
  <2>1. PICK g \in Rest : g = B(B(t))
    BY <1>5
  <2>2. spi_tx(Unit("byte", a)) \o g = B(g) /\ B(g) \in Rest /\ B(g) # <<>>
    BY <1>2
  <2>3. g = spi_tx(Unit("byte", a)) \o (spi_tx(Unit("byte", a)) \o t)
    BY <1>3, <1>5, <2>1
  <2>4. QED
    BY <1>3, <2>1, <2>2, <2>3
<1>7. h = 0 => Dummies(h, a, n) = t
  BY <1>3
<1>8. h > 0 => Dummies(h, a, n) = B(Dummies(h - 1, a, n))
  <2>1. h \in {0, 1, 2, 3} /\ 1 - 1 = 0 /\ 2 - 1 = 1 /\ 3 - 1 = 2
    OBVIOUS
  <2>2. QED
    BY <1>3, <1>4, <1>5, <1>6, <2>1
<1>9. Dummies(h, a, n) \in Rest /\ Dummies(h, a, n) # <<>>
  <2>1. h \in {0, 1, 2, 3}
    OBVIOUS
  <2>2. QED
    BY <1>1, <1>3, <1>4, <1>5, <1>6, <2>1
<1>10. QED
  BY <1>7, <1>8, <1>9 DEF t, B

(* What a read does in each place.                                         *)
LEMMA OpeningStep ==
  ASSUME FlashTypes, NEW a \in Addr, NEW n \in Nat, FlashOpening(a, n)
  PROVE  /\ Sound /\ ops # <<>>
         /\ Meanwhile => FlashOpening(a, n)'
         /\ SpiProgram => /\ FlashTypes' /\ UNCHANGED <<spi32, call>>
                          /\ FlashOpening(a, n)' \/ \E h \in 0 .. 3 : FlashSkipping(h, a, n)'
<1> DEFINE u == Unit("READ", a)
           d == Dummies(Skipped, a, n)
           X == Then(Op("wait"), d)
           e == Then(Op("select"), Then(Tx(u), X))
<1>1. /\ u \in FlashUnit /\ Tx(u) \in FlashAccess /\ u.cmd = "READ" /\ u.a = a /\ a \in Nat
      /\ Skipped \in 0 .. 3 /\ Op("select") \in FlashAccess /\ Op("wait") \in FlashAccess
  BY FlashAccesses, Sizes32 DEF Skipped
<1>2. d \in Rest /\ X \in Rest /\ X # <<>>
  <2>1. d \in Rest
    BY <1>1, DummyLine
  <2> HIDE DEF d
  <2>2. QED
    BY <1>1, <2>1, Leading
<1>3. Then(Tx(u), X) \in Rest /\ Then(Tx(u), X) # <<>>
  <2> HIDE DEF X, u
  <2>1. QED
    BY <1>1, <1>2, Leading
<1>4. e # <<>>
  <2> HIDE DEF X, u
  <2>1. QED
    BY <1>1, <1>3, Leading
<1>5. buf = <<>> /\ ((ops = e /\ Outside) \/ (ops = Then(Tx(u), X) /\ Chosen))
  BY DEF FlashOpening, Sending32
<1>6. Sound /\ ops # <<>>
  <2> HIDE DEF e, X, u
  <2>1. QED
    BY <1>3, <1>4, <1>5, Places
<1>7. spi32' = spi32 => Skipped' = Skipped /\ d' = d
  BY DEF Skipped, Dummies, Bytes8
<1>8. spi32' = spi32 =>
        (FlashOpening(a, n)' <=>
           buf' = <<>> /\ ((ops' = e /\ Outside') \/ (ops' = Then(Tx(u), X) /\ Chosen')))
  BY <1>7 DEF FlashOpening, Sending32
<1>9. ASSUME Meanwhile PROVE FlashOpening(a, n)'
  <2>1. UNCHANGED <<spi32, ops, buf>> /\ (Outside => Outside') /\ (Chosen => Chosen')
    BY <1>6, <1>9, CoreKeeps, CoreHolds DEF Sound
  <2> HIDE DEF e, X, u, d
  <2>2. QED
    BY <1>5, <1>8, <2>1
<1>10. ASSUME SpiProgram, ops = e, Outside
       PROVE  FlashTypes' /\ UNCHANGED <<spi32, call>> /\ FlashOpening(a, n)'
  <2>1. Tx(u) # Tx(Unit("RDSR", 0)) /\ Tx(u) # Op("deselect")
    <3>1. Unit("RDSR", 0).cmd = "RDSR" /\ \A v : Tx(v).unit = v /\ Tx(v).op = "tx"
          /\ Op("deselect").op = "deselect"
      BY DEF Unit, Tx, Op
    <3>2. QED
      BY <1>1, <3>1
  <2> HIDE DEF X, u, d
  <2>2. /\ ops' = Then(Tx(u), X) /\ ~spics' /\ pump' /\ Still /\ FlashTypes'
        /\ (was'.rest <=> was.rest /\ Idle /\ ~wip)
    BY <1>1, <1>2, <1>10, <2>1, SelectEffect
  <2>3. Closed.cmd = "none"
    BY DEF Closed
  <2>4. Chosen'
    BY <1>10, <2>2, <2>3 DEF Chosen, Outside, Still, Idle
  <2>5. QED
    BY <1>5, <1>8, <2>2, <2>4 DEF Still
<1>11. ASSUME SpiProgram, ops = Then(Tx(u), X), Chosen
       PROVE  FlashTypes' /\ UNCHANGED <<spi32, call>> /\ \E h \in 0 .. 3 : FlashSkipping(h, a, n)'
  <2> HIDE DEF X, u
  <2>1. /\ ops' = X /\ FlashTypes'
        /\ UNCHANGED <<spi32, pump, spics, rx, out, session, flash, goal, wel, wip, call, buf, was>>
        /\ ~Idle'
        /\ Idle => Coming' = u /\ Settled' = Take(u)
        /\ Idle /\ session.cmd = "none" => Settled'.cmd \in {u.cmd, "busy"}
        /\ session.cmd # "none" => Settled'.cmd = session.cmd
    <3>1. pump
      BY <1>11 DEF Chosen
    <3>2. QED
      BY <1>1, <1>2, <1>11, <3>1, TxEffect
  <2>2. was.rest => Settled' = Opened("READ", a, Skipped, <<>>) /\ ~wip
    <3>1. was.rest => Idle /\ session = Closed /\ ~wip
      BY <1>11 DEF Chosen
    <3>2. was.rest => Take(u) = Opened("READ", a, Skipped, <<>>)
      BY <1>1, <3>1, TakenFrom DEF Skipped
    <3>3. QED
      BY <2>1, <3>1, <3>2
  <2>3. Open(u)'
    BY <1>1, <1>11, <2>1 DEF Open, Chosen
  <2>4. ASSUME NEW h \in 0 .. 3, h = Skipped PROVE FlashSkipping(h, a, n)'
    <3>1. ops' = Then(Op("wait"), Dummies(h, a, n)) /\ buf' = <<>>
          /\ (was'.rest => ~wip' /\ Settled' = Opened("READ", a, h, <<>>))
      BY <1>5, <2>1, <2>2, <2>4 DEF X, d
    <3>2. QED
      BY <2>3, <3>1 DEF FlashSkipping, u
  <2>5. QED
    BY <1>1, <2>1, <2>4
<1>12. QED
  BY <1>5, <1>6, <1>9, <1>10, <1>11

(* What it does with its dummy bytes.                                      *)
LEMMA SkippingStep ==
  ASSUME FlashTypes, NEW a \in Addr, NEW n \in Nat, call.a = a, NEW h \in 0 .. 3,
         FlashSkipping(h, a, n)
  PROVE  /\ Sound /\ ops # <<>>
         /\ Meanwhile => FlashSkipping(h, a, n)'
         /\ SpiProgram => /\ FlashTypes' /\ UNCHANGED <<spi32, call>>
                          /\ \/ \E g \in 0 .. 3 : FlashSkipping(g, a, n)'
                             \/ FlashFetching(0, a, n)'
<1> DEFINE u == Unit("READ", a)
           d == Dummies(h, a, n)
           X == Then(Op("wait"), d)
           s == Opened("READ", a, h, <<>>)
           b == Unit("byte", a)
<1>1. /\ u.cmd = "READ" /\ a \in Nat /\ "READ" \in FlashCmd /\ Op("wait") \in FlashAccess
      /\ b \in FlashUnit /\ b.a = a
  BY FlashAccesses, Sizes32 DEF FlashCmd
<1>2. d \in Rest /\ d # <<>> /\ X \in Rest /\ X # <<>>
  <2>1. d \in Rest /\ d # <<>>
    BY <1>1, DummyLine
  <2> HIDE DEF d
  <2>2. QED
    BY <1>1, <2>1, Leading
<1>3. /\ buf = <<>> /\ Open(u) /\ (ops = X \/ (ops = d /\ Idle))
      /\ was.rest => ~wip /\ Settled = s
  BY DEF FlashSkipping
<1>4. FlashSkipping(h, a, n)' <=>
        /\ buf' = <<>> /\ Open(u)' /\ (ops' = X \/ (ops' = d /\ Idle'))
        /\ was'.rest => ~wip' /\ Settled' = s
  BY DEF FlashSkipping
<1>5. Sound /\ ops # <<>>
  <2>1. ops # <<>>
    BY <1>2, <1>3
  <2>2. QED
    BY <1>1, <1>3, <2>1, Places
<1> HIDE DEF X, d, s
<1>6. ASSUME Meanwhile PROVE FlashSkipping(h, a, n)'
  <2>1. /\ UNCHANGED <<spics, ops, buf, was>> /\ (Idle => Idle')
        /\ (~wip => wip' = wip) /\ (~spics /\ ~wip => Settled' = Settled)
    BY <1>5, <1>6, CoreKeeps DEF Sound
  <2>2. Open(u) => Open(u)' /\ ~spics
    <3>1. Open(u) => Open(u)'
      BY <1>1, <1>5, <1>6, CoreHolds DEF Sound
    <3>2. QED
      BY <3>1 DEF Open
  <2> HIDE DEF u
  <2>3. QED
    BY <1>3, <1>4, <2>1, <2>2
<1>7. ASSUME SpiProgram, ops = X
      PROVE  FlashTypes' /\ UNCHANGED <<spi32, call>> /\ FlashSkipping(h, a, n)'
  <2>1. ops' = d /\ Idle /\ FlashTypes' /\ Still /\ UNCHANGED <<pump, spics, was>>
    BY <1>2, <1>7, PauseEffect DEF X
  <2>2. Idle' /\ Settled' = session' /\ Settled = session
    BY <2>1 DEF Still, Idle, Settled
  <2>3. Open(u)'
    BY <1>3, <2>1, <2>2 DEF Still, Open
  <2>4. QED
    BY <1>3, <1>4, <2>1, <2>2, <2>3 DEF Still
<1>8. ops = d /\ Idle =>
        /\ Settled = session /\ session.cmd \in {"READ", "busy"} /\ session.cmd # "none"
        /\ pump /\ ~spics
  BY <1>1, <1>3 DEF Open, Settled
<1>9. ASSUME SpiProgram, ops = d, Idle, h > 0
      PROVE  FlashTypes' /\ UNCHANGED <<spi32, call>> /\ \E g \in 0 .. 3 : FlashSkipping(g, a, n)'
  <2> DEFINE e == Dummies(h - 1, a, n)
             X2 == Then(Op("wait"), e)
  <2>1. h - 1 \in 0 .. 3 /\ d = Then(Tx(b), X2) /\ e \in Rest
    <3>1. h - 1 \in 0 .. 3
      BY <1>9
    <3>2. QED
      BY <1>1, <1>9, <3>1, DummyLine DEF d
  <2>2. X2 \in Rest
    BY <2>1, Pieces
  <2> HIDE DEF e, X2, b
  <2>3. /\ ops' = X2 /\ FlashTypes'
        /\ UNCHANGED <<spi32, pump, spics, rx, out, session, flash, goal, wel, wip, call, buf, was>>
        /\ ~Idle' /\ Settled' = Take(b) /\ Settled'.cmd = session.cmd
    BY <1>1, <1>8, <1>9, <2>1, <2>2, TxEffect
  <2>4. was.rest => Settled' = Opened("READ", a, h - 1, <<>>)
    <3>1. was.rest => session = Opened("READ", a, h, <<>>)
      BY <1>3, <1>8, <1>9 DEF s
    <3>2. h \in Nat /\ h > 0
      BY <1>9
    <3>3. QED
      BY <1>1, <2>3, <3>1, <3>2, TakenFrom
  <2>5. Open(u)'
    BY <1>1, <1>8, <1>9, <2>3 DEF Open
  <2>6. FlashSkipping(h - 1, a, n)'
    <3>1. /\ buf' = <<>> /\ ops' = Then(Op("wait"), Dummies(h - 1, a, n))
          /\ was'.rest => ~wip' /\ Settled' = Opened("READ", a, h - 1, <<>>)
      BY <1>3, <2>3, <2>4 DEF X2, e
    <3>2. QED
      BY <2>5, <3>1 DEF FlashSkipping
  <2>7. QED
    BY <2>1, <2>3, <2>6
<1>10. ASSUME SpiProgram, ops = d, Idle, h = 0
       PROVE  FlashTypes' /\ UNCHANGED <<spi32, call>> /\ FlashFetching(0, a, n)'
  <2>1. d = Then(Op("rx"), Reading32(n)) /\ Reading32(n) \in Rest
    BY <1>1, <1>10, DummyLine, ReadLoop DEF d
  <2>2. /\ ops' = Reading32(n) /\ FlashTypes'
        /\ UNCHANGED <<spi32, pump, spics, tx, rx, out, session, flash, goal, wel, wip, call, was, buf>>
        /\ ~Idle' /\ Settled' = Take(tx) /\ Held' = Answer(tx)
    <3>1. Then(Op("rx"), Reading32(n)) = ops /\ "rx" \in {"rx", "read"} /\ "rx" # "read"
      BY <1>10, <2>1
    <3>2. QED
      BY <1>8, <1>10, <2>1, <3>1, InEffect
  <2>3. tx \in FlashUnit
    BY DEF FlashTypes
  <2>4. Settled'.cmd = session.cmd
    BY <1>8, <1>10, <2>2, <2>3, Taken
  <2>5. was.rest => /\ Settled' = Opened("READ", (a + 1) % Words, 0, <<>>) /\ Held' = goal[a]
    <3>1. was.rest => session = Opened("READ", a, 0, <<>>)
      BY <1>3, <1>8, <1>10 DEF s
    <3>2. was.rest => flash = goal
      BY <1>3 DEF FlashTypes
    <3>3. QED
      BY <1>1, <2>2, <2>3, <3>1, <3>2, TakenFrom
  <2>6. Open(u)'
    BY <1>1, <1>8, <1>10, <2>2, <2>4 DEF Open
  <2>7. (a + 0 + 1 = a + 1 /\ (a + 0) % Words = a /\ n - 0 = n) \/ ~(n \in Nat)
    <3>1. a % Words = a
      <4>1. a < Words /\ Words \in Nat \ {0}
        BY Sizes32 DEF Addr
      <4>2. QED
        BY <1>1, <4>1, ModSmall
    <3>2. a + 0 = a
      BY <1>1
    <3>3. QED
      BY <3>1, <3>2
  <2>8. Len(buf') = 0 /\ buf' = FromFlash(0)'
    <3>1. FromFlash(0)' = <<>>
      BY DEF FromFlash
    <3>2. buf' = <<>>
      BY <1>3, <2>2
    <3>3. Len(<<>>) = 0
      OBVIOUS
    <3>4. QED
      BY <3>1, <3>2, <3>3
  <2>9. /\ ops' = Reading32(n - 0) /\ Open(u)' /\ session'.cmd # "none"
        /\ was'.rest => /\ ~wip'
                        /\ Settled' = Opened("READ", (a + 0 + 1) % Words, 0, <<>>)
                        /\ Held' = goal'[(a + 0) % Words]
    BY <1>3, <1>8, <1>10, <2>2, <2>5, <2>6, <2>7
  <2>10. FlashFetching(0, a, n)'
    BY <2>8, <2>9 DEF FlashFetching
  <2>11. QED
    BY <2>2, <2>10
<1>11. h > 0 \/ h = 0
  OBVIOUS
<1>12. QED
  BY <1>3, <1>5, <1>6, <1>7, <1>9, <1>10, <1>11


(* What it does with its words.                                            *)
LEMMA FetchingStep ==
  ASSUME FlashTypes, NEW a \in Addr, NEW n \in Nat, call.a = a, NEW j \in 0 .. n,
         FlashFetching(j, a, n)
  PROVE  /\ Sound /\ ops # <<>>
         /\ Meanwhile => FlashFetching(j, a, n)'
         /\ SpiProgram => /\ FlashTypes' /\ UNCHANGED <<spi32, call>>
                          /\ \/ \E i \in 0 .. n : FlashFetching(i, a, n)'
                             \/ FetchedAll(a, n)'
<1> DEFINE u == Unit("READ", a)
           d == Reading32(n - j)
           x == (a + j + 1) % Words
           y == (a + j) % Words
           s == Opened("READ", x, 0, <<>>)
<1>1. /\ u.cmd = "READ" /\ a \in Nat /\ "READ" \in FlashCmd /\ n - j \in Nat
      /\ x \in Addr /\ x \in Nat /\ y \in Addr
  <2>1. a \in Nat /\ n - j \in Nat /\ j \in Nat /\ Addr \subseteq Nat
    BY Sizes32
  <2>2. a + j + 1 \in Nat /\ a + j \in Nat
    BY <2>1
  <2>3. x \in Addr /\ y \in Addr
    BY <2>2, Sizes32
  <2>4. QED
    BY <2>1, <2>3 DEF Unit, FlashCmd
<1>2. d \in Rest /\ d # <<>>
  <2>1. CASE n - j = 0
    <3>1. d = Then(Op("deselect"), <<>>) /\ <<>> \in Rest /\ Op("deselect") \in FlashAccess
      BY <1>1, <2>1, ReadLoop, Pieces, Joined
    <3> HIDE DEF d
    <3>2. QED
      BY <3>1, Leading
  <2>2. CASE n - j > 0
    <3>1. d = Then(Op("read"), Reading32((n - j) - 1)) /\ Op("read") \in FlashAccess
      BY <1>1, <2>2, ReadLoop, Pieces
    <3>2. Reading32((n - j) - 1) \in Rest
      <4>1. (n - j) - 1 \in Nat
        BY <1>1, <2>2
      <4>2. QED
        BY <4>1, ReadLoop
    <3> HIDE DEF d
    <3>3. QED
      BY <3>1, <3>2, Leading
  <2>3. QED
    BY <1>1, <2>1, <2>2
<1>3. /\ ops = d /\ Open(u) /\ session.cmd # "none" /\ Len(buf) = j
      /\ was.rest => ~wip /\ Settled = s /\ Held = goal[y] /\ buf = FromFlash(j)
  BY DEF FlashFetching
<1>4. FlashFetching(j, a, n)' <=>
        /\ ops' = d /\ Open(u)' /\ session'.cmd # "none" /\ Len(buf') = j
        /\ was'.rest => ~wip' /\ Settled' = s /\ Held' = goal'[y] /\ buf' = FromFlash(j)'
  BY DEF FlashFetching
<1>5. Sound /\ ops # <<>>
  BY <1>1, <1>2, <1>3, Places
<1> HIDE DEF d, s, x, y
<1>6. ASSUME Meanwhile PROVE FlashFetching(j, a, n)'
  <2>1. /\ UNCHANGED <<spics, ops, buf, was, goal, call>> /\ (~wip => wip' = wip)
        /\ (~spics /\ ~wip => Settled' = Settled /\ Held' = Held)
        /\ session.cmd # "none" /\ ~spics => session'.cmd = session.cmd
    BY <1>5, <1>6, CoreKeeps DEF Sound
  <2>2. Open(u)' /\ ~spics
    <3>1. Open(u)'
      BY <1>1, <1>3, <1>5, <1>6, CoreHolds DEF Sound
    <3>2. QED
      BY <1>3, <3>1 DEF Open
  <2>3. FromFlash(j)' = FromFlash(j)
    BY <2>1 DEF FromFlash
  <2> HIDE DEF u
  <2>4. QED
    BY <1>3, <1>4, <2>1, <2>2, <2>3
<1>7. /\ pump /\ ~spics /\ Settled.cmd \in {"READ", "busy"}
      /\ Idle => Settled = session /\ Held = rx
  BY <1>1, <1>3 DEF Open, Settled, Held
<1>8. ASSUME SpiProgram, n - j > 0
      PROVE  FlashTypes' /\ UNCHANGED <<spi32, call>> /\ \E i \in 0 .. n : FlashFetching(i, a, n)'
  <2>1. /\ ops = Then(Op("read"), Reading32(n - (j + 1))) /\ Reading32(n - (j + 1)) \in Rest
        /\ j + 1 \in 0 .. n
    <3>1. (n - j) - 1 = n - (j + 1) /\ n - (j + 1) \in Nat /\ j + 1 \in 0 .. n
      BY <1>1, <1>8
    <3>2. QED
      BY <1>1, <1>3, <1>8, <3>1, ReadLoop DEF d
  <2>2. /\ ops' = Reading32(n - (j + 1)) /\ Idle /\ FlashTypes'
        /\ UNCHANGED <<spi32, pump, spics, tx, rx, out, session, flash, goal, wel, wip, call, was>>
        /\ buf' = Append(buf, rx)
        /\ ~Idle' /\ Settled' = Take(tx) /\ Held' = Answer(tx)
    <3>1. "read" \in {"rx", "read"}
      OBVIOUS
    <3>2. QED
      BY <1>7, <1>8, <2>1, <3>1, InEffect
  <2>3. tx \in FlashUnit /\ buf \in Seq(Heard) /\ rx \in Heard /\ goal \in [Addr -> Word]
    BY DEF FlashTypes
  <2>4. Settled'.cmd = session.cmd
    BY <1>3, <2>2, <2>3, Taken
  <2>5. Open(u)'
    BY <1>1, <1>7, <2>2, <2>4 DEF Open
  <2>6. Len(buf') = j + 1
    BY <1>3, <2>2, <2>3
  <2>7. (x + 1) % Words = (a + (j + 1) + 1) % Words /\ x = (a + (j + 1)) % Words
    <3>1. PICK k \in Nat : k = a + j + 1
      BY <1>1
    <3>2. ((k % Words) + 1) % Words = (k + 1) % Words
      BY <3>1, Sizes32, ModStep
    <3>3. k + 1 = a + (j + 1) + 1 /\ k = a + (j + 1)
      BY <1>1, <3>1
    <3>4. QED
      BY <3>1, <3>2, <3>3 DEF x
  <2>8. ASSUME was.rest
        PROVE  /\ Settled' = Opened("READ", (a + (j + 1) + 1) % Words, 0, <<>>)
               /\ Held' = goal'[(a + (j + 1)) % Words]
               /\ buf' = FromFlash(j + 1)'
    <3>1. session = Opened("READ", x, 0, <<>>) /\ rx = goal[y] /\ buf = FromFlash(j)
      BY <1>3, <1>7, <2>2, <2>8 DEF s
    <3>2. Take(tx) = Opened("READ", (x + 1) % Words, 0, <<>>) /\ Answer(tx) = goal[x]
      BY <1>1, <1>3, <2>3, <2>8, <3>1, TakenFrom DEF FlashTypes
    <3>3. FromFlash(j + 1)' = FromFlash(j + 1)
      BY <2>2 DEF FromFlash
    <3>4. Append(FromFlash(j), goal[y]) = FromFlash(j + 1)
      <4> DEFINE v == FromFlash(j)
                 w == FromFlash(j + 1)
                 g(k) == goal[(a + k - 1) % Words]
      <4>1. \A k \in 1 .. j + 1 : g(k) \in Word
        <5>1. ASSUME NEW k \in 1 .. j + 1 PROVE g(k) \in Word
          <6>1. a + k - 1 \in Nat
            BY <1>1
          <6>2. QED
            BY <2>3, <6>1, Sizes32
        <5>2. QED
          BY <5>1
      <4>2. v = [k \in 1 .. j |-> g(k)] /\ w = [k \in 1 .. j + 1 |-> g(k)]
        BY DEF FromFlash
      <4>3. g(j + 1) = goal[y]
        <5>1. a + (j + 1) - 1 = a + j
          BY <1>1
        <5>2. QED
          BY <5>1 DEF y
      <4> HIDE DEF v, w, g
      <4>4. /\ v \in Seq(Word) /\ Len(v) = j /\ w \in Seq(Word) /\ Len(w) = j + 1
            /\ (\A k \in 1 .. j : v[k] = g(k)) /\ (\A k \in 1 .. j + 1 : w[k] = g(k))
        <5>1. (\A k \in 1 .. j : g(k) \in Word) /\ j \in Nat /\ j + 1 \in Nat
          BY <4>1
        <5>2. v \in Seq(Word) /\ Len(v) = j /\ \A k \in 1 .. j : v[k] = g(k)
          BY <4>2, <5>1
        <5>3. w \in Seq(Word) /\ Len(w) = j + 1 /\ \A k \in 1 .. j + 1 : w[k] = g(k)
          BY <4>1, <4>2, <5>1
        <5>4. QED
          BY <5>2, <5>3
      <4>5. Append(v, g(j + 1)) \in Seq(Word) /\ Len(Append(v, g(j + 1))) = j + 1
            /\ \A k \in 1 .. j + 1 : Append(v, g(j + 1))[k] = g(k)
        <5>1. j + 1 \in 1 .. j + 1
          OBVIOUS
        <5>2. g(j + 1) \in Word
          BY <4>1, <5>1
        <5>3. QED
          BY <4>4, <5>2, AppendProperties
      <4>6. Append(v, g(j + 1)) = w
        BY <4>4, <4>5, SeqEqual
      <4>7. QED
        BY <4>3, <4>6 DEF v, w
    <3>5. QED
      BY <2>2, <2>7, <3>1, <3>2, <3>3, <3>4
  <2>9. FlashFetching(j + 1, a, n)'
    <3>1. /\ ops' = Reading32(n - (j + 1)) /\ Open(u)' /\ session'.cmd # "none"
          /\ Len(buf') = j + 1
          /\ was'.rest => /\ ~wip'
                          /\ Settled' = Opened("READ", (a + (j + 1) + 1) % Words, 0, <<>>)
                          /\ Held' = goal'[(a + (j + 1)) % Words]
                          /\ buf' = FromFlash(j + 1)'
      BY <1>3, <2>2, <2>5, <2>6, <2>8
    <3>2. QED
      BY <3>1 DEF FlashFetching
  <2>10. QED
    BY <2>1, <2>2, <2>9
<1>9. ASSUME SpiProgram, n - j = 0
      PROVE  FlashTypes' /\ UNCHANGED <<spi32, call>> /\ FetchedAll(a, n)'
  <2>1. ops = Then(Op("deselect"), <<>>) /\ <<>> \in Rest /\ j = n
    BY <1>1, <1>3, <1>9, ReadLoop, Joined DEF d
  <2>2. session.cmd \in {"READ", "busy"}
    <3>1. Idle => session.cmd \in {"READ", "busy"}
      BY <1>7
    <3>2. ~Idle => Settled.cmd = session.cmd
      <4>1. Coming \in FlashUnit
        BY DEF FlashTypes, Coming
      <4>2. QED
        BY <1>3, <4>1, Taken DEF Settled
    <3>3. QED
      BY <1>7, <3>1, <3>2
  <2>3. /\ ops' = <<>> /\ spics' /\ FlashTypes'
        /\ UNCHANGED <<spi32, tx, rx, state, out, call, buf, was, goal, wel, wip>>
        /\ (Idle => session' = Closed) /\ (~Idle => session' = session)
    BY <1>9, <2>1, <2>2, DeselectEffect
  <2>4. Outside'
    BY <2>2, <2>3 DEF Outside, Idle
  <2>5. FromFlash(j)' = FromFlash(j)
    BY <2>3 DEF FromFlash
  <2>6. FetchedAll(a, n)'
    BY <1>3, <2>1, <2>3, <2>4, <2>5 DEF FetchedAll
  <2>7. QED
    BY <2>3, <2>6
<1>10. n - j > 0 \/ n - j = 0
  BY <1>1
<1>11. QED
  BY <1>5, <1>6, <1>8, <1>9, <1>10

(* A read stays one, and what it returns was asked for.                    *)
LEMMA ReadingStep ==
  ASSUME FlashTypes, FlashReading
  PROVE  /\ Sound
         /\ Meanwhile => FlashReading'
         /\ SpiProgram => FlashTypes' /\ FlashReading'
         /\ ops = <<>> /\ was.rest => ~wip /\ buf = FromFlash(call.n)
<1>1. PICK a \in Addr, n \in 0 .. MaxRead :
        /\ call.op = "read" /\ call.a = a /\ call.n = n
        /\ \/ FlashOpening(a, n)
           \/ \E h \in 0 .. 3 : FlashSkipping(h, a, n)
           \/ \E j \in 0 .. n : FlashFetching(j, a, n)
           \/ FetchedAll(a, n)
  BY DEF FlashReading, FetchedAll
<1>2. n \in Nat
  BY Sizes32
<1>3. call' = call
        /\ (\/ FlashOpening(a, n)'
            \/ \E h \in 0 .. 3 : FlashSkipping(h, a, n)'
            \/ \E j \in 0 .. n : FlashFetching(j, a, n)'
            \/ FetchedAll(a, n)')
      => FlashReading'
  BY <1>1 DEF FlashReading, FetchedAll
<1>4. Meanwhile => call' = call
  BY DEF Meanwhile, Setup, Transfer, FlashWorks, spivars
<1>5. CASE FlashOpening(a, n)
  <2>1. /\ Sound /\ ops # <<>>
        /\ Meanwhile => FlashOpening(a, n)'
        /\ SpiProgram => /\ FlashTypes' /\ UNCHANGED <<spi32, call>>
                         /\ FlashOpening(a, n)' \/ \E h \in 0 .. 3 : FlashSkipping(h, a, n)'
    BY <1>2, <1>5, OpeningStep
  <2>2. QED
    BY <1>3, <1>4, <2>1
<1>6. ASSUME NEW h \in 0 .. 3, FlashSkipping(h, a, n)
      PROVE  /\ Sound /\ ops # <<>>
             /\ Meanwhile => FlashReading'
             /\ SpiProgram => FlashTypes' /\ FlashReading'
  <2>1. /\ Sound /\ ops # <<>>
        /\ Meanwhile => FlashSkipping(h, a, n)'
        /\ SpiProgram => /\ FlashTypes' /\ UNCHANGED <<spi32, call>>
                         /\ \/ \E g \in 0 .. 3 : FlashSkipping(g, a, n)'
                            \/ FlashFetching(0, a, n)'
    BY <1>1, <1>2, <1>6, SkippingStep
  <2>2. 0 \in 0 .. n
    BY <1>2
  <2>3. QED
    BY <1>3, <1>4, <2>1, <2>2
<1>7. ASSUME NEW j \in 0 .. n, FlashFetching(j, a, n)
      PROVE  /\ Sound /\ ops # <<>>
             /\ Meanwhile => FlashReading'
             /\ SpiProgram => FlashTypes' /\ FlashReading'
  <2>1. /\ Sound /\ ops # <<>>
        /\ Meanwhile => FlashFetching(j, a, n)'
        /\ SpiProgram => /\ FlashTypes' /\ UNCHANGED <<spi32, call>>
                         /\ \/ \E i \in 0 .. n : FlashFetching(i, a, n)'
                            \/ FetchedAll(a, n)'
    BY <1>1, <1>2, <1>7, FetchingStep
  <2>2. QED
    BY <1>3, <1>4, <2>1
<1>8. CASE FetchedAll(a, n)
  <2>1. Sound /\ ops = <<>> /\ Outside /\ Len(buf) = n /\ (was.rest => ~wip /\ buf = FromFlash(n))
    BY <1>8, Places DEF FetchedAll
  <2>2. ~SpiProgram
    BY <2>1, NoAccess
  <2>3. ASSUME Meanwhile PROVE FlashReading'
    <3>1. /\ UNCHANGED <<ops, buf, was, goal, call>>
          /\ (Outside => Outside') /\ (~wip => wip' = wip)
      BY <2>1, <2>3, CoreKeeps DEF Sound
    <3>2. FromFlash(n)' = FromFlash(n)
      BY <3>1 DEF FromFlash
    <3>3. FetchedAll(a, n)'
      BY <2>1, <3>1, <3>2 DEF FetchedAll
    <3>4. QED
      BY <1>3, <3>1, <3>3
  <2>4. QED
    BY <1>1, <2>1, <2>2, <2>3
<1>9. QED
  BY <1>1, <1>5, <1>6, <1>7, <1>8

(* A detection.                                                            *)
LEMMA DetectingStep ==
  ASSUME FlashTypes, FlashDetecting
  PROVE  /\ Sound
         /\ Meanwhile => FlashDetecting'
         /\ SpiProgram => FlashTypes' /\ FlashDetecting'
<1> DEFINE u == Unit("RDID", 0)
           z == Then(Op("read"), <<>>)
           d == Detected
           X == Then(Op("wait"), d)
           y == Then(Tx(u), X)
           e == Then(Op("select"), y)
<1>1. /\ u \in FlashUnit /\ Tx(u) \in FlashAccess /\ u.cmd = "RDID" /\ u.a = 0 /\ 0 \in Addr
      /\ 0 \in Nat /\ "RDID" \in FlashCmd
      /\ \A o \in {"select", "deselect", "wait", "read"} : Op(o) \in FlashAccess
  BY FlashAccesses, Sizes32 DEF FlashCmd
<1>2. z \in Rest /\ z # <<>>
  <2>1. <<>> \in Rest
    BY Joined
  <2>2. QED
    BY <1>1, <2>1, Leading
<1>3. d \in Rest /\ d # <<>> /\ d = Then(Op("deselect"), z)
  <2>1. d = Then(Op("deselect"), z)
    BY DEF Detected
  <2> HIDE DEF d, z
  <2>2. QED
    BY <1>1, <1>2, <2>1, Leading
<1>4. X \in Rest /\ X # <<>>
  <2> HIDE DEF d
  <2>1. QED
    BY <1>1, <1>3, Leading
<1>5. y \in Rest /\ y # <<>>
  <2> HIDE DEF X, u
  <2>1. QED
    BY <1>1, <1>4, Leading
<1>6. e # <<>>
  <2> HIDE DEF y
  <2>1. QED
    BY <1>1, <1>5, Leading
<1>7. FlashDetecting <=>
        /\ call.op = "detect"
        /\ \/ ops = e /\ Outside /\ buf = <<>>
           \/ ops = y /\ Chosen /\ buf = <<>>
           \/ ops = X /\ Open(u) /\ buf = <<>>
           \/ ops = d /\ Open(u) /\ Idle /\ buf = <<>>
           \/ ops = z /\ Outside /\ Idle /\ ~pump /\ buf = <<>>
           \/ ops = <<>> /\ Outside /\ Len(buf) = 1
  BY DEF FlashDetecting, Sending32
<1>8. FlashDetecting' <=>
        /\ call'.op = "detect"
        /\ \/ ops' = e /\ Outside' /\ buf' = <<>>
           \/ ops' = y /\ Chosen' /\ buf' = <<>>
           \/ ops' = X /\ Open(u)' /\ buf' = <<>>
           \/ ops' = d /\ Open(u)' /\ Idle' /\ buf' = <<>>
           \/ ops' = z /\ Outside' /\ Idle' /\ ~pump' /\ buf' = <<>>
           \/ ops' = <<>> /\ Outside' /\ Len(buf') = 1
  BY DEF FlashDetecting, Sending32, Detected
<1> HIDE DEF z, d, X, y, e
<1>9. Sound
  BY <1>1, <1>2, <1>3, <1>4, <1>5, <1>6, <1>7, Places
<1>10. ASSUME Meanwhile PROVE FlashDetecting'
  <2>1. UNCHANGED <<ops, buf, call, pump>> /\ (Outside => Outside') /\ (Idle => Idle')
    BY <1>9, <1>10, CoreKeeps DEF Sound
  <2>2. (Chosen => Chosen') /\ (Open(u) => Open(u)')
    BY <1>1, <1>9, <1>10, CoreHolds DEF Sound
  <2> HIDE DEF u
  <2>3. QED
    BY <1>7, <1>8, <2>1, <2>2
<1>11. ASSUME SpiProgram PROVE FlashTypes' /\ FlashDetecting'
  <2>1. CASE ops = e /\ Outside /\ buf = <<>>
    <3>1. Tx(u) # Tx(Unit("RDSR", 0)) /\ Tx(u) # Op("deselect")
      <4>1. Unit("RDSR", 0).cmd = "RDSR" /\ \A v : Tx(v).unit = v /\ Tx(v).op = "tx"
            /\ Op("deselect").op = "deselect"
        BY DEF Unit, Tx, Op
      <4>2. QED
        BY <1>1, <4>1
    <3>2. ops = Then(Op("select"), Then(Tx(u), X))
      BY <2>1 DEF e, y
    <3> HIDE DEF u
    <3>3. /\ ops' = Then(Tx(u), X) /\ ~spics' /\ pump' /\ Still /\ FlashTypes'
          /\ (was'.rest <=> was.rest /\ Idle /\ ~wip)
      BY <1>1, <1>4, <1>11, <3>1, <3>2, SelectEffect
    <3>4. Chosen'
      BY <2>1, <3>3 DEF Chosen, Outside, Still, Idle, Closed
    <3>5. QED
      BY <1>7, <1>8, <2>1, <3>3, <3>4 DEF Still, y
  <2>2. CASE ops = y /\ Chosen /\ buf = <<>>
    <3>1. pump /\ ops = Then(Tx(u), X) /\ ~spics
      BY <2>2 DEF Chosen, y
    <3> HIDE DEF u
    <3>2. /\ ops' = X /\ FlashTypes'
          /\ UNCHANGED <<spi32, pump, spics, rx, out, session, flash, goal, wel, wip, call, buf, was>>
          /\ ~Idle'
          /\ Idle => Coming' = u
          /\ Idle /\ session.cmd = "none" => Settled'.cmd \in {u.cmd, "busy"}
          /\ session.cmd # "none" => Settled'.cmd = session.cmd
      BY <1>1, <1>4, <1>11, <3>1, TxEffect
    <3>3. Open(u)'
      BY <1>1, <2>2, <3>2 DEF Open, Chosen
    <3>4. call'.op = "detect"
      BY <1>7, <3>2
    <3>5. QED
      BY <1>8, <2>2, <3>2, <3>3, <3>4
  <2>3. CASE ops = X /\ Open(u) /\ buf = <<>>
    <3>1. ops' = d /\ Idle /\ FlashTypes' /\ Still /\ UNCHANGED <<pump, spics, was>>
      BY <1>3, <1>11, <2>3, PauseEffect DEF X
    <3>2. Idle' /\ Settled' = session' /\ Settled = session
      BY <3>1 DEF Still, Idle, Settled
    <3>3. Open(u)'
      BY <2>3, <3>1, <3>2 DEF Still, Open
    <3>4. QED
      BY <1>7, <1>8, <2>3, <3>1, <3>2, <3>3 DEF Still
  <2>4. CASE ops = d /\ Open(u) /\ Idle /\ buf = <<>>
    <3>1. session.cmd \in {"RDID", "READ", "busy"}
      BY <1>1, <2>4 DEF Open, Settled
    <3>2. /\ ops' = z /\ spics' /\ ~pump' /\ FlashTypes'
          /\ UNCHANGED <<spi32, tx, rx, state, out, call, buf, was>>
          /\ session' = Closed
      BY <1>2, <1>3, <1>11, <2>4, DeselectEffect
    <3>3. Outside' /\ Idle'
      BY <2>4, <3>2 DEF Outside, Idle
    <3>4. QED
      BY <1>7, <1>8, <2>4, <3>2, <3>3
  <2>5. CASE ops = z /\ Outside /\ Idle /\ ~pump /\ buf = <<>>
    <3>1. ops = Then(Op("read"), <<>>) /\ <<>> \in Rest
      BY <2>5, Joined DEF z
    <3>2. /\ ops' = <<>> /\ FlashTypes' /\ Idle'
          /\ UNCHANGED <<spi32, pump, spics, tx, rx, out, session, flash, goal, wel, wip, call, was>>
          /\ buf' = Append(buf, rx)
      <4>1. "read" \in {"rx", "read"}
        OBVIOUS
      <4>2. QED
        BY <1>11, <2>5, <3>1, <4>1, InEffect
    <3>3. Outside'
      BY <2>5, <3>2 DEF Outside, Idle
    <3>4. Len(buf') = 1
      BY <2>5, <3>2
    <3>5. QED
      BY <1>7, <1>8, <3>2, <3>3, <3>4
  <2>6. ops # <<>>
    BY <1>11, NoAccess
  <2>7. QED
    BY <1>7, <2>1, <2>2, <2>3, <2>4, <2>5, <2>6
<1>12. QED
  BY <1>9, <1>10, <1>11

(* An erase.                                                               *)
LEMMA ErasingStep ==
  ASSUME FlashTypes, FlashErasing
  PROVE  /\ Sound
         /\ Meanwhile => FlashErasing'
         /\ SpiProgram => FlashTypes' /\ FlashErasing'
         /\ ops = <<>> /\ was.rest => Changed /\ ~wel
<1> DEFINE z == Then(Op("deselect"), <<>>)
<1>1. /\ "SE" \in FlashCmd /\ "SE" \in {"SE", "PP"} /\ "wel" \in {"wip", "wel"}
      /\ 0 \in Nat /\ 0 \in Addr
      /\ Op("select") \in FlashAccess /\ Op("deselect") \in FlashAccess /\ <<>> \in Rest
  BY Sizes32, Pieces, Joined DEF FlashCmd
<1>2. z \in Rest /\ z # <<>>
  BY <1>1, Leading
<1>3. Emptied \in Rest /\ Emptied # <<>> /\ Emptied = Then(Op("select"), z)
  <2>1. Emptied = Then(Op("select"), z)
    BY DEF Emptied
  <2> HIDE DEF z
  <2>2. QED
    BY <1>1, <1>2, <2>1, Leading
<1>4. /\ call.op = "erase" /\ buf = <<>>
      /\ \/ FlashUpdating("SE", 0, 0, 0, "wel", Emptied)
         \/ ((ops = z /\ Ready32) \/ (ops = <<>> /\ Outside)) /\ (was.rest => Changed /\ ~wel)
  BY DEF FlashErasing
<1>5. FlashErasing' <=>
        /\ call'.op = "erase" /\ buf' = <<>>
        /\ \/ FlashUpdating("SE", 0, 0, 0, "wel", Emptied)'
           \/ /\ (ops' = z /\ Ready32') \/ (ops' = <<>> /\ Outside')
              /\ was'.rest => Changed' /\ ~wel'
  <2>1. Emptied' = Emptied
    BY DEF Emptied
  <2>2. QED
    BY <2>1 DEF FlashErasing
<1> HIDE DEF z
<1>6. CASE FlashUpdating("SE", 0, 0, 0, "wel", Emptied)
  <2>1. Sound /\ (ops = <<>> => FlashPolled("wel", Emptied))
    BY <1>1, <1>3, <1>6, UpdatingSound
  <2>2. ops # <<>>
    BY <1>3, <2>1 DEF FlashPolled
  <2>3. ASSUME Meanwhile PROVE FlashErasing'
    <3>1. FlashUpdating("SE", 0, 0, 0, "wel", Emptied)'
      BY <1>1, <1>6, <2>1, <2>3, UpdatingCore DEF Sound
    <3>2. UNCHANGED <<call, buf>>
      BY <2>3 DEF Meanwhile, Setup, Transfer, FlashWorks, spivars
    <3>3. QED
      BY <1>4, <1>5, <3>1, <3>2
  <2>4. ASSUME SpiProgram PROVE FlashTypes' /\ FlashErasing'
    <3>1. PartOf("SE", 0, 0, 0)
      BY <1>4 DEF PartOf
    <3>2. \/ FlashPolled("wel", Emptied) /\ Effective("SE", 0)
          \/ FlashTypes' /\ UNCHANGED <<spi32, call, buf>>
                         /\ FlashUpdating("SE", 0, 0, 0, "wel", Emptied)'
      BY <1>1, <1>3, <1>6, <2>4, <3>1, UpdatingStep
    <3>3. CASE FlashPolled("wel", Emptied) /\ Effective("SE", 0)
      <4>1. /\ ops = Then(Op("select"), z) /\ Outside /\ Idle
            /\ was.rest => Changed /\ ~wel
        BY <1>3, <3>3 DEF FlashPolled, Effective, Clear
      <4>2. z = Then(Op("deselect"), <<>>)
        BY DEF z
      <4>3. /\ ops' = z /\ ~spics' /\ pump' /\ Still /\ FlashTypes'
            /\ was'.flash = was.flash /\ (was'.rest => was.rest)
        BY <1>1, <2>4, <4>1, <4>2, SelectEffect
      <4>4. Ready32'
        BY <4>1, <4>3 DEF Ready32, Outside, Still, Idle
      <4>5. Changed => Changed'
        BY <4>3 DEF Still, Changed, Fits, Written
      <4>6. QED
        BY <1>4, <1>5, <4>1, <4>3, <4>4, <4>5 DEF Still
    <3>4. QED
      BY <1>4, <1>5, <3>2, <3>3
  <2>5. QED
    BY <2>1, <2>2, <2>3, <2>4
<1>7. CASE ops = z /\ Ready32 /\ (was.rest => Changed /\ ~wel)
  <2>1. Sound /\ ops # <<>>
    BY <1>2, <1>7, Places
  <2>2. ASSUME Meanwhile PROVE FlashErasing'
    <3>1. UNCHANGED <<ops, buf, was, call>> /\ (wel' => wel)
      BY <2>1, <2>2, CoreKeeps DEF Sound
    <3>2. Ready32' /\ (Changed => Changed')
      BY <1>7, <2>1, <2>2, CoreHolds DEF Sound
    <3>3. QED
      BY <1>4, <1>5, <1>7, <3>1, <3>2
  <2>3. ASSUME SpiProgram PROVE FlashTypes' /\ FlashErasing'
    <3>1. ops = Then(Op("deselect"), <<>>) /\ Idle /\ session = Closed /\ session.cmd = "none"
      BY <1>7 DEF z, Ready32, Closed
    <3>2. /\ ops' = <<>> /\ spics' /\ FlashTypes'
          /\ UNCHANGED <<spi32, tx, rx, state, out, call, buf, was, goal, wel, wip>>
          /\ session' = Closed
      BY <1>1, <2>3, <3>1, DeselectEffect
    <3>3. Outside' /\ (Changed => Changed')
      BY <3>1, <3>2 DEF Outside, Idle, Changed, Fits, Written
    <3>4. QED
      BY <1>4, <1>5, <1>7, <3>2, <3>3
  <2>4. QED
    BY <2>1, <2>2, <2>3
<1>8. CASE ops = <<>> /\ Outside /\ (was.rest => Changed /\ ~wel)
  <2>1. Sound /\ ~SpiProgram
    BY <1>8, Places, NoAccess
  <2>2. ASSUME Meanwhile PROVE FlashErasing'
    <3>1. UNCHANGED <<ops, buf, was, call>> /\ (wel' => wel) /\ Outside'
      BY <1>8, <2>1, <2>2, CoreKeeps DEF Sound
    <3>2. Changed => Changed'
      BY <1>8, <2>1, <2>2, CoreHolds DEF Sound
    <3>3. QED
      BY <1>4, <1>5, <1>8, <3>1, <3>2
  <2>3. QED
    BY <1>8, <2>1, <2>2
<1>9. QED
  BY <1>4, <1>6, <1>7, <1>8

(* A block of a write is the beginning of one, or ends with the next.      *)
LEMMA BlockLine32 ==
  ASSUME NEW a \in Addr, NEW f \in Nat, NEW n \in Nat
  PROVE  /\ Portion(n) \in Nat /\ Remains(a, f, n) \in Rest
         /\ write32(a, f, n) = Enabled32("PP", a, Unsent(f, Portion(n), "wip", Remains(a, f, n), 0))
<1> DEFINE r == Remains(a, f, n)
           m == Portion(n)
           x == Next32((a + PageWords) % Words, f + pagesize, n - pagesize)
<1>1. a \in Nat /\ <<>> \in Rest /\ pagesize \in Nat /\ PageWords \in Nat
  BY Sizes32, Joined
<1>2. n >= pagesize => x \in FlashAccess
  <2>1. a + PageWords \in Nat /\ f + pagesize \in Nat
    BY <1>1
  <2>2. (a + PageWords) % Words \in Addr
    BY <2>1, Sizes32
  <2>3. n >= pagesize => n - pagesize \in Nat
    BY <1>1
  <2>4. QED
    BY <2>1, <2>2, <2>3 DEF Next32, FlashAccess
<1>3. /\ r \in Rest /\ m \in Nat
      /\ n < pagesize => r = <<>> /\ m = n
      /\ n >= pagesize => r = <<x>> /\ m = pagesize
  <2>1. CASE n < pagesize
    <3>1. ~(n >= pagesize)
      BY <1>1, <2>1
    <3>2. QED
      BY <1>1, <2>1, <3>1 DEF Remains, Portion
  <2>2. CASE n >= pagesize
    <3>1. ~(n < pagesize) /\ x \in FlashAccess
      BY <1>1, <1>2, <2>2
    <3>2. r = Then(x, <<>>) /\ m = pagesize
      BY <3>1 DEF Remains, Portion
    <3> HIDE DEF x, r
    <3>3. Then(x, <<>>) \in Rest /\ Then(x, <<>>) = <<x>>
      BY <1>1, <3>1, Leading, InLine
    <3>4. QED
      BY <1>1, <3>1, <3>2, <3>3
  <2>3. QED
    BY <1>1, <2>1, <2>2
<1>4. write32(a, f, n) = IF n < pagesize THEN writeblk32(a, f, n)
                         ELSE writeblk32(a, f, pagesize) \o <<x>>
  BY DEF write32, Next32
<1> HIDE DEF r, m, x
<1>5. (writeblk32(a, f, m) \o r = writeblk32(a, f, m) /\ n < pagesize) \/ n >= pagesize
  <2>1. ASSUME n < pagesize PROVE writeblk32(a, f, m) \o r = writeblk32(a, f, m)
    <3>1. r = <<>> /\ m = n
      BY <1>3, <2>1
    <3>2. /\ writeblk32(a, f, n) \o <<>> =
              Enabled32("PP", a, Cat(Data(f, n), Then(Op("deselect"), Polled("wip", <<>>))))
          /\ writeblk32(a, f, n) =
              Enabled32("PP", a, Cat(Data(f, n), Then(Op("deselect"), Polled("wip", <<>>))))
      BY <1>1, BlockLine, ZenonT(30)
    <3>3. QED
      BY <3>1, <3>2
  <2>2. n < pagesize \/ n >= pagesize
    BY <1>1
  <2>3. QED
    BY <2>1, <2>2
<1>6. write32(a, f, n) = writeblk32(a, f, m) \o r
  <2>1. n >= pagesize => ~(n < pagesize)
    BY <1>1
  <2>2. QED
    BY <1>3, <1>4, <1>5, <2>1
<1>7. writeblk32(a, f, m) \o r =
        Enabled32("PP", a, Cat(Data(f, m), Then(Op("deselect"), Polled("wip", r))))
  <2>1. a \in Nat /\ f \in Nat /\ m \in Nat /\ r \in Rest
    BY <1>1, <1>3
  <2>2. QED
    BY <2>1, BlockLine, ZenonT(30)
<1>8. f + 0 = f /\ m - 0 = m
  BY <1>3
<1>9. Unsent(f, m, "wip", r, 0) = Cat(Data(f, m), Then(Op("deselect"), Polled("wip", r)))
  BY <1>8 DEF Unsent
<1>10. QED
  BY <1>3, <1>6, <1>7, <1>9 DEF r, m

(* The beginning of a block.                                               *)
LEMMA BlockBegins ==
  ASSUME NEW a \in Addr, NEW f \in Nat, NEW n \in Nat, ops' = write32(a, f, n), Outside', Kept'
  PROVE  FlashBlock(a, f, n)'
<1>1. FlashEnabling("PP", a, Unsent(f, Portion(n), "wip", Remains(a, f, n), 0))'
  <2>1. ops' = Enabled32("PP", a, Unsent(f, Portion(n), "wip", Remains(a, f, n), 0))
    BY BlockLine32
  <2>2. QED
    BY <2>1 DEF FlashEnabling, Unsent, Portion, Remains, Next32, pagesize
<1>2. QED
  BY <1>1 DEF FlashBlock, FlashUpdating

(* A write.                                                                *)
LEMMA WritingStep ==
  ASSUME FlashTypes, FlashWriting
  PROVE  /\ Sound
         /\ Meanwhile => FlashWriting'
         /\ SpiProgram => FlashTypes' /\ FlashWriting'
         /\ ops = <<>> /\ was.rest => Changed /\ ~wip /\ (call.n % pagesize # 0 => ~wel)
<1>1. PICK a \in Addr, f \in Nat, n \in Nat :
        /\ call.op = "write" /\ call.a \in Addr /\ call.n \in Nat /\ buf = <<>>
        /\ n % pagesize = call.n % pagesize /\ n <= call.n
        /\ call.n < pagesize => a = call.a /\ f = 0 /\ n = call.n
        /\ FlashBlock(a, f, n)
  BY DEF FlashWriting
<1> DEFINE m == Portion(n)
           r == Remains(a, f, n)
<1>2. call' = call /\ buf' = buf /\ FlashBlock(a, f, n)' => FlashWriting'
  BY <1>1 DEF FlashWriting
<1>3. /\ "PP" \in FlashCmd /\ "PP" \in {"SE", "PP"} /\ "wip" \in {"wip", "wel"}
      /\ pagesize \in Nat \ {0} /\ a \in Nat /\ m \in Nat /\ r \in Rest
  BY Sizes32, BlockLine32 DEF FlashCmd
<1>4. FlashUpdating("PP", a, f, m, "wip", r)
      /\ (FlashUpdating("PP", a, f, m, "wip", r)' => FlashBlock(a, f, n)')
  BY <1>1 DEF FlashBlock
<1>5. PartOf("PP", a, f, m)
  <2>1. call.n < pagesize => m = call.n
    BY <1>1 DEF Portion
  <2>2. QED
    BY <1>1, <2>1 DEF PartOf
<1>6. /\ n < pagesize => m = n /\ r = <<>>
      /\ n >= pagesize =>
           r = Then(Next32((a + PageWords) % Words, f + pagesize, n - pagesize), <<>>)
  <2>1. n >= pagesize => ~(n < pagesize)
    BY <1>3
  <2>2. QED
    BY <2>1 DEF Portion, Remains
<1> HIDE DEF m, r
<1>7. Sound /\ (ops = <<>> => FlashPolled("wip", r) /\ Effective("PP", m))
  BY <1>3, <1>4, UpdatingSound
<1>8. ASSUME Meanwhile PROVE FlashWriting'
  <2>1. FlashUpdating("PP", a, f, m, "wip", r)'
    BY <1>3, <1>4, <1>7, <1>8, UpdatingCore DEF Sound
  <2>2. UNCHANGED <<call, buf>>
    BY <1>8 DEF Meanwhile, Setup, Transfer, FlashWorks, spivars
  <2>3. QED
    BY <1>2, <1>4, <2>1, <2>2
<1>9. ASSUME n >= pagesize
      PROVE  /\ r = Then(Next32((a + PageWords) % Words, f + pagesize, n - pagesize), <<>>)
             /\ r # <<>>
             /\ (a + PageWords) % Words \in Addr /\ f + pagesize \in Nat /\ n - pagesize \in Nat
             /\ n - pagesize <= n /\ (n - pagesize) % pagesize = n % pagesize
             /\ call.n >= pagesize /\ ~(call.n < pagesize)
  <2> DEFINE x == Next32((a + PageWords) % Words, f + pagesize, n - pagesize)
  <2>1. a + PageWords \in Nat /\ f + pagesize \in Nat /\ n - pagesize \in Nat /\ n - pagesize <= n
        /\ call.n >= pagesize /\ ~(call.n < pagesize)
    <3>1. \A l \in Nat : n <= l /\ l \in Nat => l >= pagesize /\ ~(l < pagesize)
      BY <1>3, <1>9
    <3>2. call.n >= pagesize /\ ~(call.n < pagesize)
      BY <1>1, <3>1
    <3>3. n - pagesize \in Nat /\ n - pagesize <= n /\ f + pagesize \in Nat
      BY <1>3, <1>9
    <3>4. a + PageWords \in Nat
      BY <1>3, Sizes32
    <3>5. QED
      BY <3>2, <3>3, <3>4
  <2>2. (a + PageWords) % Words \in Addr
    BY <2>1, Sizes32
  <2>3. (n - pagesize) % pagesize = n % pagesize
    BY <1>3, <1>9, ModLess
  <2>4. x \in FlashAccess
    BY <2>1, <2>2 DEF Next32, FlashAccess
  <2>5. r = Then(x, <<>>)
    BY <1>6, <1>9
  <2> HIDE DEF x
  <2>6. r # <<>>
    BY <2>4, <2>5, Leading, Joined
  <2>7. QED
    BY <2>1, <2>2, <2>3, <2>5, <2>6 DEF x
<1>10. ASSUME SpiProgram PROVE FlashTypes' /\ FlashWriting'
  <2>1. \/ FlashPolled("wip", r) /\ Effective("PP", m)
        \/ FlashTypes' /\ UNCHANGED <<spi32, call, buf>>
                       /\ FlashUpdating("PP", a, f, m, "wip", r)'
    BY <1>3, <1>4, <1>5, <1>10, UpdatingStep
  <2>2. CASE FlashPolled("wip", r)
    <3>1. ops = r /\ Outside /\ ops # <<>>
      BY <1>10, <2>2, NoAccess DEF FlashPolled
    <3>2. n >= pagesize
      BY <1>3, <1>6, <3>1
    <3> DEFINE b == (a + PageWords) % Words
               g == f + pagesize
               k == n - pagesize
    <3>3. /\ ops = Then(Next32(b, g, k), <<>>) /\ b \in Addr /\ g \in Nat /\ k \in Nat
          /\ k <= n /\ k % pagesize = n % pagesize /\ ~(call.n < pagesize)
      BY <1>9, <3>1, <3>2
    <3> HIDE DEF b, g, k
    <3>4. ops' = write32(b, g, k) /\ FlashTypes' /\ Still /\ UNCHANGED <<pump, spics, was>>
      BY <1>10, <3>3, Joined, LoopEffect
    <3>5. Outside'
      BY <3>1, <3>4 DEF Outside, Idle, Still
    <3>6. Kept'
      <4>1. call'.op = "write" /\ ~(call'.n < pagesize)
        BY <1>1, <3>3, <3>4 DEF Still
      <4>2. QED
        BY <4>1 DEF Kept, pagesize
    <3>7. FlashBlock(b, g, k)'
      BY <3>3, <3>4, <3>5, <3>6, BlockBegins
    <3>8. k <= call.n
      BY <1>1, <3>3
    <3>9. call' = call /\ buf' = buf
      BY <3>4 DEF Still
    <3>10. FlashWriting'
      BY <1>1, <3>3, <3>7, <3>8, <3>9 DEF FlashWriting
    <3>11. QED
      BY <3>4, <3>10
  <2>3. QED
    BY <1>2, <1>4, <2>1, <2>2
<1>11. ASSUME ops = <<>>, was.rest
       PROVE  Changed /\ ~wip /\ (call.n % pagesize # 0 => ~wel)
  <2>1. ops = r /\ ~wip /\ Changed /\ (m > 0 => wip \/ ~wel)
    BY <1>7, <1>11 DEF FlashPolled, Effective, Clear
  <2>2. n < pagesize
    BY <1>3, <1>9, <1>11, <2>1
  <2>3. n % pagesize = n /\ m = n
    BY <1>3, <1>6, <2>2, ModSmall
  <2>4. call.n % pagesize # 0 => m > 0
    BY <1>1, <2>3
  <2>5. QED
    BY <2>1, <2>4
<1>12. QED
  BY <1>7, <1>8, <1>10, <1>11

(* A call begins one of the four.                                          *)
LEMMA FlashCalled ==
  ASSUME FlashTypes, Outside, Call
  PROVE  FlashTypes' /\ (FlashReading' \/ FlashDetecting' \/ FlashErasing' \/ FlashWriting')
<1>1. /\ buf' = <<>> /\ was' = [flash |-> goal, rest |-> TRUE]
      /\ UNCHANGED <<spi32, pump, spics, tx, rx, state, out, session, flash, goal, wel, wip>>
  BY DEF Call
<1>2. FlashTypes'
  <2>1. buf' \in Seq(Heard) /\ was' \in [flash : [Addr -> Word], rest : BOOLEAN]
    BY <1>1 DEF FlashTypes
  <2>2. QED
    BY <1>1, <2>1 DEF FlashTypes
<1>3. Outside' /\ Kept'
  BY <1>1 DEF Outside, Idle, Kept
<1>4. ASSUME NEW a \in Addr, NEW n \in 0 .. MaxRead,
             call' = [op |-> "read", a |-> a, n |-> n], ops' = read(a, n)
      PROVE  FlashReading'
  <2>1. a \in Nat /\ n \in Nat
    BY Sizes32
  <2>2. read(a, n) = Sending32("READ", a, Dummies(Skipped, a, n))
    BY <2>1, ReadLine DEF Dummies, Skipped
  <2>3. Skipped' = Skipped
    BY <1>1 DEF Skipped
  <2>4. ops' = Sending32("READ", a, Dummies(Skipped', a, n))
    BY <1>4, <2>2, <2>3
  <2>5. FlashOpening(a, n)'
    BY <1>1, <1>3, <2>4 DEF FlashOpening, Sending32, Dummies, Bytes8
  <2>6. call'.op = "read" /\ call'.a = a /\ call'.n = n
    BY <1>4
  <2>7. QED
    BY <2>5, <2>6 DEF FlashReading, FetchedAll
<1>5. ASSUME call' = [op |-> "detect"], ops' = detect
      PROVE  FlashDetecting'
  <2>1. ops' = Sending32("RDID", 0, Detected) /\ call'.op = "detect"
    BY <1>5, DetectLine DEF Detected
  <2>2. QED
    BY <1>1, <1>3, <2>1 DEF FlashDetecting, Detected
<1>6. ASSUME call' = [op |-> "erase"], ops' = erasesector(0)
      PROVE  FlashErasing'
  <2>1. Emptied \in Rest
    <3>1. <<>> \in Rest
      BY Joined
    <3>2. Then(Op("deselect"), <<>>) \in Rest
      BY <3>1, Pieces
    <3>3. QED
      BY <3>2, Pieces DEF Emptied
  <2>2. Unsent(0, 0, "wel", Emptied, 0) = Then(Op("deselect"), Polled("wel", Emptied))
    BY <2>1, UnsentRest
  <2>3. ops' = Enabled32("SE", 0, Unsent(0, 0, "wel", Emptied, 0)) /\ call'.op = "erase"
    BY <1>6, <2>2, EraseLine DEF Emptied
  <2>4. FlashEnabling("SE", 0, Unsent(0, 0, "wel", Emptied, 0))'
    BY <1>3, <2>3 DEF FlashEnabling, Unsent, Emptied
  <2>5. FlashUpdating("SE", 0, 0, 0, "wel", Emptied)'
    BY <2>4 DEF FlashUpdating, Emptied
  <2>6. QED
    BY <1>1, <2>3, <2>5 DEF FlashErasing
<1>7. ASSUME NEW a \in Addr, NEW n \in Lengths,
             call' = [op |-> "write", a |-> a, n |-> n], ops' = write32(a, 0, n)
      PROVE  FlashWriting'
  <2>1. n \in Nat /\ 0 \in Nat
    BY FlashAssumption
  <2>2. call'.op = "write" /\ call'.a = a /\ call'.n = n
    BY <1>7
  <2>3. FlashBlock(a, 0, n)'
    BY <1>3, <1>7, <2>1, BlockBegins
  <2>4. n <= n
    BY <2>1
  <2>5. QED
    BY <1>1, <2>1, <2>2, <2>3, <2>4 DEF FlashWriting
<1>8. QED
  BY <1>2, <1>4, <1>5, <1>6, <1>7 DEF Call

(* The invariant is kept,                                                  *)
LEMMA FlashStep == FlashInv /\ (SpiNext \/ UNCHANGED spivars) => FlashInv'
<1> SUFFICES ASSUME FlashInv, SpiNext \/ UNCHANGED spivars PROVE FlashInv'
  OBVIOUS
<1> DEFINE Uncalled == call.op = "none" /\ ops = <<>> /\ Outside /\ buf = <<>>
<1>1. /\ FlashTypes
      /\ Uncalled \/ FlashReading \/ FlashDetecting \/ FlashErasing \/ FlashWriting
  BY DEF FlashInv
<1>2. /\ Sound
      /\ Uncalled => ops = <<>> /\ (Meanwhile => Uncalled')
      /\ Meanwhile => /\ FlashReading => FlashReading'
                      /\ FlashDetecting => FlashDetecting'
                      /\ FlashErasing => FlashErasing'
                      /\ FlashWriting => FlashWriting'
      /\ SpiProgram => /\ FlashReading => FlashTypes' /\ FlashReading'
                       /\ FlashDetecting => FlashTypes' /\ FlashDetecting'
                       /\ FlashErasing => FlashTypes' /\ FlashErasing'
                       /\ FlashWriting => FlashTypes' /\ FlashWriting'
  <2>1. Uncalled => Sound
    BY Places
  <2>2. ASSUME Uncalled, Meanwhile PROVE Uncalled'
    BY <1>1, <2>1, <2>2, CoreKeeps DEF Sound
  <2>3. FlashReading => /\ Sound /\ (Meanwhile => FlashReading')
                        /\ (SpiProgram => FlashTypes' /\ FlashReading')
    BY <1>1, ReadingStep
  <2>4. FlashDetecting => /\ Sound /\ (Meanwhile => FlashDetecting')
                          /\ (SpiProgram => FlashTypes' /\ FlashDetecting')
    BY <1>1, DetectingStep
  <2>5. FlashErasing => /\ Sound /\ (Meanwhile => FlashErasing')
                        /\ (SpiProgram => FlashTypes' /\ FlashErasing')
    BY <1>1, ErasingStep
  <2>6. FlashWriting => /\ Sound /\ (Meanwhile => FlashWriting')
                        /\ (SpiProgram => FlashTypes' /\ FlashWriting')
    BY <1>1, WritingStep
  <2>7. Uncalled => ops = <<>>
    OBVIOUS
  <2> HIDE DEF Uncalled
  <2>8. QED
    BY <1>1, <2>1, <2>2, <2>3, <2>4, <2>5, <2>6, <2>7
<1>3. CASE Call
  <2>1. ops = <<>>
    BY <1>3 DEF Call
  <2>2. Outside
    BY <1>2, <2>1 DEF Sound
  <2>3. QED
    BY <1>1, <1>3, <2>2, FlashCalled DEF FlashInv
<1>4. CASE SpiProgram
  <2>1. ops # <<>>
    BY <1>4, NoAccess
  <2>2. QED
    BY <1>1, <1>2, <1>4, <2>1 DEF FlashInv
<1>5. CASE Meanwhile
  <2>1. FlashTypes'
    BY <1>1, <1>2, <1>5, CoreKeeps DEF Sound
  <2>2. QED
    BY <1>1, <1>2, <1>5, <2>1 DEF FlashInv
<1>6. QED
  BY <1>3, <1>4, <1>5 DEF SpiNext, SpiCore, Meanwhile

(* holds at the start,                                                     *)
LEMMA FlashStart == SpiInit => FlashInv
<1> SUFFICES ASSUME SpiInit PROVE FlashInv
  OBVIOUS
<1>1. Unit("byte", 0) \in FlashUnit /\ FF \in Heard /\ 0 \in Addr /\ Addr \subseteq Nat
  BY FlashAccesses, Sizes32 DEF FF, Heard, Word
<1>2. session \in Sessions /\ session.fill = <<>>
  BY <1>1 DEF SpiInit, Closed, Sessions
<1>3. flash \in [Addr -> Word] /\ goal = flash
  BY <1>1 DEF SpiInit, Word
<1>4. FlashTypes
  <2>1. was \in [flash : [Addr -> Word], rest : BOOLEAN] /\ buf \in Seq(Heard)
    BY <1>3 DEF SpiInit
  <2>2. QED
    BY <1>1, <1>2, <1>3, <2>1 DEF SpiInit, Nothing, FlashTypes, Sessions
<1>5. call.op = "none" /\ ops = <<>> /\ Outside /\ buf = <<>>
  BY DEF SpiInit, Outside, Idle
<1>6. QED
  BY <1>4, <1>5 DEF FlashInv

(* and implies what the calls promise.                                     *)
LEMMA FlashPromises == FlashInv => FlashRight /\ FlashTypeOK
<1> SUFFICES ASSUME FlashInv PROVE FlashRight /\ FlashTypeOK
  OBVIOUS
<1>1. /\ FlashTypes
      /\ \/ call.op = "none" /\ buf = <<>>
         \/ FlashReading \/ FlashDetecting \/ FlashErasing \/ FlashWriting
  BY DEF FlashInv
<1>2. /\ FlashReading => call.op = "read"
      /\ FlashDetecting => call.op = "detect"
      /\ FlashErasing => call.op = "erase" /\ buf = <<>>
      /\ FlashWriting => call.op = "write" /\ buf = <<>>
  BY DEF FlashReading, FetchedAll, FlashDetecting, FlashErasing, FlashWriting
<1>3. ReadRight
  <2>1. ASSUME Done("read") PROVE ~wip /\ flash = goal /\ buf = FromFlash(call.n)
    BY <1>1, <1>2, <2>1, ReadingStep DEF Done, FlashTypes
  <2>2. QED
    BY <2>1 DEF ReadRight, FromFlash
<1>4. Done("erase") => goal = [i \in Addr |-> FF] /\ ~wel
  <2>1. ASSUME Done("erase") PROVE Changed /\ ~wel
    BY <1>1, <1>2, <2>1, ErasingStep DEF Done
  <2>2. QED
    BY <2>1 DEF Changed, Done
<1>5. Done("write") => Changed /\ ~wip /\ (call.n % pagesize # 0 => ~wel)
  BY <1>1, <1>2, WritingStep DEF Done
<1>6. WriteRight
  BY <1>1, <1>5 DEF WriteRight, Changed, Fits, Written, Done, OnePage, Written32, FlashTypes
<1>7. FlashRight
  BY <1>3, <1>4, <1>5, <1>6 DEF FlashRight, EraseRight, LeavesProtected
<1>8. Len(buf) <= MaxRead
  <2>1. MaxRead \in Nat /\ 1 <= MaxRead /\ Len(<<>>) = 0
    BY Sizes32
  <2>2. FlashReading => Len(buf) <= MaxRead
    <3>1. ASSUME FlashReading PROVE Len(buf) <= MaxRead
      <4>1. PICK a \in Addr, n \in 0 .. MaxRead :
              \/ FlashOpening(a, n)
              \/ \E h \in 0 .. 3 : FlashSkipping(h, a, n)
              \/ \E j \in 0 .. n : FlashFetching(j, a, n)
              \/ Len(buf) = n
        BY <3>1 DEF FlashReading, FetchedAll
      <4>2. \/ buf = <<>>
            \/ \E j \in 0 .. n : Len(buf) = j
        BY <4>1 DEF FlashOpening, FlashSkipping, FlashFetching
      <4>3. QED
        BY <2>1, <4>2
    <3>2. QED
      BY <3>1
  <2>3. FlashDetecting => buf = <<>> \/ Len(buf) = 1
    BY DEF FlashDetecting
  <2>4. QED
    BY <1>1, <1>2, <2>1, <2>2, <2>3
<1>9. FlashTypeOK
  <2>1. session.cmd \in {"none", "busy", "WREN"} => session.fill = <<>>
    BY <1>1 DEF FlashTypes
  <2>2. session.a \in Addr /\ session.skip \in 0 .. 3 /\ was.rest \in BOOLEAN
    BY <1>1 DEF FlashTypes
  <2>3. \A i \in Addr : flash[i] \in Word /\ goal[i] \in Word
    BY <1>1 DEF FlashTypes
  <2>4. /\ {spi32, pump, spics, wel, wip} \subseteq BOOLEAN
        /\ state \in {"S_IDLE", "S_SETUP", "S_TRANSFER"}
    BY <1>1 DEF FlashTypes
  <2>5. QED
    BY <1>8, <2>1, <2>2, <2>3, <2>4 DEF FlashTypeOK
<1>10. QED
  BY <1>7, <1>9

(* A step of any driver keeps it.                                          *)
LEMMA FlashNextStep == FlashInv /\ [Next]_vars => FlashInv'
<1>1. SUFFICES ASSUME FlashInv, [Next]_vars
              PROVE  SpiNext \/ UNCHANGED spivars
  BY FlashStep
<1>2. CASE Flash
  BY <1>2 DEF Flash
<1>3. CASE I2c
  BY <1>3 DEF I2c
<1>4. CASE TwoWire
  BY <1>4 DEF TwoWire
<1>5. CASE Library
  BY <1>5 DEF Library
<1>6. CASE UNCHANGED vars
  BY <1>6 DEF vars
<1>7. QED
  BY <1>1, <1>2, <1>3, <1>4, <1>5, <1>6 DEF Next

(* A call of the flash driver that begins with the flash at rest reads the *)
(* words that are stored, or writes its words where it was told to and     *)
(* leaves the flash at rest, or begins an erase, which may be under way    *)
(* yet: what FlashRight states, however long transfers and cycles last.    *)
THEOREM FlashRightCorrect == Spec => []FlashRight
<1>1. Init => FlashInv
  BY FlashStart DEF Init
<1>2. QED
  BY <1>1, FlashNextStep, FlashPromises, PTL DEF Spec

-----------------------------------------------------------------------------
(* The types of the two-wire driver.  The bounds of what is moved and      *)
(* stored are those of the accesses left, of which there are l: a call may *)
(* meet one transfer that an earlier one left, and begins its own; m are   *)
(* begun, and d bytes stored.                                              *)
TwiAccess == {Control({}), Control({"HOLD"}), Control({"AUTOARM", "HOLD"}), Control({"MACK"}),
              Control({"I2C_RESET"}), Sladdr("write"), Sladdr("read"), Rdata,
              Wait("go"), Wait("error"), Wait("release")}
               \cup {Wdata(b) : b \in 0 .. MaxBytes}

Begun == IF busy THEN moved + 1 ELSE moved

SendPace(n, l, m) ==
  /\ m <= n + 2
  /\ l >= 2 => m <= n + 1
  /\ l \in 4 .. 2 * n + 3 => 2 * (n + 1 - m) >= l - 4
  /\ l >= 2 * n + 3 => m <= 1

StorePace(n, l, d) ==
  /\ d <= n
  /\ l >= 1 => d <= n - 1
  /\ n > 1 => /\ l >= 5 => d <= n - 2
              /\ l \in 6 .. 2 * n + 2 => 2 * (n - 2 - d) >= l - 7
              /\ l >= 2 * n + 2 => d = 0

RecvPace(n, l, m) ==
  /\ m <= n + 2
  /\ l >= 3 => m <= n + 1
  /\ n = 1 /\ l >= 6 => m <= 1
  /\ n > 1 => /\ l \in 7 .. 2 * n + 3 => 2 * (n + 1 - m) >= l - 7
              /\ l >= 2 * n + 4 => m <= 2
              /\ l >= 2 * n + 8 => m <= 1

ProbePace(l, m) == m <= 2 /\ (l >= 2 => m <= 1)

PacedBy(l, d, m) ==
  IF err THEN d <= MaxBytes /\ m <= MaxBytes + 2 /\ (l > 0 => m <= 2)
  ELSE \/ twicall.op = "none" /\ d = 0 /\ m = 0
       \/ twicall.op = "send" /\ twicall.n \in 1 .. MaxBytes /\ d = 0 /\ SendPace(twicall.n, l, m)
       \/ /\ twicall.op = "recv" /\ twicall.n \in 1 .. MaxBytes
          /\ StorePace(twicall.n, l, d) /\ RecvPace(twicall.n, l, m)
       \/ twicall.op = "probe" /\ d = 0 /\ ProbePace(l, m)

TwiTypes ==
  /\ control \subseteq {"HOLD", "AUTOARM", "MACK"}
  /\ sladdr \in {"write", "read"} /\ bus \in {"free", "write", "read"}
  /\ nak \in BOOLEAN /\ busy \in BOOLEAN /\ late \in BOOLEAN /\ err \in BOOLEAN
  /\ retry \in 0 .. Retries
  /\ wdata \in 0 .. MaxBytes /\ rdata \in 0 .. MaxBytes + 2 /\ moved \in Nat
  /\ data \in Seq(Nat) /\ tops \in Seq(TwiAccess)
  /\ nacks \subseteq {"write", "read"} \X (0 .. MaxBytes)
  /\ PacedBy(Len(tops), Len(data), Begun)

(* With an access less, or a transfer less, the bounds hold all the more.  *)
LEMMA RecvEased ==
  ASSUME NEW n \in Nat \ {0}, NEW l \in Nat, NEW m \in Nat, RecvPace(n, l, m),
         NEW p \in Nat, p = l \/ p = l - 1, NEW q \in Nat, q <= m
  PROVE  RecvPace(n, p, q)
BY DEF RecvPace

(* The same of the bytes stored.                                           *)
LEMMA StoreEased ==
  ASSUME NEW n \in Nat \ {0}, NEW l \in Nat, NEW d \in Nat, StorePace(n, l, d),
         NEW p \in Nat, p = l \/ p = l - 1
  PROVE  StorePace(n, p, d)
BY DEF StorePace

(* And of a call.                                                          *)
LEMMA Eased ==
  ASSUME NEW l \in Nat, NEW d \in Nat, NEW m \in Nat, NEW p \in Nat, NEW q \in Nat,
         p = l \/ p = l - 1, q <= m, PacedBy(l, d, m)
  PROVE  PacedBy(p, d, q)
<1>1. CASE err
  BY <1>1, TwiAssumption DEF PacedBy
<1>2. CASE ~err /\ twicall.op = "none"
  BY <1>2 DEF PacedBy
<1>3. CASE ~err /\ twicall.op = "send"
  <2>1. PICK n \in 1 .. MaxBytes : n = twicall.n /\ d = 0 /\ SendPace(n, l, m)
    BY <1>3 DEF PacedBy
  <2>2. n \in Nat \ {0}
    BY TwiAssumption
  <2>3. SendPace(n, p, q)
    BY <2>1, <2>2 DEF SendPace
  <2>4. QED
    BY <1>3, <2>1, <2>3 DEF PacedBy
<1>4. CASE ~err /\ twicall.op = "recv"
  <2>1. PICK n \in 1 .. MaxBytes : n = twicall.n /\ StorePace(n, l, d) /\ RecvPace(n, l, m)
    BY <1>4 DEF PacedBy
  <2>2. n \in Nat \ {0}
    BY TwiAssumption
  <2>3. RecvPace(n, p, q) /\ StorePace(n, p, d)
    BY <2>1, <2>2, RecvEased, StoreEased
  <2>4. QED
    BY <1>4, <2>1, <2>3 DEF PacedBy
<1>5. CASE ~err /\ twicall.op = "probe"
  BY <1>5 DEF PacedBy, ProbePace
<1>6. QED
  BY <1>1, <1>2, <1>3, <1>4, <1>5 DEF PacedBy

(* They are what the types ask for.                                        *)
LEMMA Bounded ==
  ASSUME NEW l \in Nat, NEW d \in Nat, NEW m \in Nat, PacedBy(l, d, m)
  PROVE  d <= MaxBytes /\ m <= MaxBytes + 2
<1>1. MaxBytes \in Nat \ {0}
  BY TwiAssumption
<1>2. QED
  BY <1>1 DEF PacedBy, SendPace, StorePace, RecvPace, ProbePace

(* The number of accesses left tells the place.                            *)
LEMMA PlacesLeft ==
  ASSUME NEW k \in Nat, At(k), Script \in Seq(Access)
  PROVE  k \in 1 .. Len(Script) + 1 /\ Len(tops) = Len(Script) + 1 - k /\ Len(Script) \in Nat
<1> DEFINE s == Script
<1>0. Len(s) \in Nat /\ s \in Seq(Access) /\ k \in 1 .. Len(s) + 1 /\ tops = SubSeq(s, k, Len(s))
  BY LenProperties DEF At
<1> HIDE DEF s
<1>1. CASE k = Len(s) + 1
  <2>1. tops = <<>>
    BY <1>0, <1>1, SubSeqEmpty
  <2>2. QED
    BY <1>0, <1>1, <2>1 DEF s
<1>2. CASE k \in 1 .. Len(s)
  <2>1. \A i \in k .. Len(s) : s[i] \in Access
    <3>1. ASSUME NEW i \in k .. Len(s) PROVE s[i] \in Access
      <4>1. i \in 1 .. Len(s)
        BY <1>0
      <4>2. QED
        BY <1>0, <4>1, ElementOfSeq
    <3>2. QED
      BY <3>1
  <2>2. Len(tops) = Len(s) - k + 1
    BY <1>0, <1>2, <2>1, SubSeqProperties
  <2>3. QED
    BY <1>0, <1>2, <2>2 DEF s
<1>3. QED
  BY <1>0, <1>1, <1>2

(* A sequence has the type its elements have.                              *)
LEMMA Retyped ==
  ASSUME NEW S, NEW T, NEW s \in Seq(S), \A k \in 1 .. Len(s) : s[k] \in T
  PROVE  s \in Seq(T)
<1>1. Len(s) \in Nat /\ DOMAIN s = 1 .. Len(s) /\ s = [k \in 1 .. Len(s) |-> s[k]]
  BY LenProperties
<1>2. QED
  BY <1>1, IsASeq

(* The accesses of a call, one by one.                                     *)
LEMMA TwiAccesses ==
  /\ Control({}) \in TwiAccess /\ Control({"HOLD"}) \in TwiAccess
  /\ Control({"AUTOARM", "HOLD"}) \in TwiAccess /\ Control({"MACK"}) \in TwiAccess
  /\ Control({"I2C_RESET"}) \in TwiAccess
  /\ Sladdr("write") \in TwiAccess /\ Sladdr("read") \in TwiAccess /\ Rdata \in TwiAccess
  /\ Wait("go") \in TwiAccess /\ Wait("error") \in TwiAccess /\ Wait("release") \in TwiAccess
  /\ \A b \in 0 .. MaxBytes : Wdata(b) \in TwiAccess
  /\ 0 \in 0 .. MaxBytes /\ Wdata(0) \in TwiAccess
<1>1. 0 \in 0 .. MaxBytes
  BY TwiAssumption
<1>2. \A b \in 0 .. MaxBytes : Wdata(b) \in TwiAccess
  BY DEF TwiAccess
<1>3. QED
  BY <1>1, <1>2 DEF TwiAccess

(* The scripts are made of accesses with bytes of the call.                *)
LEMMA TypedScripts ==
  /\ \A n \in 1 .. MaxBytes : twi_send(n) \in Seq(TwiAccess) /\ Len(twi_send(n)) = 2 * n + 5
  /\ \A n \in 1 .. MaxBytes : /\ twi_recv(n) \in Seq(TwiAccess)
                              /\ n = 1 => Len(twi_recv(n)) = 8
                              /\ n > 1 => Len(twi_recv(n)) = 2 * n + 10
  /\ twi_probe \in Seq(TwiAccess) /\ Len(twi_probe) = 3
  /\ twi_reset \o twi_probe \in Seq(TwiAccess) /\ Len(twi_reset \o twi_probe) = 5
<1>1. ASSUME NEW n \in 1 .. MaxBytes
      PROVE  twi_send(n) \in Seq(TwiAccess) /\ Len(twi_send(n)) = 2 * n + 5
  <2>1. PICK s : s = twi_send(n)
    OBVIOUS
  <2>2. n \in Nat \ {0} /\ n <= MaxBytes /\ MaxBytes \in Nat
    BY TwiAssumption
  <2>3. /\ s \in Seq(Access) /\ Len(s) = 2 * n + 5
        /\ s[1] = Control({"HOLD"}) /\ s[2] = Sladdr("write") /\ s[3] = Wdata(0)
        /\ s[4] = Wait("release")
        /\ \A b \in 1 .. n - 1 : s[2 * b + 3] = Wdata(b) /\ s[2 * b + 4] = Wait("go")
        /\ s[2 * n + 3] = Control({}) /\ s[2 * n + 4] = Wdata(n)
        /\ s[2 * n + 5] = Wait("error")
    BY <2>1, <2>2, SendScript
  <2>4. ASSUME NEW k \in 1 .. 2 * n + 5 PROVE s[k] \in TwiAccess
    <3>1. CASE k \in {1, 2, 3, 4} \/ k \in {2 * n + 3, 2 * n + 4, 2 * n + 5}
      <4>1. n \in 0 .. MaxBytes
        BY <2>2
      <4>2. QED
        BY <2>3, <3>1, <4>1, TwiAccesses
    <3>2. ASSUME NEW b \in 1 .. n - 1, k \in {2 * b + 3, 2 * b + 4} PROVE s[k] \in TwiAccess
      <4>1. s[k] = Wdata(b) \/ s[k] = Wait("go")
        BY <2>3, <3>2
      <4>2. b \in 0 .. MaxBytes
        BY <2>2
      <4>3. QED
        BY <4>1, <4>2, TwiAccesses
    <3>3. QED
      BY <2>2, <3>1, <3>2, SendPlaces
  <2>5. QED
    BY <2>1, <2>3, <2>4, Retyped
<1>2. ASSUME NEW n \in 1 .. MaxBytes
      PROVE  /\ twi_recv(n) \in Seq(TwiAccess)
             /\ n = 1 => Len(twi_recv(n)) = 8
             /\ n > 1 => Len(twi_recv(n)) = 2 * n + 10
  <2>1. PICK s : s = twi_recv(n)
    OBVIOUS
  <2>2. n \in Nat \ {0} /\ 0 \in 0 .. MaxBytes
    BY TwiAssumption
  <2>3. /\ s \in Seq(Access)
        /\ s[1] = Control({}) /\ s[2] = Sladdr("write") /\ s[3] = Wdata(0)
        /\ s[4] = Wait("error") /\ s[5] = Sladdr("read")
    BY <2>1, <2>2, RecvScript
  <2>4. CASE n = 1
    <3>1. Len(s) = 8 /\ s[6] = Wdata(0) /\ s[7] = Wait("go") /\ s[8] = Rdata
      BY <2>1, <2>2, <2>4, RecvScript
    <3>2. \A k \in 1 .. 8 : s[k] \in TwiAccess
      BY <2>2, <2>3, <3>1, TwiAccesses
    <3>3. QED
      BY <2>1, <2>3, <2>4, <3>1, <3>2, Retyped, SMTT(30)
  <2>5. CASE n > 1
    <3>1. /\ Len(s) = 2 * n + 10
          /\ s[6] = Control({"AUTOARM", "HOLD"}) /\ s[7] = Wdata(0)
          /\ s[8] = Wait("go")
          /\ \A d \in 1 .. n - 2 : s[2 * d + 7] = Rdata /\ s[2 * d + 8] = Wait("go")
          /\ s[2 * n + 5] = Control({"MACK"}) /\ s[2 * n + 6] = Rdata
          /\ s[2 * n + 7] = Wait("go") /\ s[2 * n + 8] = Wdata(0)
          /\ s[2 * n + 9] = Wait("go") /\ s[2 * n + 10] = Rdata
      BY <2>1, <2>2, <2>5, RecvScript
    <3>2. ASSUME NEW k \in 1 .. 2 * n + 10 PROVE s[k] \in TwiAccess
      <4>1. CASE k \in 1 .. 8
        BY <2>2, <2>3, <3>1, <4>1, TwiAccesses
      <4>2. CASE k \in 2 * n + 5 .. 2 * n + 10
        <5>1. k \in {2 * n + 5, 2 * n + 6, 2 * n + 7, 2 * n + 8, 2 * n + 9, 2 * n + 10}
          BY <2>2, <4>2
        <5>2. QED
          BY <2>2, <3>1, <5>1, TwiAccesses
      <4>3. ASSUME NEW d \in 1 .. n - 2, k \in {2 * d + 7, 2 * d + 8} PROVE s[k] \in TwiAccess
        <5>1. s[k] = Rdata \/ s[k] = Wait("go")
          BY <3>1, <4>3
        <5>2. QED
          BY <5>1, TwiAccesses
      <4>4. QED
        BY <2>2, <2>5, <4>1, <4>2, <4>3, RecvPlaces
    <3>3. QED
      BY <2>1, <2>3, <2>5, <3>1, <3>2, Retyped
  <2>6. QED
    BY <2>2, <2>4, <2>5
<1>3. 0 \in 0 .. MaxBytes
  BY TwiAssumption
<1>4. /\ twi_probe \in Seq(TwiAccess) /\ Len(twi_probe) = 3
      /\ twi_reset \in Seq(TwiAccess) /\ Len(twi_reset) = 2
  <2>1. /\ Sladdr("write") \in TwiAccess /\ Wdata(0) \in TwiAccess /\ Wait("error") \in TwiAccess
        /\ Control({"I2C_RESET"}) \in TwiAccess /\ Control({}) \in TwiAccess
    BY <1>3, TwiAccesses
  <2>2. QED
    BY <2>1 DEF twi_probe, twi_reset
<1>5. QED
  <2>1. PICK r \in Seq(TwiAccess), p \in Seq(TwiAccess) :
          r = twi_reset /\ p = twi_probe /\ Len(r) = 2 /\ Len(p) = 3
    BY <1>4
  <2>2. r \o p \in Seq(TwiAccess) /\ Len(r \o p) = Len(r) + Len(p)
    BY ConcatProperties
  <2>3. QED
    BY <1>1, <1>2, <1>4, <2>1, <2>2

(* A call that goes on, with l accesses left.                              *)
UnderWay(op, n, l) ==
  CallInv /\ ~err /\ tops # <<>> /\ twicall.op = op /\ twicall.n = n /\ Len(tops) = l

(* Where a send writes a byte, and where a NAK makes it write another.     *)
LEMMA SendHead ==
  ASSUME NEW n \in Nat \ {0}, NEW l \in Nat, UnderWay("send", n, l)
  PROVE  /\ Head(tops).reg = "WDATA" =>
              l = 2 \/ l = 2 * n + 3 \/ \E b \in 1 .. n - 1 : l = 2 * n + 3 - 2 * b
         /\ Head(tops).reg # "RDATA"
         /\ Head(tops).reg = "STATUS" /\ Head(tops).ifnak = "release" => l = 2 * n + 2
<1>0. CallInv /\ ~err /\ tops # <<>> /\ twicall.n = n /\ Len(tops) = l
  BY DEF UnderWay
<1>1. PICK k \in Nat : At(k) /\ Sending(k)
  BY DEF CallInv, UnderWay
<1>2. PICK s : s = twi_send(n)
  OBVIOUS
<1>a. s = Script
  BY <1>2 DEF Script, UnderWay
<1>3. /\ s \in Seq(Access) /\ Len(s) = 2 * n + 5
      /\ s[1] = Control({"HOLD"}) /\ s[2] = Sladdr("write") /\ s[3] = Wdata(0)
      /\ s[4] = Wait("release")
      /\ \A b \in 1 .. n - 1 : s[2 * b + 3] = Wdata(b) /\ s[2 * b + 4] = Wait("go")
      /\ s[2 * n + 3] = Control({}) /\ s[2 * n + 4] = Wdata(n)
      /\ s[2 * n + 5] = Wait("error")
  BY <1>2, SendScript
<1>4. k \in 1 .. 2 * n + 5 /\ Head(tops) = s[k] /\ l = 2 * n + 6 - k
  <2>1. k \in 1 .. Len(s) /\ Head(tops) = s[k]
    BY <1>0, <1>1, <1>a, <1>3, Position
  <2>2. l = Len(s) + 1 - k
    BY <1>0, <1>1, <1>a, <1>3, PlacesLeft
  <2>3. QED
    BY <1>3, <2>1, <2>2
<1>5. CASE k \in {1, 2, 2 * n + 3, 2 * n + 5}
  <2>1. Head(tops) \in {Control({"HOLD"}), Sladdr("write"), Control({}), Wait("error")}
    BY <1>3, <1>4, <1>5
  <2>2. QED
    BY <2>1, Fields
<1>6. CASE k = 3 \/ k = 2 * n + 4
  <2>1. Head(tops) = Wdata(0) \/ Head(tops) = Wdata(n)
    BY <1>3, <1>4, <1>6
  <2>2. Head(tops).reg = "WDATA"
    BY <2>1, Fields
  <2>3. l = 2 * n + 3 \/ l = 2
    BY <1>4, <1>6
  <2>4. QED
    BY <2>2, <2>3
<1>7. CASE k = 4
  <2>1. Head(tops) = Wait("release") /\ l = 2 * n + 2
    BY <1>3, <1>4, <1>7
  <2>2. Head(tops).reg = "STATUS"
    BY <2>1, Fields
  <2>3. QED
    BY <2>1, <2>2
<1>8. ASSUME NEW b \in 1 .. n - 1, k = 2 * b + 3
      PROVE  Head(tops).reg = "WDATA" /\ l = 2 * n + 3 - 2 * b
  <2>1. Head(tops) = Wdata(b) /\ l = 2 * n + 3 - 2 * b
    BY <1>3, <1>4, <1>8
  <2>2. QED
    BY <2>1, Fields
<1>9. ASSUME NEW b \in 1 .. n - 1, k = 2 * b + 4
      PROVE  Head(tops).reg = "STATUS" /\ Head(tops).ifnak = "go"
  <2>1. Head(tops) = Wait("go")
    BY <1>3, <1>4, <1>9
  <2>2. QED
    BY <2>1, Fields
<1>10. \/ k \in {1, 2, 3, 4} \/ k \in {2 * n + 3, 2 * n + 4, 2 * n + 5}
       \/ \E b \in 1 .. n - 1 : k = 2 * b + 3 \/ k = 2 * b + 4
  BY <1>4, SendPlaces
<1>11. QED
  <2>1. CASE k \in {1, 2, 3, 4} \/ k \in {2 * n + 3, 2 * n + 4, 2 * n + 5}
    BY <1>5, <1>6, <1>7, <2>1
  <2>2. ASSUME NEW b \in 1 .. n - 1, k = 2 * b + 3
        PROVE  /\ Head(tops).reg = "WDATA" /\ l = 2 * n + 3 - 2 * b
    BY <1>8, <2>2
  <2>3. ASSUME NEW b \in 1 .. n - 1, k = 2 * b + 4
        PROVE  /\ Head(tops).reg = "STATUS" /\ Head(tops).ifnak = "go"
    BY <1>9, <2>3
  <2>4. QED
    BY <1>10, <2>1, <2>2, <2>3

(* Where a receive writes and reads one: the last read but one, and the    *)
(* last, begin no transfer.                                                *)
LEMMA RecvHead ==
  ASSUME NEW n \in Nat \ {0}, NEW l \in Nat, UnderWay("recv", n, l)
  PROVE  /\ Head(tops).reg = "WDATA" =>
              IF n = 1 THEN l \in {3, 6} ELSE l \in {3, 2 * n + 4, 2 * n + 8}
         /\ Head(tops).reg = "RDATA" => \/ l = 1 /\ "AUTOARM" \notin control
                                        \/ n > 1 /\ l = 5 /\ "AUTOARM" \notin control
                                        \/ n > 1 /\ \E d \in 1 .. n - 2 : l = 2 * n + 4 - 2 * d
         /\ ~(Head(tops).reg = "STATUS" /\ Head(tops).ifnak = "release")
<1>0. CallInv /\ ~err /\ tops # <<>> /\ twicall.n = n /\ Len(tops) = l
  BY DEF UnderWay
<1>1. PICK k \in Nat : At(k) /\ Receiving(k)
  BY DEF CallInv, UnderWay
<1>2. PICK s : s = twi_recv(n)
  OBVIOUS
<1>a. s = Script
  BY <1>2 DEF Script, UnderWay
<1>3. /\ s \in Seq(Access)
      /\ s[1] = Control({}) /\ s[2] = Sladdr("write") /\ s[3] = Wdata(0)
      /\ s[4] = Wait("error") /\ s[5] = Sladdr("read")
  BY <1>2, RecvScript
<1>4. RecvHold(k, n)
  BY <1>0, <1>1 DEF Receiving
<1>5. k \in 1 .. Len(s) /\ Head(tops) = s[k] /\ l = Len(s) + 1 - k /\ Len(s) \in Nat
  BY <1>0, <1>1, <1>a, <1>3, Position, PlacesLeft
<1>6. CASE k \in {1, 2, 4, 5}
  <2>1. Head(tops).reg \in {"CONTROL", "SLADDR"} \/ Head(tops) = Wait("error")
    BY <1>3, <1>5, <1>6, Fields
  <2>2. QED
    BY <2>1, Fields
<1>7. CASE k = 3
  <2>1. Head(tops).reg = "WDATA"
    BY <1>3, <1>5, <1>7, Fields
  <2>2. (n = 1 => Len(s) = 8) /\ (n > 1 => Len(s) = 2 * n + 10)
    BY <1>2, RecvScript
  <2>3. QED
    BY <1>5, <1>7, <2>1, <2>2
<1>8. CASE n = 1 /\ k > 5
  <2>1. Len(s) = 8 /\ s[6] = Wdata(0) /\ s[7] = Wait("go") /\ s[8] = Rdata
    BY <1>2, <1>8, RecvScript
  <2>2. k \in {6, 7, 8} /\ l = 9 - k
    BY <1>5, <1>8, <2>1
  <2>3. k = 6 => Head(tops).reg = "WDATA" /\ l = 3
    BY <1>5, <2>1, <2>2, Fields
  <2>4. k = 7 => Head(tops).reg = "STATUS" /\ Head(tops).ifnak = "go"
    BY <1>5, <2>1, Fields
  <2>5. k = 8 => Head(tops).reg = "RDATA" /\ l = 1 /\ "AUTOARM" \notin control
    BY <1>4, <1>5, <1>8, <2>1, <2>2, Fields DEF RecvHold, Plain
  <2>6. QED
    BY <1>8, <2>2, <2>3, <2>4, <2>5
<1>9. CASE n > 1 /\ k > 5
  <2>1. /\ Len(s) = 2 * n + 10
        /\ s[6] = Control({"AUTOARM", "HOLD"}) /\ s[7] = Wdata(0)
        /\ s[8] = Wait("go")
        /\ \A d \in 1 .. n - 2 : s[2 * d + 7] = Rdata /\ s[2 * d + 8] = Wait("go")
        /\ s[2 * n + 5] = Control({"MACK"}) /\ s[2 * n + 6] = Rdata
        /\ s[2 * n + 7] = Wait("go") /\ s[2 * n + 8] = Wdata(0)
        /\ s[2 * n + 9] = Wait("go") /\ s[2 * n + 10] = Rdata
    BY <1>2, <1>9, RecvScript
  <2>2. k \in 6 .. 2 * n + 10 /\ l = 2 * n + 11 - k
    BY <1>5, <1>9, <2>1
  <2>3. CASE k = 6 \/ k = 2 * n + 5
    <3>1. Head(tops) = Control({"AUTOARM", "HOLD"}) \/ Head(tops) = Control({"MACK"})
      BY <1>5, <2>1, <2>3
    <3>2. QED
      BY <3>1, Fields
  <2>4. CASE k = 7 \/ k = 2 * n + 8
    <3>1. Head(tops) = Wdata(0)
      BY <1>5, <2>1, <2>4
    <3>2. l = 2 * n + 4 \/ l = 3
      BY <2>2, <2>4
    <3>3. QED
      BY <1>9, <3>1, <3>2, Fields
  <2>5. CASE k = 8 \/ k = 2 * n + 7 \/ k = 2 * n + 9
    <3>1. Head(tops) = Wait("go")
      BY <1>5, <2>1, <2>5
    <3>2. QED
      BY <3>1, Fields
  <2>6. CASE k = 2 * n + 6 \/ k = 2 * n + 10
    <3>1. Head(tops) = Rdata
      BY <1>5, <2>1, <2>6
    <3>2. l = 5 \/ l = 1
      BY <2>2, <2>6
    <3>3. "AUTOARM" \notin control
      <4>1. ~(k \in 7 .. 2 * n + 5)
        BY <2>6
      <4>2. Plain
        BY <1>4, <4>1 DEF RecvHold
      <4>3. QED
        BY <4>2 DEF Plain
    <3>4. QED
      BY <1>9, <3>1, <3>2, <3>3, Fields
  <2>7. ASSUME NEW d \in 1 .. n - 2, k = 2 * d + 7
        PROVE  Head(tops).reg = "RDATA" /\ l = 2 * n + 4 - 2 * d
    <3>1. s[2 * d + 7] = Rdata
      BY <2>1
    <3>2. Head(tops) = Rdata
      BY <1>5, <2>7, <3>1
    <3>3. l = 2 * n + 4 - 2 * d
      BY <2>2, <2>7
    <3>4. QED
      BY <3>2, <3>3, Fields
  <2>8. ASSUME NEW d \in 1 .. n - 2, k = 2 * d + 8
        PROVE  Head(tops).reg = "STATUS" /\ Head(tops).ifnak = "go"
    <3>1. s[2 * d + 8] = Wait("go")
      BY <2>1
    <3>2. QED
      BY <1>5, <2>8, <3>1, Fields
  <2>9. \/ k = 6 \/ k = 2 * n + 5 \/ k = 7 \/ k = 2 * n + 8 \/ k = 8 \/ k = 2 * n + 7
        \/ k = 2 * n + 9 \/ k = 2 * n + 6 \/ k = 2 * n + 10
        \/ \E d \in 1 .. n - 2 : k = 2 * d + 7 \/ k = 2 * d + 8
    <3>1. n \in Nat \ {0, 1} /\ k \in 1 .. 2 * n + 10 /\ k >= 6
      BY <1>9, <2>2
    <3>2. \/ k \in 1 .. 8 \/ k \in 2 * n + 5 .. 2 * n + 10
          \/ \E d \in 1 .. n - 2 : k \in {2 * d + 7, 2 * d + 8}
      BY <3>1, RecvPlaces
    <3>3. CASE k \in 1 .. 8
      BY <3>1, <3>3
    <3>4. CASE k \in 2 * n + 5 .. 2 * n + 10
      BY <3>1, <3>4
    <3>5. QED
      BY <3>2, <3>3, <3>4
  <2>10. QED
    BY <1>9, <2>3, <2>4, <2>5, <2>6, <2>7, <2>8, <2>9
<1>10. k \in {1, 2, 4, 5} \/ k = 3 \/ k > 5
  BY <1>5
<1>11. QED
  BY <1>6, <1>7, <1>8, <1>9, <1>10

(* Where a probe writes its byte.                                          *)
LEMMA ProbeHead ==
  ASSUME NEW l \in Nat, CallInv, ~err, tops # <<>>, twicall.op = "probe", Len(tops) = l
  PROVE  /\ Head(tops).reg = "WDATA" => l = 2
         /\ Head(tops).reg # "RDATA"
         /\ ~(Head(tops).reg = "STATUS" /\ Head(tops).ifnak = "release")
<1>1. PICK k \in Nat : At(k)
  BY DEF CallInv
<1>2. PICK s : s = twi_reset \o twi_probe
  OBVIOUS
<1>3. Script = s
  BY <1>2 DEF Script
<1>4. /\ s \in Seq(Access) /\ Len(s) = 5
      /\ s[1] = Control({"I2C_RESET"}) /\ s[2] = Control({})
      /\ s[3] = Sladdr("write") /\ s[4] = Wdata(0) /\ s[5] = Wait("error")
  BY <1>2, ProbeScript
<1>5. k \in 1 .. 5 /\ Head(tops) = s[k] /\ l = 6 - k
  BY <1>1, <1>3, <1>4, Position, PlacesLeft
<1>6. \/ Head(tops) \in {Control({"I2C_RESET"}), Control({}), Sladdr("write"), Wait("error")}
      \/ k = 4 /\ Head(tops) = Wdata(0)
  BY <1>4, <1>5
<1>7. QED
  BY <1>5, <1>6, Fields

(* A refused call does not read, and does not wait.                        *)
LEMMA RefusedHead ==
  ASSUME CallInv, err, tops # <<>>
  PROVE  Head(tops).reg \notin {"RDATA", "STATUS"}
<1>1. tops = <<Control({}), Wdata(0)>> \/ tops = <<Wdata(0)>>
  BY DEF CallInv, Refusing
<1>2. Head(tops) = Control({}) \/ Head(tops) = Wdata(0)
  BY <1>1
<1>3. QED
  BY <1>2, Fields

(* The bounds allow for a transfer where a send begins one.                *)
LEMMA SendWrites ==
  ASSUME NEW n \in Nat \ {0}, NEW l \in Nat \ {0}, NEW m \in Nat, SendPace(n, l, m),
         l = 2 \/ l = 2 * n + 3 \/ \E b \in 1 .. n - 1 : l = 2 * n + 3 - 2 * b
  PROVE  SendPace(n, l - 1, m + 1)
<1>1. CASE l = 2
  BY <1>1 DEF SendPace
<1>2. CASE l = 2 * n + 3
  BY <1>2 DEF SendPace
<1>3. ASSUME NEW b \in 1 .. n - 1, l = 2 * n + 3 - 2 * b PROVE SendPace(n, l - 1, m + 1)
  <2>1. l \in 4 .. 2 * n + 3 /\ l - 4 = 2 * (n - b) - 1
    BY <1>3
  <2>2. 2 * (n + 1 - m) >= 2 * (n - b) - 1
    BY <2>1 DEF SendPace
  <2>3. n + 1 - m >= n - b
    BY <2>2
  <2>4. l - 1 = 2 * n + 2 - 2 * b /\ m + 1 <= b + 2
    BY <1>3, <2>3
  <2>5. QED
    BY <2>4 DEF SendPace
<1>4. QED
  BY <1>1, <1>2, <1>3

(* The same of a receive.                                                  *)
LEMMA RecvWrites ==
  ASSUME NEW n \in Nat \ {0}, NEW l \in Nat \ {0}, NEW m \in Nat, RecvPace(n, l, m),
         IF n = 1 THEN l \in {3, 6} ELSE l \in {3, 2 * n + 4, 2 * n + 8}
  PROVE  RecvPace(n, l - 1, m + 1)
<1>1. CASE l = 3
  BY <1>1 DEF RecvPace
<1>2. CASE n = 1 /\ l = 6
  BY <1>2 DEF RecvPace
<1>3. CASE n > 1 /\ l = 2 * n + 4
  BY <1>3 DEF RecvPace
<1>4. CASE n > 1 /\ l = 2 * n + 8
  BY <1>4 DEF RecvPace
<1>5. QED
  BY <1>1, <1>2, <1>3, <1>4

(* Reading with AUTOARM begins one.                                        *)
LEMMA RecvReads ==
  ASSUME NEW n \in Nat \ {0}, NEW l \in Nat \ {0}, NEW m \in Nat, RecvPace(n, l, m),
         NEW d \in 1 .. n - 2, l = 2 * n + 4 - 2 * d
  PROVE  RecvPace(n, l - 1, m + 1)
<1>1. n > 1 /\ l \in 7 .. 2 * n + 3 /\ l - 7 = 2 * (n - 1 - d) - 1
  OBVIOUS
<1>2. 2 * (n + 1 - m) >= 2 * (n - 1 - d) - 1
  BY <1>1 DEF RecvPace
<1>3. n + 1 - m >= n - 1 - d
  BY <1>2
<1>4. l - 1 = 2 * n + 3 - 2 * d /\ m + 1 <= d + 3
  BY <1>3
<1>5. QED
  BY <1>4 DEF RecvPace

(* What is read is stored.                                                 *)
LEMMA RecvStores ==
  ASSUME NEW n \in Nat \ {0}, NEW l \in Nat \ {0}, NEW d \in Nat, StorePace(n, l, d),
         \/ l = 1
         \/ n > 1 /\ l = 5
         \/ n > 1 /\ \E e \in 1 .. n - 2 : l = 2 * n + 4 - 2 * e
  PROVE  StorePace(n, l - 1, d + 1)
<1>1. CASE l = 1
  BY <1>1 DEF StorePace
<1>2. CASE n > 1 /\ l = 5
  BY <1>2 DEF StorePace
<1>3. ASSUME NEW e \in 1 .. n - 2, l = 2 * n + 4 - 2 * e, n > 1
      PROVE  StorePace(n, l - 1, d + 1)
  <2>1. l \in 6 .. 2 * n + 2 /\ l - 7 = 2 * (n - 1 - e) - 1
    BY <1>3
  <2>2. 2 * (n - 2 - d) >= 2 * (n - 1 - e) - 1
    BY <1>3, <2>1 DEF StorePace
  <2>3. n - 2 - d >= n - 1 - e
    BY <2>2
  <2>4. l - 1 = 2 * n + 3 - 2 * e /\ d + 1 <= e
    BY <1>3, <2>3
  <2>5. QED
    BY <1>3, <2>4 DEF StorePace
<1>4. QED
  BY <1>1, <1>2, <1>3

(* The bounds are of the call and its outcome.                             *)
LEMMA SamePace ==
  ASSUME NEW CONSTANT l, NEW CONSTANT d, NEW CONSTANT m, PacedBy(l, d, m),
         twicall' = twicall, err' = err
  PROVE  PacedBy(l, d, m)'
BY DEF PacedBy

(* An access that is not a wait takes one from those left; it may store a  *)
(* byte and begin a transfer where the bounds allow for it.                *)
LEMMA StorePaced ==
  ASSUME TwiTypes, CallInv, Store, NEW l \in Nat \ {0}, Len(tops) = l,
         NEW d \in Nat, Len(data) = d, NEW m \in Nat, Begun = m
  PROVE  /\ Head(tops).reg = "WDATA" => PacedBy(l - 1, d, m + 1)
         /\ Head(tops).reg = "RDATA" => /\ PacedBy(l - 1, d + 1, m)
                                        /\ "AUTOARM" \in control => PacedBy(l - 1, d + 1, m + 1)
<1>0. PacedBy(l, d, m) /\ tops # <<>>
  BY DEF TwiTypes, Store
<1>1. CASE err
  <2>1. Head(tops).reg # "RDATA"
    BY <1>0, <1>1, RefusedHead
  <2>2. d <= MaxBytes /\ m <= 2 /\ MaxBytes \in Nat \ {0}
    BY <1>0, <1>1, TwiAssumption DEF PacedBy
  <2>3. m + 1 <= MaxBytes + 2
    BY <2>2
  <2>4. l - 1 > 0 => Head(tops).reg # "WDATA"
    <3>1. tops = <<Control({}), Wdata(0)>> \/ tops = <<Wdata(0)>>
      BY <1>0, <1>1 DEF CallInv, Refusing
    <3>2. CASE tops = <<Control({}), Wdata(0)>>
      <4>1. Head(tops) = Control({})
        BY <3>2
      <4>2. QED
        BY <4>1, Fields
    <3>3. CASE tops = <<Wdata(0)>>
      <4>1. l = 1
        BY <3>3
      <4>2. QED
        BY <4>1
    <3>4. QED
      BY <3>1, <3>2, <3>3
  <2>5. Head(tops).reg = "WDATA" => PacedBy(l - 1, d, m + 1)
    BY <1>1, <2>2, <2>3, <2>4 DEF PacedBy
  <2>6. QED
    BY <2>1, <2>5
<1>2. CASE ~err /\ twicall.op = "none"
  BY <1>0, <1>2 DEF CallInv
<1>3. CASE ~err /\ twicall.op = "send"
  <2>1. PICK n \in 1 .. MaxBytes : n = twicall.n /\ d = 0 /\ SendPace(n, l, m)
    BY <1>0, <1>3 DEF PacedBy
  <2>2. n \in Nat \ {0}
    BY TwiAssumption
  <2>3. UnderWay("send", n, l)
    BY <1>0, <1>3, <2>1 DEF UnderWay
  <2>4. /\ Head(tops).reg = "WDATA" =>
              l = 2 \/ l = 2 * n + 3 \/ \E b \in 1 .. n - 1 : l = 2 * n + 3 - 2 * b
        /\ Head(tops).reg # "RDATA"
    BY <2>2, <2>3, SendHead
  <2>5. Head(tops).reg = "WDATA" => SendPace(n, l - 1, m + 1)
    <3>1. CASE l = 2 \/ l = 2 * n + 3 \/ \E b \in 1 .. n - 1 : l = 2 * n + 3 - 2 * b
      BY <2>1, <2>2, <3>1, SendWrites
    <3>2. QED
      BY <2>4, <3>1
  <2>6. SendPace(n, l - 1, m + 1) => PacedBy(l - 1, d, m + 1)
    BY <1>3, <2>1 DEF PacedBy
  <2>7. QED
    BY <2>4, <2>5, <2>6
<1>4. CASE ~err /\ twicall.op = "recv"
  <2>1. PICK n \in 1 .. MaxBytes : n = twicall.n /\ StorePace(n, l, d) /\ RecvPace(n, l, m)
    BY <1>0, <1>4 DEF PacedBy
  <2>2. n \in Nat \ {0}
    BY TwiAssumption
  <2>3. UnderWay("recv", n, l)
    BY <1>0, <1>4, <2>1 DEF UnderWay
  <2>4. /\ Head(tops).reg = "WDATA" =>
              IF n = 1 THEN l \in {3, 6} ELSE l \in {3, 2 * n + 4, 2 * n + 8}
        /\ Head(tops).reg = "RDATA" => \/ l = 1 /\ "AUTOARM" \notin control
                                       \/ n > 1 /\ l = 5 /\ "AUTOARM" \notin control
                                       \/ n > 1 /\ \E e \in 1 .. n - 2 : l = 2 * n + 4 - 2 * e
    BY <2>2, <2>3, RecvHead
  <2>5. ASSUME NEW p \in Nat, NEW q \in Nat, StorePace(n, l - 1, p), RecvPace(n, l - 1, q)
        PROVE  PacedBy(l - 1, p, q)
    BY <1>4, <2>1, <2>5 DEF PacedBy
  <2>7. ASSUME Head(tops).reg = "WDATA" PROVE PacedBy(l - 1, d, m + 1)
    <3>1. RecvPace(n, l - 1, m + 1)
      <4>1. IF n = 1 THEN l \in {3, 6} ELSE l \in {3, 2 * n + 4, 2 * n + 8}
        BY <2>4, <2>7
      <4>2. QED
        BY <2>1, <2>2, <4>1, RecvWrites
    <3>2. StorePace(n, l - 1, d)
      BY <2>1, <2>2, StoreEased
    <3>3. m + 1 \in Nat
      OBVIOUS
    <3>4. QED
      BY <2>5, <3>1, <3>2, <3>3
  <2>6. ASSUME Head(tops).reg = "RDATA"
        PROVE  /\ PacedBy(l - 1, d + 1, m)
               /\ "AUTOARM" \in control => PacedBy(l - 1, d + 1, m + 1)
    <3>1. StorePace(n, l - 1, d + 1)
      <4>1. \/ l = 1
            \/ n > 1 /\ l = 5
            \/ n > 1 /\ \E e \in 1 .. n - 2 : l = 2 * n + 4 - 2 * e
        BY <2>4, <2>6
      <4>2. QED
        BY <2>1, <2>2, <4>1, RecvStores
    <3>2. RecvPace(n, l - 1, m)
      BY <2>1, <2>2, RecvEased
    <3>3. m + 1 \in Nat /\ d + 1 \in Nat
      OBVIOUS
    <3>4. ASSUME "AUTOARM" \in control PROVE PacedBy(l - 1, d + 1, m + 1)
      <4>1. PICK e \in 1 .. n - 2 : l = 2 * n + 4 - 2 * e
        BY <2>4, <2>6, <3>4
      <4>2. RecvPace(n, l - 1, m + 1)
        BY <2>1, <2>2, <4>1, RecvReads
      <4>3. QED
        BY <2>5, <3>1, <3>3, <4>2
    <3>5. QED
      BY <2>5, <3>1, <3>2, <3>3, <3>4
  <2>8. QED
    BY <2>6, <2>7
<1>5. CASE ~err /\ twicall.op = "probe"
  <2>1. d = 0 /\ ProbePace(l, m)
    BY <1>0, <1>5 DEF PacedBy
  <2>2. Head(tops).reg # "RDATA" /\ (Head(tops).reg = "WDATA" => l = 2)
    BY <1>0, <1>5, ProbeHead
  <2>3. l = 2 => ProbePace(l - 1, m + 1)
    BY <2>1 DEF ProbePace
  <2>4. QED
    BY <1>5, <2>1, <2>2, <2>3 DEF PacedBy
<1>6. QED
  BY <1>0, <1>1, <1>2, <1>3, <1>4, <1>5 DEF PacedBy

(* What the first access left may be.                                      *)
LEMMA HeadTyped ==
  ASSUME tops \in Seq(TwiAccess), tops # <<>>
  PROVE  /\ Len(tops) \in Nat \ {0}
         /\ Tail(tops) \in Seq(TwiAccess) /\ Len(Tail(tops)) = Len(tops) - 1
         /\ Head(tops).reg = "CONTROL" => /\ Head(tops).v \subseteq {"HOLD", "AUTOARM", "MACK"}
                                          \/ Head(tops).v = {"I2C_RESET"}
         /\ Head(tops).reg = "SLADDR" => Head(tops).v \in {"write", "read"}
         /\ Head(tops).reg = "WDATA" => Head(tops).v \in 0 .. MaxBytes
<1>1. Len(tops) \in Nat \ {0} /\ Tail(tops) \in Seq(TwiAccess) /\ Len(Tail(tops)) = Len(tops) - 1
  BY EmptySeq, HeadTailProperties
<1>2. PICK a \in TwiAccess : Head(tops) = a
  BY HeadTailProperties
<1>3. \/ \E bits \in {{}, {"HOLD"}, {"AUTOARM", "HOLD"}, {"MACK"}, {"I2C_RESET"}} :
           a = Control(bits)
      \/ \E rw \in {"write", "read"} : a = Sladdr(rw)
      \/ a = Rdata
      \/ \E f : a = Wait(f)
      \/ \E b \in 0 .. MaxBytes : a = Wdata(b)
  BY DEF TwiAccess
<1>4. ASSUME NEW bits \in {{}, {"HOLD"}, {"AUTOARM", "HOLD"}, {"MACK"}, {"I2C_RESET"}},
             a = Control(bits)
      PROVE  a.reg = "CONTROL" /\ (a.v \subseteq {"HOLD", "AUTOARM", "MACK"} \/ a.v = {"I2C_RESET"})
  BY <1>4, Fields
<1>5. ASSUME NEW rw \in {"write", "read"}, a = Sladdr(rw)
      PROVE  a.reg = "SLADDR" /\ a.v \in {"write", "read"}
  BY <1>5, Fields
<1>6. ASSUME a = Rdata \/ \E f : a = Wait(f) PROVE a.reg \in {"RDATA", "STATUS"}
  BY <1>6, Fields
<1>7. ASSUME NEW b \in 0 .. MaxBytes, a = Wdata(b)
      PROVE  a.reg = "WDATA" /\ a.v \in 0 .. MaxBytes
  BY <1>7, Fields
<1>8. QED
  BY <1>1, <1>2, <1>3, <1>4, <1>5, <1>6, <1>7

(* A program step keeps within the bounds.                                 *)
LEMMA PaceKept ==
  ASSUME NEW CONSTANT l \in Nat, NEW CONSTANT d \in Nat, NEW CONSTANT m \in Nat, PacedBy(l, d, m),
         twicall' = twicall, err' = err, Len(tops') = l, Len(data') = d,
         Begun' \in Nat, Begun' <= m
  PROVE  PacedBy(Len(tops), Len(data), Begun)'
<1>1. PICK q \in Nat : q = Begun' /\ q <= m
  OBVIOUS
<1>2. PacedBy(l, d, q)
  BY <1>1, Eased
<1>3. PacedBy(l, d, q)'
  BY <1>2, SamePace
<1>4. QED
  BY <1>1, <1>3 DEF PacedBy

(* An access that is not a wait keeps the types.                           *)
LEMMA StoreTyped ==
  ASSUME TwiTypes, CallInv, Store
  PROVE  TwiTypes'
<1>1. /\ tops \in Seq(TwiAccess) /\ data \in Seq(Nat) /\ moved \in Nat /\ rdata \in Nat
      /\ tops # <<>> /\ PacedBy(Len(tops), Len(data), Begun)
  BY TwiAssumption DEF TwiTypes, Store
<1>2. PICK l \in Nat \ {0}, d \in Nat, m \in Nat : l = Len(tops) /\ d = Len(data) /\ m = Begun
  <2>1. Len(tops) \in Nat \ {0}
    BY <1>1, HeadTyped
  <2>2. Len(data) \in Nat
    BY <1>1, LenProperties
  <2>3. Begun \in Nat
    BY <1>1 DEF Begun
  <2>4. QED
    BY <2>1, <2>2, <2>3
<1>3. /\ control' \subseteq {"HOLD", "AUTOARM", "MACK"}
      /\ sladdr' \in {"write", "read"} /\ bus' \in {"free", "write", "read"}
      /\ wdata' \in 0 .. MaxBytes /\ rdata' \in 0 .. MaxBytes + 2 /\ moved' \in Nat
      /\ retry' \in 0 .. Retries /\ nacks' = nacks
  BY <1>1, HeadTyped DEF TwiTypes, Store, Reset
<1>4. nak' \in BOOLEAN /\ busy' \in BOOLEAN /\ late' \in BOOLEAN /\ err' \in BOOLEAN
  BY DEF TwiTypes, Store
<1>5. /\ tops' \in Seq(TwiAccess) /\ Len(tops') = l - 1
      /\ twicall' = twicall /\ err' = err /\ moved' = moved
  BY <1>1, <1>2, HeadTyped DEF Store
<1>6. data' \in Seq(Nat) /\ Len(data') = IF Head(tops).reg = "RDATA" THEN d + 1 ELSE d
  BY <1>1, <1>2 DEF Store
<1>7. /\ Begun' \in Nat /\ Begun' <= m + 1
      /\ Head(tops).reg # "WDATA" /\ ~(Head(tops).reg = "RDATA" /\ "AUTOARM" \in control) =>
           Begun' <= m
  <2>1. (busy' => \/ busy \/ Head(tops).reg = "WDATA"
                  \/ Head(tops).reg = "RDATA" /\ "AUTOARM" \in control)
    BY DEF Store
  <2>2. CASE busy'
    <3>1. Begun' = moved + 1
      BY <1>5, <2>2 DEF Begun
    <3>2. m = moved \/ m = moved + 1
      BY <1>2 DEF Begun
    <3>3. busy => m = moved + 1
      BY <1>2 DEF Begun
    <3>4. QED
      BY <1>1, <2>1, <2>2, <3>1, <3>2, <3>3
  <2>3. CASE ~busy'
    <3>1. Begun' = moved
      BY <1>5, <2>3 DEF Begun
    <3>2. m = moved \/ m = moved + 1
      BY <1>2 DEF Begun
    <3>3. QED
      BY <1>1, <3>1, <3>2
  <2>4. QED
    BY <2>2, <2>3
<1>8. PICK p \in Nat, q \in Nat, r \in Nat : p = l - 1 /\ q = m + 1 /\ r = d + 1
  OBVIOUS
<1>9. PacedBy(Len(tops), Len(data), Begun)'
  <2>1. /\ Head(tops).reg = "WDATA" => PacedBy(p, d, q)
        /\ Head(tops).reg = "RDATA" => /\ PacedBy(p, r, m)
                                       /\ "AUTOARM" \in control => PacedBy(p, r, q)
    BY <1>2, <1>8, StorePaced
  <2>2. CASE Head(tops).reg = "WDATA"
    BY <1>5, <1>6, <1>7, <1>8, <2>1, <2>2, PaceKept
  <2>3. CASE Head(tops).reg = "RDATA" /\ "AUTOARM" \in control
    BY <1>5, <1>6, <1>7, <1>8, <2>1, <2>3, PaceKept
  <2>4. CASE Head(tops).reg = "RDATA" /\ "AUTOARM" \notin control
    BY <1>5, <1>6, <1>7, <1>8, <2>1, <2>4, PaceKept
  <2>5. CASE Head(tops).reg \notin {"WDATA", "RDATA"}
    <3>1. PacedBy(p, d, m)
      BY <1>1, <1>2, <1>8, Eased
    <3>2. QED
      BY <1>5, <1>6, <1>7, <1>8, <2>5, <3>1, PaceKept
  <2>6. QED
    BY <2>2, <2>3, <2>4, <2>5
<1>10. QED
  BY <1>3, <1>4, <1>5, <1>6, <1>9 DEF TwiTypes

(* A wait that is over goes on, or ends the call, at once or after one     *)
(* more byte.                                                              *)
LEMMA WaitOverTyped ==
  ASSUME TwiTypes, CallInv, tops # <<>>, Head(tops).reg = "STATUS", WaitOver
  PROVE  TwiTypes'
<1>1. /\ tops \in Seq(TwiAccess) /\ data \in Seq(Nat) /\ moved \in Nat /\ rdata \in Nat
      /\ tops # <<>> /\ Head(tops).reg = "STATUS" /\ PacedBy(Len(tops), Len(data), Begun)
  BY TwiAssumption DEF TwiTypes
<1>2. PICK l \in Nat \ {0}, d \in Nat, m \in Nat : l = Len(tops) /\ d = Len(data) /\ m = Begun
  <2>1. Len(tops) \in Nat \ {0}
    BY <1>1, HeadTyped
  <2>2. Len(data) \in Nat
    BY <1>1, LenProperties
  <2>3. Begun \in Nat
    BY <1>1 DEF Begun
  <2>4. QED
    BY <2>1, <2>2, <2>3
<1>3. /\ UNCHANGED <<control, sladdr, wdata, rdata, nak, busy, bus, twicall, data, moved, nacks>>
      /\ retry' \in 0 .. Retries
  BY TwiAssumption DEF WaitOver
<1>4. err' \in BOOLEAN /\ late' \in BOOLEAN
  BY DEF TwiTypes, WaitOver
<1>5. Begun' = m /\ Len(data') = d
  BY <1>2, <1>3 DEF Begun
<1>6. ~err
  BY <1>1, RefusedHead
<1>7. tops' \in Seq(TwiAccess) /\ PacedBy(Len(tops), Len(data), Begun)'
  <2>1. CASE nak /\ Head(tops).ifnak = "release"
    <3>1. tops' = <<Control({}), Wdata(0)>> /\ err'
      BY <2>1 DEF WaitOver
    <3>2. tops' \in Seq(TwiAccess) /\ Len(tops') = 2
      BY <3>1, TwiAccesses
    <3>3. twicall.op \notin {"recv", "probe", "none"}
      <4>1. twicall.op # "probe"
        BY <1>1, <1>2, <1>6, <2>1, ProbeHead
      <4>2. ASSUME twicall.op = "recv" PROVE FALSE
        <5>1. PICK n \in 1 .. MaxBytes : n = twicall.n
          BY <1>1, <1>6, <4>2 DEF PacedBy
        <5>2. n \in Nat \ {0} /\ UnderWay("recv", n, l)
          BY <1>1, <1>2, <1>6, <4>2, <5>1, TwiAssumption DEF UnderWay
        <5>3. QED
          BY <1>1, <2>1, <5>2, RecvHead
      <4>3. twicall.op # "none"
        BY <1>1, <1>6 DEF CallInv
      <4>4. QED
        BY <4>1, <4>2, <4>3
    <3>4. PICK n \in 1 .. MaxBytes :
            n = twicall.n /\ twicall.op = "send" /\ d = 0 /\ SendPace(n, l, m)
      BY <1>1, <1>2, <1>6, <3>3 DEF PacedBy
    <3>5. n \in Nat \ {0} /\ UnderWay("send", n, l)
      BY <1>1, <1>2, <1>6, <3>4, TwiAssumption DEF UnderWay
    <3>6. l = 2 * n + 2
      BY <1>1, <2>1, <3>5, SendHead
    <3>7. m <= 2
      BY <3>4, <3>5, <3>6 DEF SendPace
    <3>8. d <= MaxBytes /\ m <= MaxBytes + 2
      BY <1>1, <1>2, Bounded
    <3>9. QED
      BY <1>5, <3>1, <3>2, <3>7, <3>8 DEF PacedBy
  <2>2. CASE nak /\ Head(tops).ifnak \notin {"go", "release"}
    <3>1. tops' = <<>> /\ err'
      BY <2>2 DEF WaitOver
    <3>2. tops' \in Seq(TwiAccess) /\ Len(tops') = 0
      BY <3>1
    <3>3. d <= MaxBytes /\ m <= MaxBytes + 2
      BY <1>1, <1>2, Bounded
    <3>4. QED
      BY <1>5, <3>1, <3>2, <3>3 DEF PacedBy
  <2>3. CASE ~nak \/ Head(tops).ifnak = "go"
    <3>1. tops' = Tail(tops)
      BY <2>3 DEF WaitOver
    <3>2. err' = err
      BY <1>6, <2>3 DEF WaitOver, TwiTypes
    <3>3. tops' \in Seq(TwiAccess) /\ Len(tops') = l - 1
      BY <1>1, <1>2, <3>1, HeadTyped
    <3>4. PICK p \in Nat : p = l - 1
      OBVIOUS
    <3>5. PacedBy(p, d, m)
      BY <1>1, <1>2, <3>4, Eased
    <3>6. PacedBy(Len(tops), Len(data), Begun)'
      BY <1>3, <1>5, <3>2, <3>3, <3>4, <3>5, PaceKept
    <3>7. QED
      BY <3>3, <3>6
  <2>4. QED
    BY <2>1, <2>2, <2>3
<1>8. QED
  BY <1>3, <1>4, <1>7 DEF TwiTypes

(* A poll counts.                                                          *)
LEMMA PollTyped ==
  ASSUME TwiTypes, Poll
  PROVE  TwiTypes'
<1>1. /\ UNCHANGED <<control, sladdr, wdata, rdata, nak, busy, bus, tops, twicall, err, data,
                     moved, nacks, late>>
      /\ retry' = retry - 1 /\ retry > 0
  BY DEF Poll
<1>2. retry' \in 0 .. Retries
  BY <1>1, TwiAssumption DEF TwiTypes
<1>3. QED
  BY <1>1, <1>2 DEF TwiTypes, PacedBy, Begun

(* A transfer that ends was begun.                                         *)
LEMMA TransferTyped ==
  ASSUME TwiTypes, Transferred
  PROVE  TwiTypes'
<1>1. /\ tops \in Seq(TwiAccess) /\ data \in Seq(Nat) /\ moved \in Nat
      /\ PacedBy(Len(tops), Len(data), Begun)
  BY DEF TwiTypes
<1>2. PICK l \in Nat, d \in Nat, m \in Nat : l = Len(tops) /\ d = Len(data) /\ m = moved + 1
  BY <1>1, LenProperties
<1>3. m = Begun
  BY <1>2 DEF Transferred, Begun
<1>4. UNCHANGED <<control, sladdr, wdata, retry, tops, twicall, err, data, late>> /\ ~busy'
  BY DEF Transferred
<1>5. /\ moved' \in Nat /\ moved' <= m
      /\ rdata' = rdata \/ rdata' = m
  BY <1>1, <1>2 DEF Transferred
<1>6. rdata' \in 0 .. MaxBytes + 2
  <2>1. m <= MaxBytes + 2
    BY <1>1, <1>2, <1>3, Bounded
  <2>2. QED
    BY <1>5, <2>1, TwiAssumption DEF TwiTypes
<1>7. bus' \in {"free", "write", "read"} /\ nak' \in BOOLEAN /\ busy' \in BOOLEAN
  BY DEF TwiTypes, Transferred
<1>8. nacks' \subseteq {"write", "read"} \X (0 .. MaxBytes)
  <2>1. nacks' \subseteq nacks \cup {<<sladdr, wdata>>}
    BY DEF Transferred
  <2>2. sladdr \in {"write", "read"} /\ wdata \in 0 .. MaxBytes
    BY DEF TwiTypes
  <2>3. QED
    BY <2>1, <2>2 DEF TwiTypes
<1>9. Begun' = moved'
  BY <1>4 DEF Begun
<1>10. PacedBy(Len(tops), Len(data), Begun)'
  BY <1>1, <1>2, <1>3, <1>4, <1>5, <1>9, PaceKept
<1>11. QED
  BY <1>4, <1>5, <1>6, <1>7, <1>8, <1>10 DEF TwiTypes

(* A call has all its accesses to make, and has begun at most what the one *)
(* before it left.                                                         *)
LEMMA CallTyped ==
  ASSUME TwiTypes, TwiCall
  PROVE  TwiTypes'
<1>1. /\ UNCHANGED <<control, sladdr, wdata, rdata, nak, busy, bus, retry>>
      /\ err' = FALSE /\ data' = <<>> /\ moved' = 0 /\ nacks' = {} /\ late' = busy
  BY DEF TwiCall
<1>2. data' \in Seq(Nat) /\ Len(data') = 0 /\ moved' \in Nat
  BY <1>1
<1>3. PICK m \in {0, 1} : m = Begun'
  BY <1>1 DEF Begun
<1>4. /\ tops' \in Seq(TwiAccess)
      /\ \E l \in Nat : Len(tops') = l /\ PacedBy(l, 0, m)'
  <2>1. ASSUME NEW n \in 1 .. MaxBytes, twicall' = [op |-> "send", n |-> n], tops' = twi_send(n)
        PROVE  tops' \in Seq(TwiAccess) /\ \E l \in Nat : Len(tops') = l /\ PacedBy(l, 0, m)'
    <3>1. PICK l \in Nat : l = 2 * n + 5 /\ Len(tops') = l /\ tops' \in Seq(TwiAccess)
      BY <2>1, TypedScripts
    <3>2. SendPace(n, l, m)
      BY <3>1 DEF SendPace
    <3>3. QED
      BY <1>1, <2>1, <3>1, <3>2 DEF PacedBy
  <2>2. ASSUME NEW n \in 1 .. MaxBytes, twicall' = [op |-> "recv", n |-> n], tops' = twi_recv(n)
        PROVE  tops' \in Seq(TwiAccess) /\ \E l \in Nat : Len(tops') = l /\ PacedBy(l, 0, m)'
    <3>1. PICK l \in Nat : /\ Len(tops') = l /\ tops' \in Seq(TwiAccess)
                           /\ n = 1 => l = 8
                           /\ n > 1 => l = 2 * n + 10
      <4>1. PICK s : s = twi_recv(n) /\ tops' = s
        BY <2>2
      <4>2. s \in Seq(TwiAccess) /\ (n = 1 => Len(s) = 8) /\ (n > 1 => Len(s) = 2 * n + 10)
        BY <4>1, TypedScripts
      <4>3. Len(s) \in Nat
        BY <4>2, LenProperties
      <4>4. QED
        BY <4>1, <4>2, <4>3
    <3>2. RecvPace(n, l, m)
      BY <3>1 DEF RecvPace
    <3>3. StorePace(n, l, 0)
      BY <3>1 DEF StorePace
    <3>4. QED
      BY <1>1, <2>2, <3>1, <3>2, <3>3 DEF PacedBy
  <2>3. ASSUME twicall' = [op |-> "probe"], tops' \in {twi_probe, twi_reset \o twi_probe}
        PROVE  tops' \in Seq(TwiAccess) /\ \E l \in Nat : Len(tops') = l /\ PacedBy(l, 0, m)'
    <3>1. PICK l \in Nat : Len(tops') = l /\ tops' \in Seq(TwiAccess)
      <4>1. PICK s \in Seq(TwiAccess) : tops' = s
        BY <2>3, TypedScripts
      <4>2. Len(s) \in Nat
        BY LenProperties
      <4>3. QED
        BY <4>1, <4>2
    <3>2. ProbePace(l, m)
      BY DEF ProbePace
    <3>3. QED
      BY <1>1, <2>3, <3>1, <3>2 DEF PacedBy
  <2>4. QED
    BY <2>1, <2>2, <2>3 DEF TwiCall
<1>5. PacedBy(Len(tops), Len(data), Begun)'
  BY <1>2, <1>3, <1>4 DEF PacedBy
<1>6. QED
  BY <1>1, <1>2, <1>4, <1>5 DEF TwiTypes

(* The types hold at the start, every step keeps them, and they are those  *)
(* the runs check.                                                         *)
LEMMA TwiTyped ==
  /\ TwiInit => TwiTypes
  /\ TwiTypes /\ TwiInv /\ TwiNext => TwiTypes'
  /\ TwiTypes => TwiTypeOK
<1>1. ASSUME TwiInit PROVE TwiTypes
  <2>1. /\ control \subseteq {"HOLD", "AUTOARM", "MACK"}
        /\ sladdr \in {"write", "read"} /\ bus \in {"free", "write", "read"}
        /\ nak \in BOOLEAN /\ busy \in BOOLEAN /\ late \in BOOLEAN /\ err \in BOOLEAN
    BY <1>1 DEF TwiInit
  <2>2. /\ retry \in 0 .. Retries /\ wdata \in 0 .. MaxBytes
        /\ rdata \in 0 .. MaxBytes + 2 /\ moved \in Nat
        /\ nacks \subseteq {"write", "read"} \X (0 .. MaxBytes)
    BY <1>1, TwiAssumption DEF TwiInit
  <2>3. data \in Seq(Nat) /\ tops \in Seq(TwiAccess) /\ Len(data) = 0 /\ Len(tops) = 0
    BY <1>1 DEF TwiInit
  <2>4. twicall.op = "none" /\ ~err /\ Begun = 0
    BY <1>1 DEF TwiInit, Begun
  <2>5. QED
    BY <2>1, <2>2, <2>3, <2>4 DEF TwiTypes, PacedBy
<1>2. TwiTypes /\ TwiInv /\ TwiNext => TwiTypes'
  <2>1. TwiTypes /\ TwiInv /\ (GoOn \/ Continue) => TwiTypes'
    BY WaitOverTyped DEF GoOn, Continue, Halted, TwiInv
  <2>2. QED
    BY <2>1, StoreTyped, PollTyped, TransferTyped, CallTyped DEF TwiNext, TwiProgram, TwiInv
<1>3. ASSUME TwiTypes PROVE TwiTypeOK
  <2>1. /\ control \subseteq {"HOLD", "AUTOARM", "MACK"}
        /\ sladdr \in {"write", "read"} /\ bus \in {"free", "write", "read"}
        /\ nak \in BOOLEAN /\ busy \in BOOLEAN /\ late \in BOOLEAN /\ err \in BOOLEAN
        /\ retry \in -1 .. Retries /\ wdata \in 0 .. MaxBytes
        /\ rdata \in 0 .. MaxBytes + 2 /\ moved \in Nat
        /\ nacks \subseteq {"write", "read"} \X (0 .. MaxBytes)
        /\ PacedBy(Len(tops), Len(data), Begun)
    BY <1>3, TwiAssumption DEF TwiTypes
  <2>2. Len(tops) \in Nat /\ Len(data) \in Nat
    BY <1>3, LenProperties DEF TwiTypes
  <2>3. Begun \in Nat /\ moved <= Begun
    BY <2>1 DEF Begun
  <2>4. Len(data) <= MaxBytes /\ Begun <= MaxBytes + 2
    BY <2>1, <2>2, <2>3, Bounded
  <2>5. moved \in 0 .. MaxBytes + 2
    BY <2>1, <2>3, <2>4, TwiAssumption
  <2>6. {nak, busy, late, err} \subseteq BOOLEAN
    BY <2>1
  <2>7. QED
    BY <2>1, <2>4, <2>5, <2>6 DEF TwiTypeOK
<1>4. QED
  BY <1>1, <1>2, <1>3

-----------------------------------------------------------------------------
(* The types of the OpenCores driver, beside those OcInv states.           *)
OcTypes ==
  /\ ocret \in SUBSET {"ERR_NACK", "write", "read"}
  /\ ocdata \in {{}} \cup {{v} : v \in Value}
  /\ held \in BOOLEAN
  /\ sel \in {"none", "reg", "data", "read"} /\ (sel # "none" => held)
  /\ ptr \in Reg

(* The commands of a call: a probe has but addresses and stops.            *)
Address(c) == c.what \in {"write", "read"} /\ c.cr = {"START", "WRITE"}

(* What the next command may be, and the bits of all of them.              *)
LEMMA Orders ==
  ASSUME OcInv
  PROVE  /\ crs # <<>> =>
              \/ Address(Head(crs))
              \/ Head(crs) = Stop
              \/ Head(crs) = i2c_read
              \/ Head(crs) = RegByte /\ occall.op # "probe" /\ occall.r \in Reg
              \/ Head(crs) = DataByte /\ occall.op # "probe"
         /\ \A i \in 1 .. Len(crs) : crs[i].cr \subseteq {"START", "STOP", "READ", "WRITE"}
<1>1. CASE Resting
  BY <1>1 DEF Resting
<1>2. CASE occall.op = "write" /\ Writing
  <2>1. Address(Begin("write", "stop")) /\ occall.r \in Reg /\ occall.op # "probe"
    BY <1>2, Bytes DEF Address, Writing
  <2>2. /\ Begin("write", "stop").cr = {"START", "WRITE"} /\ RegByte.cr = {"WRITE"}
        /\ DataByte.cr = {"WRITE", "STOP"} /\ Stop.cr = {"STOP"}
    BY Bytes
  <2>3. \/ crs = <<Begin("write", "stop"), RegByte, DataByte>>
        \/ crs = <<RegByte, DataByte>> \/ crs = <<DataByte>> \/ crs = <<Stop>> \/ crs = <<>>
    BY <1>2 DEF Writing, i2c_writereg, RegByte, DataByte
  <2>4. QED
    BY <2>1, <2>2, <2>3
<1>3. CASE occall.op = "read" /\ Reading
  <2>1. /\ Address(Begin("write", "stop")) /\ Address(Begin("read", "leave"))
        /\ occall.r \in Reg /\ occall.op # "probe"
    BY <1>3, Bytes DEF Address, Reading
  <2>2. /\ Begin("write", "stop").cr = {"START", "WRITE"} /\ RegByte.cr = {"WRITE"}
        /\ Begin("read", "leave").cr = {"START", "WRITE"}
        /\ i2c_read.cr = {"READ", "STOP"} /\ Stop.cr = {"STOP"}
    BY Bytes
  <2>3. \/ crs = <<Begin("write", "stop"), RegByte, Begin("read", "leave"), i2c_read>>
        \/ crs = <<RegByte, Begin("read", "leave"), i2c_read>>
        \/ crs = <<Begin("read", "leave"), i2c_read>> \/ crs = <<i2c_read>>
        \/ crs = <<Stop>> \/ crs = <<>>
    BY <1>3 DEF Reading, i2c_readreg, RegByte
  <2>4. QED
    BY <2>1, <2>2, <2>3
<1>4. CASE occall.op = "probe" /\ Probing
  <2>1. Address(Begin("write", "ignore")) /\ Address(Begin("read", "ignore"))
    BY Bytes DEF Address
  <2>2. /\ Begin("write", "ignore").cr = {"START", "WRITE"} /\ Stop.cr = {"STOP"}
        /\ Begin("read", "ignore").cr = {"START", "WRITE"}
    BY Bytes
  <2>3. \/ crs = <<Begin("write", "ignore"), Stop, Begin("read", "ignore"), Stop>>
        \/ crs = <<Stop, Begin("read", "ignore"), Stop>>
        \/ crs = <<Begin("read", "ignore"), Stop>>
        \/ crs = <<Stop>> \/ crs = <<>>
    BY <1>4 DEF Probing, i2c_probe
  <2>4. QED
    BY <2>1, <2>2, <2>3
<1>5. QED
  BY <1>1, <1>2, <1>3, <1>4 DEF OcInv

(* Every step keeps the types.                                             *)
LEMMA OcTyped ==
  ASSUME OcInv, OcTypes, [Next]_vars
  PROVE  OcTypes'
<1>1. CASE UNCHANGED ocvars
  BY <1>1 DEF ocvars, OcTypes
<1>2. CASE OcCall
  BY <1>2 DEF OcCall, OcTypes
<1>3. CASE OcRead
  <2>1. regs[ptr] \in Value
    BY DEF OcInv, OcTypes
  <2>2. QED
    BY <1>3, <2>1 DEF OcRead, OcTypes
<1>4. CASE OcStop
  BY <1>4 DEF OcStop, OcTypes
<1>5. CASE OcWrite
  <2>1. PICK c : c = Head(crs)
    OBVIOUS
  <2>2. /\ "WRITE" \in c.cr /\ held' = ("STOP" \notin c.cr)
        /\ \/ /\ Acked(c) /\ UNCHANGED ocdata
              /\ ocret' = IF occall.op = "probe" THEN ocret \cup {c.what} ELSE ocret
           \/ Refused(c)
    BY <1>5, <2>1 DEF OcWrite
  <2>3. \/ Address(c)
        \/ c = RegByte /\ occall.op # "probe" /\ occall.r \in Reg
        \/ c = DataByte /\ occall.op # "probe"
    <3>1. "WRITE" \notin Stop.cr /\ "WRITE" \notin i2c_read.cr
      BY Bytes
    <3>2. QED
      BY <1>5, <2>1, <2>2, <3>1, Orders DEF OcWrite
  <2>4. CASE Refused(c)
    <3>1. sel' = "none" /\ UNCHANGED <<ptr, ocdata>> /\ (ocret' = ocret \/ ocret' = {"ERR_NACK"})
      BY <2>4 DEF Refused
    <3>2. QED
      BY <2>2, <3>1 DEF OcTypes
  <2>5. CASE Acked(c) /\ UNCHANGED ocdata
             /\ ocret' = (IF occall.op = "probe" THEN ocret \cup {c.what} ELSE ocret)
    <3>1. CASE Address(c)
      <4>1. /\ sel' \in {"reg", "read"} /\ ptr' = ptr
            /\ "STOP" \notin c.cr /\ c.what \in {"write", "read"}
        BY <2>5, <3>1 DEF Acked, Address
      <4>2. ocret' \in SUBSET {"ERR_NACK", "write", "read"}
        BY <2>5, <4>1 DEF OcTypes
      <4>3. QED
        BY <2>2, <2>5, <4>1, <4>2 DEF OcTypes
    <3>2. CASE c = RegByte /\ occall.op # "probe" /\ occall.r \in Reg
      <4>1. c.what = "reg" /\ c.cr = {"WRITE"} /\ c.x \in Reg
        BY <3>2, Bytes
      <4>2. sel' = "data" /\ ptr' \in Reg
        BY <2>5, <4>1 DEF Acked
      <4>3. QED
        BY <2>2, <2>5, <3>2, <4>1, <4>2 DEF OcTypes
    <3>3. CASE c = DataByte /\ occall.op # "probe"
      <4>1. c.what = "data" /\ c.cr = {"WRITE", "STOP"}
        BY <3>3, Bytes
      <4>2. sel' = "none" /\ ptr' = ptr
        BY <2>5, <4>1 DEF Acked
      <4>3. QED
        BY <2>2, <2>5, <3>3, <4>1, <4>2 DEF OcTypes
    <3>4. QED
      BY <2>3, <3>1, <3>2, <3>3
  <2>6. QED
    BY <2>2, <2>4, <2>5
<1>6. QED
  BY <1>1, <1>2, <1>3, <1>4, <1>5 DEF Next, Flash, I2c, TwoWire, Library, OcNext, vars

(* The other drivers leave those of the two-wire driver alone.             *)
LEMMA TwiTypesStep == TwiInv /\ TwiTypes /\ [Next]_vars => TwiTypes'
<1> SUFFICES ASSUME TwiInv, TwiTypes, [Next]_vars PROVE TwiTypes'
  OBVIOUS
<1>1. CASE TwiNext
  BY <1>1, TwiTyped
<1>2. CASE UNCHANGED twivars
  BY <1>2 DEF twivars, TwiTypes, PacedBy, Begun
<1>3. QED
  BY <1>1, <1>2 DEF Next, Flash, I2c, TwoWire, Library, vars

(* The state of every driver stays in its bounds, the words that a read of *)
(* the flash and the bytes that a receive store included, whatever the     *)
(* calls before have left under way.                                       *)
THEOREM TypesCorrect == Spec => []TypeOK
<1>1. Init => FlashInv /\ TwiInv /\ TwiTypes
  BY FlashStart, TwiStart, TwiTyped DEF Init
<1>2. Init => OcInv /\ OcTypes
  BY OcStart DEF Init, OcInit, OcTypes
<1>3. OcInv /\ OcTypes => OcTypeOK
  <2>1. SUFFICES ASSUME OcInv, OcTypes PROVE OcTypeOK
    OBVIOUS
  <2>2. \A i \in 1 .. Len(crs) : crs[i].cr \subseteq {"START", "STOP", "READ", "WRITE"}
    BY <2>1, Orders
  <2>3. /\ ocwas.regs \in [Reg -> Value] /\ ocwas.refused \subseteq {"write", "read", "reg", "data"}
        /\ regs \in [Reg -> Value]
    BY <2>1 DEF OcInv, History
  <2>4. QED
    BY <2>1, <2>2, <2>3 DEF OcTypes, OcTypeOK
<1>4. Spec => []FlashTypeOK
  BY <1>1, FlashNextStep, FlashPromises, PTL DEF Spec
<1>5. Spec => []OcTypeOK
  BY <1>2, <1>3, OcStep, OcTyped, PTL DEF Spec
<1>6. Spec => []TwiTypeOK
  BY <1>1, TwiNextStep, TwiTypesStep, TwiTyped, PTL DEF Spec
<1>7. FlashTypeOK /\ OcTypeOK /\ TwiTypeOK => TypeOK
  BY DEF TypeOK
<1>8. QED
  BY <1>4, <1>5, <1>6, <1>7, PTL

-----------------------------------------------------------------------------
(* Induction on the natural numbers, with a set in place of a predicate.   *)
LEMMA Upwards ==
  ASSUME NEW T \in SUBSET Nat, 0 \in T, \A n \in T : n + 1 \in T
  PROVE  T = Nat
<1>1. SUFFICES ASSUME Nat \ T # {} PROVE FALSE
  OBVIOUS
<1>2. PICK x \in Nat \ T : \A y \in Nat \ T : x <= y
  <2> DEFINE R == {p \in Nat \X Nat : p[1] < p[2]}
  <2>1. IsWellFoundedOn(R, Nat)
    <3>1. R = OpToRel(<, Nat)
      BY DEF OpToRel
    <3>. QED BY <3>1, NatLessThanWellFounded
  <2>2. PICK x \in Nat \ T : \A y \in Nat \ T : <<y, x>> \notin R
    <3> HIDE DEF R
    <3>. QED BY <1>1, <2>1, WFMin
  <2>3. ASSUME NEW y \in Nat \ T PROVE ~(y < x)
    <3>1. <<y, x>> \in Nat \X Nat /\ <<y, x>>[1] = y /\ <<y, x>>[2] = x
      OBVIOUS
    <3>2. <<y, x>> \notin R
      BY <2>2
    <3>. QED BY <3>1, <3>2
  <2>. QED BY <2>3
<1>3. x # 0 /\ x - 1 \in Nat /\ x - 1 \in T
  BY <1>2
<1>. QED BY <1>2, <1>3

(* The same up to n.                                                       *)
LEMMA UpTo ==
  ASSUME NEW n \in Nat, NEW T, 0 \in T, \A i \in 0 .. n - 1 : i \in T => i + 1 \in T
  PROVE  \A i \in 0 .. n : i \in T
<1> DEFINE U == {k \in Nat : k <= n => k \in T}
<1>1. 0 \in U
  OBVIOUS
<1>2. \A k \in U : k + 1 \in U
  OBVIOUS
<1>3. U = Nat
  <2>1. U \in SUBSET Nat
    OBVIOUS
  <2> HIDE DEF U
  <2>2. QED
    BY <1>1, <1>2, <2>1, Upwards
<1>4. QED
  BY <1>3

(* A function g says how the value after i - 1 steps becomes that after i. *)
Steps(f, x, g, n) == f = [i \in 0 .. n |-> IF i = 0 THEN x ELSE g[<<i, f[i - 1]>>]]

(* There are the values after 0 to n steps.                                *)
LEMMA StepsExist ==
  ASSUME NEW x, NEW g, NEW n \in Nat
  PROVE  \E f : Steps(f, x, g, n)
<1> DEFINE T == {m \in Nat : \E f : Steps(f, x, g, m)}
<1>1. 0 \in T
  <2> DEFINE f == [i \in 0 .. 0 |-> x]
  <2>1. Steps(f, x, g, 0)
    BY DEF Steps
  <2>2. QED
    BY <2>1
<1>2. ASSUME NEW m \in T PROVE m + 1 \in T
  <2>1. PICK f : Steps(f, x, g, m)
    OBVIOUS
  <2> DEFINE h == [i \in 0 .. m + 1 |-> IF i <= m THEN f[i] ELSE g[<<m + 1, f[m]>>]]
  <2>2. \A i \in 0 .. m : f[i] = IF i = 0 THEN x ELSE g[<<i, f[i - 1]>>]
    BY <2>1 DEF Steps
  <2>3. ASSUME NEW i \in 0 .. m + 1 PROVE h[i] = IF i = 0 THEN x ELSE g[<<i, h[i - 1]>>]
    <3>1. CASE i <= m
      <4>1. h[i] = f[i] /\ (i # 0 => h[i - 1] = f[i - 1])
        BY <3>1
      <4>2. f[i] = IF i = 0 THEN x ELSE g[<<i, f[i - 1]>>]
        BY <2>2, <3>1
      <4> HIDE DEF h
      <4>3. QED
        BY <4>1, <4>2
    <3>2. CASE i = m + 1
      <4>1. h[i] = g[<<m + 1, f[m]>>] /\ h[i - 1] = f[m] /\ i # 0
        BY <3>2
      <4>2. QED
        BY <3>2, <4>1
    <3>3. QED
      BY <3>1, <3>2
  <2>4. Steps(h, x, g, m + 1)
    <3>1. h = [i \in 0 .. m + 1 |-> h[i]]
      OBVIOUS
    <3> HIDE DEF h
    <3>2. QED
      BY <2>3, <3>1 DEF Steps
  <2>5. QED
    BY <2>4
<1>3. T = Nat
  <2>1. T \in SUBSET Nat
    OBVIOUS
  <2> HIDE DEF T
  <2>2. QED
    BY <1>1, <1>2, <2>1, Upwards
<1>4. QED
  BY <1>3

(* What the first step and every other yields.                             *)
LEMMA StepsAre ==
  ASSUME NEW f, NEW x, NEW g, NEW n \in Nat, Steps(f, x, g, n)
  PROVE  f[0] = x /\ \A i \in 1 .. n : f[i] = g[<<i, f[i - 1]>>]
<1>1. \A i \in 0 .. n : f[i] = IF i = 0 THEN x ELSE g[<<i, f[i - 1]>>]
  BY DEF Steps
<1>2. 0 \in 0 .. n /\ \A i \in 1 .. n : i \in 0 .. n /\ i # 0
  OBVIOUS
<1>3. QED
  BY <1>1, <1>2

(* Its values are in X.                                                    *)
Run(f, x, g, n, X) ==
  f \in [0 .. n -> X] /\ f[0] = x /\ \A i \in 1 .. n : f[i] = g[<<i, f[i - 1]>>]

(* So there is one if g keeps to X.                                        *)
LEMMA StepsKeep ==
  ASSUME NEW X, NEW x \in X, NEW n \in Nat, NEW g,
         \A i \in 1 .. n, y \in X : g[<<i, y>>] \in X
  PROVE  \E f : Run(f, x, g, n, X)
<1>1. PICK f : Steps(f, x, g, n)
  BY StepsExist
<1>2. f[0] = x /\ \A i \in 1 .. n : f[i] = g[<<i, f[i - 1]>>]
  BY <1>1, StepsAre
<1> DEFINE T == {i \in 0 .. n : f[i] \in X}
<1>3. 0 \in T
  BY <1>2
<1>4. ASSUME NEW i \in 0 .. n - 1, i \in T PROVE i + 1 \in T
  <2>1. i + 1 \in 0 .. n /\ i + 1 \in 1 .. n /\ (i + 1) - 1 = i /\ f[i] \in X
    BY <1>4
  <2>2. f[i + 1] = g[<<i + 1, f[i]>>]
    BY <1>2, <2>1
  <2>3. QED
    BY <2>1, <2>2
<1>5. \A i \in 0 .. n : i \in T
  <2> HIDE DEF T
  <2>1. QED
    BY <1>3, <1>4, UpTo
<1>6. f \in [0 .. n -> X]
  <2>1. \A i \in 0 .. n : f[i] \in X
    BY <1>5
  <2>2. \E e : f = [i \in 0 .. n |-> e[i]]
    <3>1. f = [i \in 0 .. n |-> f[i]]
      BY <1>1 DEF Steps
    <3>2. QED
      BY <3>1
  <2>3. QED
    BY <2>1, <2>2
<1>7. QED
  BY <1>2, <1>6 DEF Run

-----------------------------------------------------------------------------
(* Numbers.                                                                *)
Base == {8, 10, 16}

(* What is left of a number without its last digit, and that digit.        *)
LEMMA ByBase ==
  ASSUME NEW b \in Base, NEW v \in Nat
  PROVE  /\ b \in Nat \ {0} /\ v \div b \in Nat /\ v % b \in 0 .. b - 1
         /\ (v \div b) * b + (v % b) = v /\ 2 * (v \div b) <= v
<1>1. CASE b = 8
  BY <1>1
<1>2. CASE b = 10
  BY <1>2
<1>3. CASE b = 16
  BY <1>3
<1>4. QED
  BY <1>1, <1>2, <1>3 DEF Base

(* The widths: the constants of module Text.                               *)
LEMMA Bits ==
  /\ LongBits \in Nat /\ LongBits >= 4 /\ LongBits <= 32 /\ ShortBits \in 4 .. LongBits
  /\ \E k \in 1 .. 8 : LongBits = 4 * k
  BY TextAssumption

(* What is left of a number, digit by digit.                               *)
LEMMA QuotientsAre ==
  ASSUME NEW val \in Nat, NEW base \in Base
  PROVE  /\ Quotients(val, base) \in [0 .. LongBits -> Nat] /\ Quotients(val, base)[0] = val
         /\ \A k \in 1 .. LongBits : Quotients(val, base)[k] = Quotients(val, base)[k - 1] \div base
<1> DEFINE n == LongBits
           g == [p \in (1 .. n) \X Nat |-> p[2] \div base]
           left == CHOOSE left : left = [k \in 0 .. n |-> IF k = 0 THEN val ELSE left[k - 1] \div base]
<1>1. n \in Nat
  BY Bits
<1>2. \A i \in 1 .. n, y \in Nat : g[<<i, y>>] = y \div base /\ g[<<i, y>>] \in Nat
  BY ByBase
<1>3. \E f : Run(f, val, g, n, Nat)
  <2> HIDE DEF g, n
  <2>1. QED
    BY <1>1, <1>2, StepsKeep
<1>4. PICK f : f \in [0 .. n -> Nat] /\ f[0] = val /\ \A i \in 1 .. n : f[i] = f[i - 1] \div base
  <2> HIDE DEF g, n
  <2>1. PICK f : Run(f, val, g, n, Nat)
    BY <1>3
  <2>2. f \in [0 .. n -> Nat] /\ f[0] = val /\ \A i \in 1 .. n : f[i] = g[<<i, f[i - 1]>>]
    BY <2>1 DEF Run
  <2>3. ASSUME NEW i \in 1 .. n PROVE f[i] = f[i - 1] \div base
    <3>1. i - 1 \in 0 .. n
      BY <1>1
    <3>2. f[i - 1] \in Nat
      BY <2>2, <3>1
    <3>3. QED
      BY <1>2, <2>2, <3>2
  <2>4. QED
    BY <2>2, <2>3
<1>5. f = [k \in 0 .. n |-> IF k = 0 THEN val ELSE f[k - 1] \div base]
  <2>1. f = [k \in 0 .. n |-> f[k]]
    BY <1>4
  <2>2. \A k \in 0 .. n : f[k] = IF k = 0 THEN val ELSE f[k - 1] \div base
    <3> HIDE DEF n
    <3>1. \A k \in 0 .. n : k = 0 \/ k \in 1 .. n
      BY <1>1
    <3>2. QED
      BY <1>4, <3>1
  <2>3. QED
    BY <2>1, <2>2
<1>6. left = [k \in 0 .. n |-> IF k = 0 THEN val ELSE left[k - 1] \div base]
  BY <1>5
<1>7. Quotients(val, base) = left
  BY DEF Quotients
<1> HIDE DEF left, g
<1>8. \A k \in 0 .. n : left[k] = IF k = 0 THEN val ELSE left[k - 1] \div base
  BY <1>6
<1> DEFINE T == {k \in 0 .. n : left[k] \in Nat}
<1>9. 0 \in T
  BY <1>1, <1>8
<1>10. ASSUME NEW i \in 0 .. n - 1, i \in T PROVE i + 1 \in T
  <2>1. i + 1 \in 0 .. n /\ i + 1 # 0 /\ (i + 1) - 1 = i /\ left[i] \in Nat
    BY <1>1, <1>10
  <2>2. left[i + 1] = left[i] \div base
    BY <1>8, <2>1
  <2>3. QED
    BY <2>1, <2>2, ByBase
<1>11. \A i \in 0 .. n : i \in T
  <2> HIDE DEF T, n
  <2>1. QED
    BY <1>1, <1>9, <1>10, UpTo
<1>12. left \in [0 .. n -> Nat]
  <2>1. \A i \in 0 .. n : left[i] \in Nat
    BY <1>11
  <2>2. left = [i \in 0 .. n |-> left[i]]
    BY <1>6
  <2>3. QED
    BY <2>1, <2>2
<1>13. left[0] = val /\ \A k \in 1 .. n : left[k] = left[k - 1] \div base
  <2>1. 0 \in 0 .. n /\ \A k \in 1 .. n : k \in 0 .. n /\ k # 0
    BY <1>1
  <2>2. QED
    BY <1>8, <2>1
<1>14. QED
  BY <1>7, <1>12, <1>13

(* The places of n digits: powers of the base.                             *)
Placed(p, base, n) == p = [k \in 0 .. n |-> IF k = 0 THEN 1 ELSE p[k - 1] * base]

(* They exist, and are powers of the base.                                 *)
LEMMA PlacesAre ==
  ASSUME NEW base \in Nat, NEW n \in Nat
  PROVE  /\ \E p : Placed(p, base, n)
         /\ \A p : Placed(p, base, n) =>
              p \in [0 .. n -> Nat] /\ p[0] = 1 /\ \A k \in 1 .. n : p[k] = p[k - 1] * base
<1>1. \E p : Placed(p, base, n)
  <2> DEFINE g == [q \in (1 .. n) \X Nat |-> q[2] * base]
  <2>1. \A i \in 1 .. n, y \in Nat : g[<<i, y>>] = y * base /\ g[<<i, y>>] \in Nat
    OBVIOUS
  <2> HIDE DEF g
  <2>2. PICK p : Run(p, 1, g, n, Nat)
    BY <2>1, StepsKeep
  <2>3. p \in [0 .. n -> Nat] /\ p[0] = 1 /\ \A i \in 1 .. n : p[i] = g[<<i, p[i - 1]>>]
    BY <2>2 DEF Run
  <2>4. ASSUME NEW k \in 0 .. n PROVE p[k] = IF k = 0 THEN 1 ELSE p[k - 1] * base
    <3>1. CASE k = 0
      BY <2>3, <3>1
    <3>2. CASE k # 0
      <4>1. k \in 1 .. n /\ k - 1 \in 0 .. n
        BY <3>2
      <4>2. p[k - 1] \in Nat
        BY <2>3, <4>1
      <4>3. QED
        BY <2>1, <2>3, <3>2, <4>1, <4>2
    <3>3. QED
      BY <3>1, <3>2
  <2>5. p = [k \in 0 .. n |-> p[k]]
    BY <2>3
  <2>6. QED
    BY <2>4, <2>5 DEF Placed
<1>2. ASSUME NEW p, Placed(p, base, n)
      PROVE  p \in [0 .. n -> Nat] /\ p[0] = 1 /\ \A k \in 1 .. n : p[k] = p[k - 1] * base
  <2>1. \A k \in 0 .. n : p[k] = IF k = 0 THEN 1 ELSE p[k - 1] * base
    BY <1>2 DEF Placed
  <2> DEFINE T == {k \in 0 .. n : p[k] \in Nat}
  <2>2. 0 \in T
    BY <2>1
  <2>3. ASSUME NEW i \in 0 .. n - 1, i \in T PROVE i + 1 \in T
    <3>1. i + 1 \in 0 .. n /\ i + 1 # 0 /\ (i + 1) - 1 = i /\ p[i] \in Nat
      BY <2>3
    <3>2. p[i + 1] = p[i] * base
      BY <2>1, <3>1
    <3>3. QED
      BY <3>1, <3>2
  <2>4. \A i \in 0 .. n : i \in T
    <3> HIDE DEF T
    <3>1. QED
      BY <2>2, <2>3, UpTo
  <2>5. p = [k \in 0 .. n |-> p[k]]
    BY <1>2 DEF Placed
  <2>6. p \in [0 .. n -> Nat]
    BY <2>4, <2>5
  <2>7. 0 \in 0 .. n /\ \A k \in 1 .. n : k \in 0 .. n /\ k # 0
    OBVIOUS
  <2>8. QED
    BY <2>1, <2>6, <2>7
<1>3. QED
  BY <1>1, <1>2

(* The sum of what the digits s are worth at the places p.                 *)
Summed(f, s, p, n) == f = [i \in 0 .. n |-> IF i = 0 THEN 0 ELSE f[i - 1] + s[i] * p[n - i]]

(* The same, digit by digit.                                               *)
Sums(f, s, p, n) ==
  f \in [0 .. n -> Nat] /\ f[0] = 0 /\ \A i \in 1 .. n : f[i] = f[i - 1] + s[i] * p[n - i]

(* The sum exists, and is made digit by digit.                             *)
LEMMA SumsAre ==
  ASSUME NEW n \in Nat, NEW s, \A i \in 1 .. n : s[i] \in Nat, NEW p \in [0 .. n -> Nat]
  PROVE  /\ \E f : Summed(f, s, p, n)
         /\ \A f : Summed(f, s, p, n) => Sums(f, s, p, n)
<1>0. \A i \in 1 .. n : s[i] * p[n - i] \in Nat
  <2>1. \A i \in 1 .. n : n - i \in 0 .. n
    OBVIOUS
  <2>2. \A i \in 1 .. n : p[n - i] \in Nat /\ s[i] \in Nat
    BY <2>1
  <2>3. QED
    BY <2>2
<1>1. \E f : Summed(f, s, p, n)
  <2> DEFINE w == [i \in 1 .. n |-> s[i] * p[n - i]]
             g == [q \in (1 .. n) \X Nat |-> q[2] + w[q[1]]]
  <2>1. \A i \in 1 .. n, y \in Nat : g[<<i, y>>] = y + s[i] * p[n - i] /\ g[<<i, y>>] \in Nat
    <3>1. \A i \in 1 .. n : w[i] = s[i] * p[n - i] /\ w[i] \in Nat
      BY <1>0
    <3> HIDE DEF w
    <3>2. \A i \in 1 .. n, y \in Nat : g[<<i, y>>] = y + w[i]
      OBVIOUS
    <3> HIDE DEF g
    <3>3. ASSUME NEW i \in 1 .. n, NEW y \in Nat
          PROVE  g[<<i, y>>] = y + s[i] * p[n - i] /\ g[<<i, y>>] \in Nat
      <4>1. w[i] = s[i] * p[n - i] /\ w[i] \in Nat /\ g[<<i, y>>] = y + w[i]
        BY <3>1, <3>2
      <4>2. QED
        BY <4>1
    <3>4. QED
      BY <3>3
  <2> HIDE DEF g
  <2>2. PICK f : Run(f, 0, g, n, Nat)
    BY <2>1, StepsKeep
  <2>3. f \in [0 .. n -> Nat] /\ f[0] = 0 /\ \A i \in 1 .. n : f[i] = g[<<i, f[i - 1]>>]
    BY <2>2 DEF Run
  <2>4. ASSUME NEW k \in 0 .. n PROVE f[k] = IF k = 0 THEN 0 ELSE f[k - 1] + s[k] * p[n - k]
    <3>1. CASE k = 0
      BY <2>3, <3>1
    <3>2. CASE k # 0
      <4>1. k \in 1 .. n /\ k - 1 \in 0 .. n
        BY <3>2
      <4>2. f[k - 1] \in Nat
        BY <2>3, <4>1
      <4>3. QED
        BY <2>1, <2>3, <3>2, <4>1, <4>2
    <3>3. QED
      BY <3>1, <3>2
  <2>5. f = [k \in 0 .. n |-> f[k]]
    BY <2>3
  <2>6. QED
    BY <2>4, <2>5 DEF Summed
<1>2. ASSUME NEW f, Summed(f, s, p, n)
      PROVE  Sums(f, s, p, n)
  <2>1. \A k \in 0 .. n : f[k] = IF k = 0 THEN 0 ELSE f[k - 1] + s[k] * p[n - k]
    BY <1>2 DEF Summed
  <2> DEFINE T == {k \in 0 .. n : f[k] \in Nat}
  <2>2. 0 \in T
    BY <2>1
  <2>3. ASSUME NEW i \in 0 .. n - 1, i \in T PROVE i + 1 \in T
    <3>1. /\ i + 1 \in 0 .. n /\ i + 1 \in 1 .. n /\ i + 1 # 0 /\ (i + 1) - 1 = i
          /\ f[i] \in Nat
      BY <2>3
    <3>2. f[i + 1] = f[i] + s[i + 1] * p[n - (i + 1)]
      BY <2>1, <3>1
    <3>3. s[i + 1] * p[n - (i + 1)] \in Nat
      BY <1>0, <3>1
    <3>4. f[i + 1] \in Nat
      BY <3>1, <3>2, <3>3
    <3>5. QED
      BY <3>1, <3>4
  <2>4. \A i \in 0 .. n : i \in T
    <3> HIDE DEF T
    <3>1. QED
      BY <2>2, <2>3, UpTo
  <2>5. f = [k \in 0 .. n |-> f[k]]
    BY <1>2 DEF Summed
  <2>6. f \in [0 .. n -> Nat]
    BY <2>4, <2>5
  <2>7. 0 \in 0 .. n /\ \A k \in 1 .. n : k \in 0 .. n /\ k # 0
    OBVIOUS
  <2>8. QED
    BY <2>1, <2>6, <2>7 DEF Sums
<1>3. QED
  BY <1>1, <1>2

(* Read from the left, h[i] is the number that the first i digits show.    *)
Horner(h, s, base, n) ==
  h \in [0 .. n -> Nat] /\ h[0] = 0 /\ \A i \in 1 .. n : h[i] = h[i - 1] * base + s[i]

(* There is such a reading of any digits.                                  *)
LEMMA HornerExists ==
  ASSUME NEW base \in Nat, NEW n \in Nat, NEW s, \A i \in 1 .. n : s[i] \in Nat
  PROVE  \E h : Horner(h, s, base, n)
<1> DEFINE g == [q \in (1 .. n) \X Nat |-> q[2] * base + s[q[1]]]
<1>1. \A i \in 1 .. n, y \in Nat : g[<<i, y>>] = y * base + s[i] /\ g[<<i, y>>] \in Nat
  OBVIOUS
<1> HIDE DEF g
<1>2. PICK h : Run(h, 0, g, n, Nat)
  BY <1>1, StepsKeep
<1>3. h \in [0 .. n -> Nat] /\ h[0] = 0 /\ \A i \in 1 .. n : h[i] = g[<<i, h[i - 1]>>]
  BY <1>2 DEF Run
<1>4. ASSUME NEW i \in 1 .. n PROVE h[i] = h[i - 1] * base + s[i]
  <2>1. i - 1 \in 0 .. n
    OBVIOUS
  <2>2. h[i - 1] \in Nat
    BY <1>3, <2>1
  <2>3. QED
    BY <1>1, <1>3, <2>2
<1>5. QED
  BY <1>3, <1>4 DEF Horner

(* By their places, digits stand for the number they show from the left.   *)
LEMMA ReadsHorner ==
  ASSUME NEW base \in Nat, NEW s, NEW n \in Nat, Len(s) = n, \A i \in 1 .. n : s[i] \in Nat,
         NEW h, Horner(h, s, base, n)
  PROVE  Reads(s, base) = h[n]
<1> DEFINE p == CHOOSE p : p = [k \in 0 .. n |-> IF k = 0 THEN 1 ELSE p[k - 1] * base]
           f == CHOOSE f : f = [i \in 0 .. n |-> IF i = 0 THEN 0 ELSE f[i - 1] + s[i] * p[n - i]]
<1>1. Reads(s, base) = f[n]
  BY DEF Reads
<1>2. Placed(p, base, n)
  <2>1. \E x : Placed(x, base, n)
    BY PlacesAre
  <2>2. QED
    BY <2>1 DEF Placed
<1> HIDE DEF p
<1>3. p \in [0 .. n -> Nat] /\ p[0] = 1 /\ \A k \in 1 .. n : p[k] = p[k - 1] * base
  BY <1>2, PlacesAre, ZenonT(30)
<1>4. Summed(f, s, p, n)
  <2>1. \E x : Summed(x, s, p, n)
    BY <1>3, SumsAre
  <2>2. QED
    BY <2>1 DEF Summed
<1> HIDE DEF f
<1>5. f \in [0 .. n -> Nat] /\ f[0] = 0 /\ \A i \in 1 .. n : f[i] = f[i - 1] + s[i] * p[n - i]
  <2>1. Sums(f, s, p, n)
    BY <1>3, <1>4, SumsAre
  <2>2. QED
    BY <2>1 DEF Sums
<1>6. h \in [0 .. n -> Nat] /\ h[0] = 0 /\ \A i \in 1 .. n : h[i] = h[i - 1] * base + s[i]
  BY DEF Horner
<1> DEFINE T == {i \in 0 .. n : f[i] = h[i] * p[n - i]}
<1>7. 0 \in T
  <2>1. n - 0 = n /\ p[n] \in Nat
    BY <1>3
  <2>2. QED
    BY <1>5, <1>6, <2>1
<1>8. ASSUME NEW i \in 0 .. n - 1, i \in T PROVE i + 1 \in T
  <2>1. /\ i + 1 \in 0 .. n /\ i + 1 \in 1 .. n /\ (i + 1) - 1 = i /\ i \in 0 .. n
        /\ n - i \in 1 .. n /\ (n - i) - 1 = n - (i + 1) /\ n - (i + 1) \in 0 .. n
    OBVIOUS
  <2>2. PICK a \in Nat, b \in Nat, c \in Nat : a = h[i] /\ b = s[i + 1] /\ c = p[n - (i + 1)]
    BY <1>3, <1>6, <2>1
  <2>3. f[i] = a * (c * base)
    BY <1>3, <1>8, <2>1, <2>2
  <2>4. f[i + 1] = a * (c * base) + b * c
    BY <1>5, <2>1, <2>2, <2>3
  <2>5. h[i + 1] = a * base + b
    BY <1>6, <2>1, <2>2
  <2>6. a * (c * base) + b * c = (a * base + b) * c
    OBVIOUS
  <2>7. QED
    BY <2>1, <2>2, <2>4, <2>5, <2>6
<1>9. \A i \in 0 .. n : i \in T
  <2> HIDE DEF T
  <2>1. QED
    BY <1>7, <1>8, UpTo
<1>10. f[n] = h[n] * p[n - n] /\ n - n = 0 /\ h[n] \in Nat
  BY <1>6, <1>9
<1>11. f[n] = h[n]
  BY <1>3, <1>10
<1>12. QED
  BY <1>1, <1>11

(* The remainder of a product does not change with that of its factor.     *)
LEMMA ModTimes ==
  ASSUME NEW m \in Nat \ {0}, NEW a \in Nat, NEW b \in Nat, NEW c \in Nat
  PROVE  ((a % m) * b + c) % m = (a * b + c) % m
<1>1. PICK q \in Nat : a = m * q + (a % m)
  BY DivMod
<1>2. PICK r \in Nat : r = a % m
  BY DivMod
<1>3. PICK x \in Nat : x = r * b + c
  OBVIOUS
<1>4. PICK y \in Nat : y = a * b + c
  OBVIOUS
<1>5. q * b \in Nat /\ y = m * (q * b) + x
  BY <1>1, <1>2, <1>3, <1>4
<1>6. y % m = x % m
  BY <1>5, ModSame
<1>7. QED
  BY <1>2, <1>3, <1>4, <1>6

(* What is made of the text s.                                             *)
Valued(f, s, base, size, n) ==
  f = [i \in 0 .. n |-> IF i = 0 THEN {0}
                        ELSE IF s[i] \notin 0 .. base - 1 THEN {}
                        ELSE {(d * base + s[i]) % size : d \in f[i - 1]}]

(* There is such a value of any text: at most one number.                  *)
LEMMA ValuesExist ==
  ASSUME NEW base \in Nat, NEW size \in Nat \ {0}, NEW n \in Nat, NEW s
  PROVE  \E f : Valued(f, s, base, size, n)
<1> DEFINE X == SUBSET Nat
           After(i, R) == IF s[i] \notin 0 .. base - 1 THEN {} ELSE {(d * base + s[i]) % size : d \in R}
           g == [q \in (1 .. n) \X X |-> After(q[1], q[2])]
<1>1. ASSUME NEW i \in 1 .. n, NEW R \in X PROVE g[<<i, R>>] = After(i, R) /\ g[<<i, R>>] \in X
  <2>1. g[<<i, R>>] = After(i, R)
    OBVIOUS
  <2>2. After(i, R) \in X
    <3>1. CASE s[i] \notin 0 .. base - 1
      BY <3>1
    <3>2. CASE s[i] \in 0 .. base - 1
      <4>1. ASSUME NEW d \in R PROVE (d * base + s[i]) % size \in Nat
        <5>1. PICK e \in Nat : e = d * base + s[i]
          BY <3>2
        <5>2. QED
          BY <5>1, DivMod
      <4>2. QED
        BY <3>2, <4>1
    <3>3. QED
      BY <3>1, <3>2
  <2>3. QED
    BY <2>1, <2>2
<1>2. {0} \in X
  OBVIOUS
<1> HIDE DEF g, X
<1>3. PICK f : Run(f, {0}, g, n, X)
  <2>1. \A i \in 1 .. n, R \in X : g[<<i, R>>] \in X
    BY <1>1
  <2>2. QED
    BY <1>2, <2>1, StepsKeep
<1>4. f \in [0 .. n -> X] /\ f[0] = {0} /\ \A i \in 1 .. n : f[i] = g[<<i, f[i - 1]>>]
  BY <1>3 DEF Run
<1>5. ASSUME NEW i \in 0 .. n PROVE f[i] = IF i = 0 THEN {0} ELSE After(i, f[i - 1])
  <2>1. CASE i = 0
    BY <1>4, <2>1
  <2>2. CASE i # 0
    <3>1. i \in 1 .. n /\ i - 1 \in 0 .. n
      BY <2>2
    <3>2. f[i - 1] \in X
      BY <1>4, <3>1
    <3> HIDE DEF After
    <3>3. QED
      BY <1>1, <1>4, <2>2, <3>1, <3>2
  <2>3. QED
    BY <2>1, <2>2
<1>6. f = [i \in 0 .. n |-> f[i]]
  BY <1>4
<1>7. f = [i \in 0 .. n |-> IF i = 0 THEN {0} ELSE After(i, f[i - 1])]
  <2> HIDE DEF After
  <2>1. QED
    BY <1>5, <1>6
<1>8. QED
  BY <1>7 DEF Valued

(* A text is taken for the number that its digits stand for, or for none.  *)
LEMMA ParseIs ==
  ASSUME NEW base \in Nat, NEW size \in Nat \ {0}, NEW s, Len(s) \in Nat
  PROVE  Parse(s, base, size) = IF AllDigits(s, base) THEN {Reads(s, base) % size} ELSE {}
<1> DEFINE n == Len(s)
           v == CHOOSE f : f = [i \in 0 .. n |-> IF i = 0 THEN {0}
                                                ELSE IF s[i] \notin 0 .. base - 1 THEN {}
                                                ELSE {(d * base + s[i]) % size : d \in f[i - 1]}]
<1>1. Parse(s, base, size) = v[n]
  BY DEF Parse
<1>2. Valued(v, s, base, size, n)
  <2>1. \E x : Valued(x, s, base, size, n)
    BY ValuesExist
  <2>2. QED
    BY <2>1 DEF Valued
<1> HIDE DEF v
<1>3. \A i \in 0 .. n : v[i] = IF i = 0 THEN {0}
                               ELSE IF s[i] \notin 0 .. base - 1 THEN {}
                               ELSE {(d * base + s[i]) % size : d \in v[i - 1]}
  BY <1>2 DEF Valued
<1>4. v[0] = {0}
  <2>1. 0 \in 0 .. n
    OBVIOUS
  <2>2. v[0] = IF 0 = 0 THEN {0}
               ELSE IF s[0] \notin 0 .. base - 1 THEN {}
               ELSE {(d * base + s[0]) % size : d \in v[0 - 1]}
    BY <1>3, <2>1, Zenon
  <2>3. QED
    BY <2>2
<1>5. \A i \in 1 .. n : s[i] \notin 0 .. base - 1 => v[i] = {}
  <2>1. \A i \in 1 .. n : i \in 0 .. n /\ i # 0
    OBVIOUS
  <2>2. QED
    BY <1>3, <2>1
<1>6. \A i \in 1 .. n : s[i] \in 0 .. base - 1 => v[i] = {(d * base + s[i]) % size : d \in v[i - 1]}
  <2>1. \A i \in 1 .. n : i \in 0 .. n /\ i # 0
    OBVIOUS
  <2>2. QED
    BY <1>3, <2>1
<1>7. CASE AllDigits(s, base)
  <2>1. \A i \in 1 .. n : s[i] \in 0 .. base - 1 /\ s[i] \in Nat
    BY <1>7 DEF AllDigits
  <2>2. PICK h : Horner(h, s, base, n)
    BY <2>1, HornerExists
  <2>3. h \in [0 .. n -> Nat] /\ h[0] = 0 /\ \A i \in 1 .. n : h[i] = h[i - 1] * base + s[i]
    BY <2>2 DEF Horner
  <2> DEFINE T == {i \in 0 .. n : v[i] = {h[i] % size}}
  <2>4. 0 \in T
    BY <1>4, <2>3
  <2>5. ASSUME NEW i \in 0 .. n - 1, i \in T PROVE i + 1 \in T
    <3>1. i + 1 \in 0 .. n /\ i + 1 \in 1 .. n /\ (i + 1) - 1 = i /\ i \in 0 .. n /\ v[i] = {h[i] % size}
      BY <2>5
    <3>2. v[i + 1] = {(d * base + s[i + 1]) % size : d \in {h[i] % size}}
      BY <1>6, <2>1, <3>1
    <3>3. v[i + 1] = {((h[i] % size) * base + s[i + 1]) % size}
      BY <3>2
    <3>4. h[i] \in Nat /\ s[i + 1] \in Nat
      BY <2>1, <2>3, <3>1
    <3>5. ((h[i] % size) * base + s[i + 1]) % size = (h[i] * base + s[i + 1]) % size
      BY <3>4, ModTimes, ZenonT(30)
    <3>6. h[i + 1] = h[i] * base + s[i + 1]
      BY <2>3, <3>1
    <3>7. QED
      BY <3>1, <3>3, <3>5, <3>6
  <2>6. \A i \in 0 .. n : i \in T
    <3> HIDE DEF T
    <3>1. QED
      BY <2>4, <2>5, UpTo
  <2>7. v[n] = {h[n] % size}
    BY <2>6
  <2>8. Reads(s, base) = h[n]
    BY <2>1, <2>2, ReadsHorner
  <2>9. QED
    BY <1>1, <1>7, <2>7, <2>8
<1>8. CASE ~AllDigits(s, base)
  <2>1. PICK j \in 1 .. n : s[j] \notin 0 .. base - 1
    BY <1>8 DEF AllDigits
  <2> DEFINE T == {i \in 0 .. n : i >= j => v[i] = {}}
  <2>2. 0 \in T
    OBVIOUS
  <2>3. ASSUME NEW i \in 0 .. n - 1, i \in T PROVE i + 1 \in T
    <3>1. i + 1 \in 0 .. n /\ i + 1 \in 1 .. n /\ (i + 1) - 1 = i
      OBVIOUS
    <3>2. CASE i + 1 < j
      BY <3>1, <3>2
    <3>3. CASE i + 1 = j
      BY <1>5, <2>1, <3>1, <3>3
    <3>4. CASE i >= j
      <4>1. v[i] = {}
        BY <2>3, <3>4
      <4>2. s[i + 1] \in 0 .. base - 1 => v[i + 1] = {(d * base + s[i + 1]) % size : d \in v[i]}
        BY <1>6, <3>1
      <4>3. v[i + 1] = {}
        BY <1>5, <3>1, <4>1, <4>2
      <4>4. QED
        BY <3>1, <4>3
    <3>5. QED
      BY <3>2, <3>3, <3>4
  <2>4. \A i \in 0 .. n : i \in T
    <3> HIDE DEF T
    <3>1. QED
      BY <2>2, <2>3, UpTo
  <2>5. v[n] = {}
    BY <2>4
  <2>6. QED
    BY <1>1, <1>8, <2>5
<1>9. QED
  BY <1>7, <1>8

(* The provers know a power of two only if its exponent is a number.       *)
LEMMA Doubles ==
  ASSUME NEW j \in 0 .. 31
  PROVE  2 ^ j \in Nat \ {0} /\ 2 ^ (j + 1) = 2 * 2 ^ j
<1>1. CASE j = 0 BY <1>1, 2 ^ 0 = 1, 2 ^ 1 = 2
<1>2. CASE j = 1 BY <1>2, 2 ^ 1 = 2, 2 ^ 2 = 4
<1>3. CASE j = 2 BY <1>3, 2 ^ 2 = 4, 2 ^ 3 = 8
<1>4. CASE j = 3 BY <1>4, 2 ^ 3 = 8, 2 ^ 4 = 16
<1>5. CASE j = 4 BY <1>5, 2 ^ 4 = 16, 2 ^ 5 = 32
<1>6. CASE j = 5 BY <1>6, 2 ^ 5 = 32, 2 ^ 6 = 64
<1>7. CASE j = 6 BY <1>7, 2 ^ 6 = 64, 2 ^ 7 = 128
<1>8. CASE j = 7 BY <1>8, 2 ^ 7 = 128, 2 ^ 8 = 256
<1>9. CASE j = 8 BY <1>9, 2 ^ 8 = 256, 2 ^ 9 = 512
<1>10. CASE j = 9 BY <1>10, 2 ^ 9 = 512, 2 ^ 10 = 1024
<1>11. CASE j = 10 BY <1>11, 2 ^ 10 = 1024, 2 ^ 11 = 2048
<1>12. CASE j = 11 BY <1>12, 2 ^ 11 = 2048, 2 ^ 12 = 4096
<1>13. CASE j = 12 BY <1>13, 2 ^ 12 = 4096, 2 ^ 13 = 8192
<1>14. CASE j = 13 BY <1>14, 2 ^ 13 = 8192, 2 ^ 14 = 16384
<1>15. CASE j = 14 BY <1>15, 2 ^ 14 = 16384, 2 ^ 15 = 32768
<1>16. CASE j = 15 BY <1>16, 2 ^ 15 = 32768, 2 ^ 16 = 65536
<1>17. CASE j = 16 BY <1>17, 2 ^ 16 = 65536, 2 ^ 17 = 131072
<1>18. CASE j = 17 BY <1>18, 2 ^ 17 = 131072, 2 ^ 18 = 262144
<1>19. CASE j = 18 BY <1>19, 2 ^ 18 = 262144, 2 ^ 19 = 524288
<1>20. CASE j = 19 BY <1>20, 2 ^ 19 = 524288, 2 ^ 20 = 1048576
<1>21. CASE j = 20 BY <1>21, 2 ^ 20 = 1048576, 2 ^ 21 = 2097152
<1>22. CASE j = 21 BY <1>22, 2 ^ 21 = 2097152, 2 ^ 22 = 4194304
<1>23. CASE j = 22 BY <1>23, 2 ^ 22 = 4194304, 2 ^ 23 = 8388608
<1>24. CASE j = 23 BY <1>24, 2 ^ 23 = 8388608, 2 ^ 24 = 16777216
<1>25. CASE j = 24 BY <1>25, 2 ^ 24 = 16777216, 2 ^ 25 = 33554432
<1>26. CASE j = 25 BY <1>26, 2 ^ 25 = 33554432, 2 ^ 26 = 67108864
<1>27. CASE j = 26 BY <1>27, 2 ^ 26 = 67108864, 2 ^ 27 = 134217728
<1>28. CASE j = 27 BY <1>28, 2 ^ 27 = 134217728, 2 ^ 28 = 268435456
<1>29. CASE j = 28 BY <1>29, 2 ^ 28 = 268435456, 2 ^ 29 = 536870912
<1>30. CASE j = 29 BY <1>30, 2 ^ 29 = 536870912, 2 ^ 30 = 1073741824
<1>31. CASE j = 30 BY <1>31, 2 ^ 30 = 1073741824, 2 ^ 31 = 2147483648
<1>32. CASE j = 31 BY <1>32, 2 ^ 31 = 2147483648, 2 ^ 32 = 4294967296
<1>33. QED
  BY <1>1, <1>2, <1>3, <1>4, <1>5, <1>6, <1>7, <1>8, <1>9, <1>10, <1>11, <1>12, <1>13, <1>14, <1>15, <1>16,
     <1>17, <1>18, <1>19, <1>20, <1>21, <1>22, <1>23, <1>24, <1>25, <1>26, <1>27, <1>28, <1>29, <1>30, <1>31, <1>32

(* They grow.                                                              *)
LEMMA PowersGrow ==
  \A j \in 0 .. 32 : 2 ^ j \in Nat \ {0} /\ \A i \in 0 .. j : 2 ^ i <= 2 ^ j
<1> DEFINE T == {j \in 0 .. 32 : 2 ^ j \in Nat \ {0} /\ \A i \in 0 .. j : 2 ^ i <= 2 ^ j}
<1>1. 0 \in T
  <2>1. 2 ^ 0 = 1
    OBVIOUS
  <2>2. ASSUME NEW i \in 0 .. 0 PROVE 2 ^ i <= 2 ^ 0
    <3>1. i = 0
      OBVIOUS
    <3>2. QED
      BY <2>1, <3>1
  <2>3. 0 \in 0 .. 32 /\ 2 ^ 0 \in Nat \ {0} /\ \A i \in 0 .. 0 : 2 ^ i <= 2 ^ 0
    BY <2>1, <2>2
  <2>4. QED
    BY <2>3, Zenon
<1>2. ASSUME NEW j \in 0 .. 32 - 1, j \in T PROVE j + 1 \in T
  <2>1. 2 ^ j \in Nat \ {0} /\ 2 ^ (j + 1) = 2 * 2 ^ j
    <3>1. j \in 0 .. 31
      OBVIOUS
    <3>2. QED
      BY <3>1, Doubles
  <2>2. ASSUME NEW i \in 0 .. j + 1 PROVE 2 ^ i <= 2 ^ (j + 1)
    <3>1. CASE i = j + 1
      BY <2>1, <3>1
    <3>2. CASE i \in 0 .. j
      <4>1. 2 ^ i <= 2 ^ j /\ 2 ^ i \in Int
        BY <1>2, <3>2
      <4>2. QED
        BY <2>1, <4>1
    <3>3. QED
      BY <3>1, <3>2
  <2>3. QED
    BY <2>1, <2>2
<1>3. \A j \in 0 .. 32 : j \in T
  <2> HIDE DEF T
  <2>1. QED
    BY <1>1, <1>2, UpTo
<1>4. QED
  BY <1>3

(* The numbers of a long and a short.                                      *)
LEMMA Widths ==
  /\ \E h \in Nat \ {0} : Long = 2 * h
  /\ \E h \in Nat \ {0} : Short = 2 * h
  /\ Short <= Long
<1>1. ASSUME NEW x \in 1 .. 32 PROVE \E h \in Nat \ {0} : 2 ^ x = 2 * h
  <2>1. x - 1 \in 0 .. 31 /\ (x - 1) + 1 = x
    OBVIOUS
  <2>2. 2 ^ (x - 1) \in Nat \ {0} /\ 2 ^ ((x - 1) + 1) = 2 * 2 ^ (x - 1)
    BY <2>1, Doubles
  <2>3. QED
    BY <2>1, <2>2
<1>2. LongBits \in 1 .. 32 /\ ShortBits \in 1 .. 32 /\ LongBits \in 0 .. 32 /\ ShortBits \in 0 .. LongBits
  BY Bits
<1>3. 2 ^ ShortBits <= 2 ^ LongBits
  BY <1>2, PowersGrow
<1>4. QED
  BY <1>1, <1>2, <1>3 DEF Long, Short

(* Every digit halves what is left, so nothing is left in the end.         *)
LEMMA QuotientsEnd ==
  ASSUME NEW val \in 0 .. Long - 1, NEW base \in Base
  PROVE  Quotients(val, base)[LongBits] = 0
<1> DEFINE r == Quotients(val, base)
<1>1. LongBits \in 0 .. 32 /\ LongBits \in Nat /\ LongBits # 0
  BY Bits
<1>2. Long \in Nat /\ val \in Nat
  BY Widths
<1>3. r \in [0 .. LongBits -> Nat] /\ r[0] = val /\ \A k \in 1 .. LongBits : r[k] = r[k - 1] \div base
  BY <1>2, QuotientsAre
<1> HIDE DEF r
<1> DEFINE T == {k \in 0 .. LongBits : r[k] < 2 ^ (LongBits - k)}
<1>4. 0 \in T
  <2>1. val < 2 ^ LongBits /\ LongBits - 0 = LongBits
    BY <1>1, <1>2 DEF Long
  <2>2. QED
    BY <1>1, <1>3, <2>1
<1>5. ASSUME NEW k \in 0 .. LongBits - 1, k \in T PROVE k + 1 \in T
  <2>1. /\ k + 1 \in 0 .. LongBits /\ k + 1 \in 1 .. LongBits /\ (k + 1) - 1 = k /\ k \in 0 .. LongBits
        /\ LongBits - (k + 1) \in 0 .. 31 /\ (LongBits - (k + 1)) + 1 = LongBits - k
    BY <1>1
  <2>2. PICK a \in Nat : a = r[k]
    BY <1>3, <2>1
  <2>3. PICK p \in Nat : p = 2 ^ (LongBits - (k + 1))
    BY <2>1, Doubles
  <2>4. 2 ^ (LongBits - k) = 2 * p
    <3>1. 2 ^ ((LongBits - (k + 1)) + 1) = 2 * 2 ^ (LongBits - (k + 1))
      BY <2>1, Doubles
    <3>2. QED
      BY <2>1, <2>3, <3>1
  <2>5. a < 2 * p
    BY <1>5, <2>2, <2>4
  <2>6. r[k + 1] = a \div base /\ 2 * (a \div base) <= a /\ a \div base \in Nat
    BY <1>3, <2>1, <2>2, ByBase
  <2>7. r[k + 1] < p
    BY <2>5, <2>6
  <2>8. QED
    BY <2>1, <2>3, <2>7
<1>6. \A k \in 0 .. LongBits : k \in T
  <2> HIDE DEF T
  <2>1. QED
    BY <1>1, <1>4, <1>5, UpTo
<1>7. r[LongBits] < 2 ^ (LongBits - LongBits) /\ r[LongBits] \in Nat
  <2>1. LongBits \in 0 .. LongBits
    BY <1>1
  <2>2. QED
    BY <1>3, <1>6, <2>1
<1>8. 2 ^ (LongBits - LongBits) = 1
  <2>1. LongBits - LongBits = 0
    BY <1>1
  <2>2. QED
    BY <2>1, 2 ^ 0 = 1
<1>9. r[LongBits] = 0
  BY <1>7, <1>8
<1>10. QED
  BY <1>9 DEF r

(* The n digits after which nothing is left are those of the number.       *)
Shown(val, base, n) == [i \in 1 .. n |-> Quotients(val, base)[n - i] % base]

(* They read as it, by their places.                                       *)
LEMMA ShownReads ==
  ASSUME NEW val \in Nat, NEW base \in Base, NEW n \in 1 .. LongBits, Quotients(val, base)[n] = 0
  PROVE  /\ Shown(val, base, n) \in Seq(0 .. base - 1) /\ Len(Shown(val, base, n)) = n
         /\ AllDigits(Shown(val, base, n), base)
         /\ Reads(Shown(val, base, n), base) = val
<1> DEFINE r == Quotients(val, base)
           s == Shown(val, base, n)
<1>1. r \in [0 .. LongBits -> Nat] /\ r[0] = val /\ \A k \in 1 .. LongBits : r[k] = r[k - 1] \div base
  BY QuotientsAre
<1>2. LongBits \in Nat /\ n \in Nat /\ n >= 1 /\ n <= LongBits /\ base \in Nat \ {0}
  BY Bits, ByBase
<1>3. r[n] = 0
  OBVIOUS
<1> HIDE DEF r
<1>4. \A i \in 1 .. n : r[n - i] \in Nat /\ r[n - i] % base \in 0 .. base - 1
  <2>1. \A i \in 1 .. n : n - i \in 0 .. LongBits
    BY <1>2
  <2>2. \A i \in 1 .. n : r[n - i] \in Nat
    BY <1>1, <2>1
  <2>3. QED
    BY <2>2, ByBase
<1>5. s = [i \in 1 .. n |-> r[n - i] % base]
  BY DEF Shown, r
<1>6. s \in Seq(0 .. base - 1) /\ Len(s) = n /\ \A i \in 1 .. n : s[i] = r[n - i] % base
  <2>1. s \in [1 .. n -> 0 .. base - 1]
    BY <1>4, <1>5
  <2> HIDE DEF s
  <2>2. s \in Seq(0 .. base - 1) /\ Len(s) = n
    BY <1>2, <2>1
  <2>3. QED
    BY <1>5, <2>2
<1> HIDE DEF s
<1>7. \A i \in 1 .. n : s[i] \in 0 .. base - 1 /\ s[i] \in Nat
  BY <1>4, <1>6
<1> DEFINE h == [i \in 0 .. n |-> r[n - i]]
<1>8. Horner(h, s, base, n)
  <2>1. \A i \in 0 .. n : n - i \in 0 .. LongBits /\ r[n - i] \in Nat
    BY <1>1, <1>2
  <2>2. h \in [0 .. n -> Nat]
    BY <2>1
  <2>3. h[0] = 0
    <3>1. n - 0 = n
      BY <1>2
    <3>2. QED
      BY <1>2, <1>3, <3>1
  <2>4. ASSUME NEW i \in 1 .. n PROVE h[i] = h[i - 1] * base + s[i]
    <3>1. /\ i \in 0 .. n /\ i - 1 \in 0 .. n /\ n - (i - 1) \in 1 .. LongBits
          /\ (n - (i - 1)) - 1 = n - i
      BY <1>2
    <3>2. h[i] = r[n - i] /\ h[i - 1] = r[n - (i - 1)]
      BY <3>1
    <3>3. r[n - (i - 1)] = r[n - i] \div base
      BY <1>1, <3>1
    <3>4. (r[n - i] \div base) * base + (r[n - i] % base) = r[n - i]
      BY <2>1, <3>1, ByBase
    <3> HIDE DEF h
    <3>5. QED
      BY <1>6, <3>2, <3>3, <3>4
  <2> HIDE DEF h
  <2>5. QED
    BY <2>2, <2>3, <2>4 DEF Horner
<1>9. Reads(s, base) = val
  <2>1. h[n] = r[0]
    <3>1. n - n = 0 /\ n \in 0 .. n
      BY <1>2
    <3>2. QED
      BY <3>1
  <2> HIDE DEF h
  <2>2. Reads(s, base) = h[n]
    <3>1. base \in Nat /\ n \in Nat /\ Len(s) = n /\ \A i \in 1 .. n : s[i] \in Nat
      BY <1>2, <1>6, <1>7
    <3>2. QED
      BY <1>8, <3>1, ReadsHorner
  <2>3. QED
    BY <1>1, <2>1, <2>2
<1>10. AllDigits(s, base)
  BY <1>6, <1>7 DEF AllDigits
<1>11. QED
  BY <1>6, <1>9, <1>10 DEF s

(* There is a least one of any numbers.                                    *)
LEMMA Least ==
  ASSUME NEW S \in SUBSET Nat, S # {}
  PROVE  \E m \in S : \A k \in S : m <= k
<1>1. SUFFICES ASSUME \A m \in S : \E k \in S : k < m PROVE FALSE
  OBVIOUS
<1> DEFINE T == {k \in Nat : \A j \in 0 .. k : j \notin S}
<1>2. 0 \in T
  <2>1. ASSUME NEW j \in 0 .. 0, j \in S PROVE FALSE
    BY <1>1, <2>1
  <2>2. QED
    BY <2>1
<1>3. ASSUME NEW k \in T PROVE k + 1 \in T
  <2>1. ASSUME NEW j \in 0 .. k + 1, j \in S PROVE FALSE
    <3>1. PICK i \in S : i < j
      BY <1>1, <2>1
    <3>2. i \in 0 .. k
      BY <3>1
    <3>3. QED
      BY <1>3, <3>1, <3>2
  <2>2. QED
    BY <2>1
<1>4. T = Nat
  <2>1. T \in SUBSET Nat
    OBVIOUS
  <2> HIDE DEF T
  <2>2. QED
    BY <1>2, <1>3, <2>1, Upwards
<1>5. \A k \in Nat : k \notin S
  BY <1>4
<1>6. QED
  BY <1>5

(* All digits of a number and no more, and at least one.                   *)
LEMMA DigitsAre ==
  ASSUME NEW val \in 0 .. Long - 1, NEW base \in Base
  PROVE  /\ Digits(val, base) \in Seq(0 .. base - 1) /\ Len(Digits(val, base)) \in Nat \ {0}
         /\ AllDigits(Digits(val, base), base)
         /\ Reads(Digits(val, base), base) = val
         /\ Len(Digits(val, base)) > 1 => Digits(val, base)[1] # 0
<1> DEFINE r == Quotients(val, base)
           End(n) == r[n] = 0 /\ \A k \in 1 .. n - 1 : r[k] # 0
           n == CHOOSE n \in 1 .. LongBits : End(n)
<1>1. val \in Nat /\ LongBits \in Nat /\ LongBits >= 4
  BY Bits, Widths
<1>2. r \in [0 .. LongBits -> Nat] /\ \A k \in 1 .. LongBits : r[k] = r[k - 1] \div base
  BY <1>1, QuotientsAre
<1>3. r[LongBits] = 0
  BY QuotientsEnd
<1>4. Digits(val, base) = Shown(val, base, n)
  BY DEF Digits, Shown
<1> HIDE DEF r
<1>5. \E m \in 1 .. LongBits : End(m)
  <2> DEFINE S == {k \in 1 .. LongBits : r[k] = 0}
  <2>1. S \in SUBSET Nat /\ S # {}
    BY <1>1, <1>3
  <2>2. PICK m \in S : \A k \in S : m <= k
    BY <2>1, Least
  <2>3. \A k \in 1 .. m - 1 : r[k] # 0
    <3>1. ASSUME NEW k \in 1 .. m - 1, r[k] = 0 PROVE FALSE
      <4>1. k \in S /\ ~(m <= k)
        BY <1>1, <3>1
      <4>2. QED
        BY <2>2, <4>1
    <3>2. QED
      BY <3>1
  <2>4. QED
    BY <2>2, <2>3
<1>6. n \in 1 .. LongBits /\ End(n)
  <2> HIDE DEF End
  <2>1. QED
    BY <1>5
<1> HIDE DEF n
<1>7. /\ Shown(val, base, n) \in Seq(0 .. base - 1) /\ Len(Shown(val, base, n)) = n
      /\ AllDigits(Shown(val, base, n), base) /\ Reads(Shown(val, base, n), base) = val
  <2>1. Quotients(val, base)[n] = 0
    BY <1>6 DEF r
  <2>2. QED
    BY <1>1, <1>6, <2>1, ShownReads
<1>8. n > 1 => Shown(val, base, n)[1] # 0
  <2>1. SUFFICES ASSUME n > 1 PROVE Shown(val, base, n)[1] # 0
    OBVIOUS
  <2>2. n - 1 \in 0 .. LongBits /\ n - 1 \in 1 .. n - 1 /\ 1 \in 1 .. n
    BY <1>1, <1>6, <2>1
  <2>3. r[n - 1] \in Nat /\ r[n - 1] # 0 /\ r[n - 1] \div base = 0
    BY <1>2, <1>6, <2>2
  <2>4. PICK v \in Nat : v = r[n - 1]
    BY <2>3
  <2>5. v % base # 0
    <3>1. v # 0 /\ v \div base = 0 /\ base \in Nat /\ v % base \in Nat
      <4>1. base \in Nat \ {0} /\ v % base \in 0 .. base - 1
        BY ByBase
      <4>2. QED
        BY <2>3, <2>4, <4>1
    <3>2. (v \div base) * base + (v % base) = v
      BY ByBase
    <3>3. 0 * base + (v % base) = v
      BY <3>1, <3>2
    <3>4. QED
      BY <3>1, <3>3
  <2>6. Shown(val, base, n)[1] = r[n - 1] % base
    BY <2>2 DEF Shown, r
  <2>7. QED
    BY <2>4, <2>5, <2>6
<1>9. n \in Nat \ {0}
  BY <1>1, <1>6
<1>10. QED
  BY <1>4, <1>7, <1>8, <1>9

(* A quarter of the bits are the hexadecimal digits.                       *)
LEMMA HexEnds ==
  ASSUME NEW val \in 0 .. Long - 1, NEW q \in 1 .. 8, LongBits = 4 * q
  PROVE  Quotients(val, 16)[q] = 0
<1> DEFINE r == Quotients(val, 16)
<1>1. LongBits \in 0 .. 32 /\ q \in Nat
  OBVIOUS
<1>2. Long \in Nat /\ val \in Nat /\ 16 \in Base
  BY Widths DEF Base
<1>3. r \in [0 .. LongBits -> Nat] /\ r[0] = val /\ \A k \in 1 .. LongBits : r[k] = r[k - 1] \div 16
  BY <1>2, QuotientsAre
<1> HIDE DEF r
<1> DEFINE T == {k \in 0 .. q : r[k] < 2 ^ (4 * (q - k))}
<1>4. 0 \in T
  <2>1. 4 * (q - 0) = LongBits
    OBVIOUS
  <2>2. val < 2 ^ LongBits
    BY <1>2 DEF Long
  <2>3. QED
    BY <1>3, <2>1, <2>2
<1>5. ASSUME NEW k \in 0 .. q - 1, k \in T PROVE k + 1 \in T
  <2>1. /\ k + 1 \in 0 .. q /\ k + 1 \in 1 .. LongBits /\ (k + 1) - 1 = k /\ k \in 0 .. LongBits
    OBVIOUS
  <2>2. PICK a \in Nat : a = r[k]
    BY <1>3, <2>1
  <2>3. PICK j \in 0 .. 28 : j = 4 * (q - (k + 1)) /\ j + 4 = 4 * (q - k)
    OBVIOUS
  <2>4. PICK p \in Nat : p = 2 ^ j
    <3>1. j \in 0 .. 31
      OBVIOUS
    <3>2. QED
      BY <3>1, Doubles
  <2>5. 2 ^ (j + 4) = 16 * p
    <3>1. /\ j \in 0 .. 31 /\ j + 1 \in 0 .. 31 /\ j + 2 \in 0 .. 31 /\ j + 3 \in 0 .. 31
          /\ (j + 1) + 1 = j + 2 /\ (j + 2) + 1 = j + 3 /\ (j + 3) + 1 = j + 4
      OBVIOUS
    <3>2. 2 ^ (j + 1) = 2 * p
      BY <2>4, <3>1, Doubles
    <3>3. 2 ^ ((j + 1) + 1) = 2 * 2 ^ (j + 1)
      BY <3>1, Doubles
    <3>4. 2 ^ ((j + 2) + 1) = 2 * 2 ^ (j + 2)
      BY <3>1, Doubles
    <3>5. 2 ^ ((j + 3) + 1) = 2 * 2 ^ (j + 3)
      BY <3>1, Doubles
    <3>6. 2 ^ (j + 2) = 4 * p
      BY <3>1, <3>2, <3>3
    <3>7. 2 ^ (j + 3) = 8 * p
      BY <3>1, <3>4, <3>6
    <3>8. QED
      BY <3>1, <3>5, <3>7
  <2>6. a < 16 * p
    BY <1>5, <2>2, <2>3, <2>5
  <2>7. r[k + 1] = a \div 16
    BY <1>3, <2>1, <2>2
  <2>8. r[k + 1] < p
    BY <2>6, <2>7
  <2>9. QED
    BY <2>1, <2>3, <2>4, <2>8
<1>6. \A k \in 0 .. q : k \in T
  <2> HIDE DEF T
  <2>1. QED
    BY <1>1, <1>4, <1>5, UpTo
<1>7. r[q] < 2 ^ (4 * (q - q)) /\ r[q] \in Nat
  <2>1. q \in 0 .. q /\ q \in 0 .. LongBits
    OBVIOUS
  <2>2. QED
    BY <1>3, <1>6, <2>1
<1>8. 2 ^ (4 * (q - q)) = 1
  <2>1. 4 * (q - q) = 0
    OBVIOUS
  <2>2. QED
    BY <2>1, 2 ^ 0 = 1
<1>9. r[q] = 0
  BY <1>7, <1>8
<1>10. QED
  BY <1>9 DEF r

-----------------------------------------------------------------------------
(* The calls.                                                              *)
LEMMA TextsAre ==
  ASSUME NEW s \in Texts
  PROVE  s \in Seq(Char) /\ Len(s) \in 0 .. MaxText /\ \A i \in 1 .. Len(s) : s[i] \in Char
<1>1. PICK n \in 0 .. MaxText : s \in [1 .. n -> Char]
  BY DEF Texts
<1>2. n \in Nat
  BY TextAssumption
<1>3. s \in Seq(Char) /\ Len(s) = n
  BY <1>1, <1>2
<1>4. QED
  BY <1>1, <1>2, <1>3

(* The arguments of a call of each kind.                                   *)
ParseCall(c) == c.s \in Texts

NumberCall(c) ==
  /\ c.conv \in {"d", "u", "o", "x", "p"} /\ c.num \in Numbers /\ c.qualifier \in {"h", "l"}
  /\ c.flags \in SUBSET Flag /\ c.width \in Sizes /\ c.precision \in Sizes

StringCall(c) ==
  /\ c.conv \in {"c", "s"} /\ c.flags \in SUBSET {"LEFT"} /\ c.width \in Sizes
  /\ \/ c.conv = "c" /\ c.s \in [1 .. 1 -> Char] /\ c.precision = -1
     \/ c.conv = "s" /\ c.s \in Texts /\ c.precision \in Sizes

CompareCall(c) == c.s \in Texts /\ c.t \in Texts

(* Every call enumerated has them.                                         *)
LEMMA CallsAre ==
  ASSUME NEW c \in Calls
  PROVE  /\ c.op = "parse" => ParseCall(c)
         /\ c.op = "number" => NumberCall(c)
         /\ c.op = "string" => StringCall(c)
         /\ c.op = "strcmp" => CompareCall(c)
<1>1. CASE c \in [op : {"parse"}, s : Texts]
  BY <1>1 DEF ParseCall
<1>2. CASE c \in [op : {"number"}, conv : {"d", "u", "o", "x", "p"}, num : Numbers,
                  qualifier : {"h", "l"}, flags : SUBSET Flag, width : Sizes, precision : Sizes]
  BY <1>2 DEF NumberCall
<1>3. CASE c \in [op : {"string"}, conv : {"c"}, s : [1 .. 1 -> Char],
                  flags : SUBSET {"LEFT"}, width : Sizes, precision : {-1}]
  BY <1>3 DEF StringCall
<1>4. CASE c \in [op : {"string"}, conv : {"s"}, s : Texts,
                  flags : SUBSET {"LEFT"}, width : Sizes, precision : Sizes]
  BY <1>4 DEF StringCall
<1>5. CASE c \in [op : {"strcmp"}, s : Texts, t : Texts]
  BY <1>5 DEF CompareCall
<1>6. QED
  BY <1>1, <1>2, <1>3, <1>4, <1>5 DEF Calls

(* A text is read as the number it shows, cut to its width, or as none.    *)
LEMMA ParseIsRight == sample \in Calls => ParseRight
<1>1. SUFFICES ASSUME sample \in Calls, sample.op = "parse"
               PROVE  /\ parse_hex(sample.s) = IF AllDigits(sample.s, 16) THEN {Reads(sample.s, 16) % Long} ELSE {}
                      /\ parse_dec(sample.s) = IF AllDigits(sample.s, 10) THEN {Reads(sample.s, 10) % Short} ELSE {}
  BY DEF ParseRight
<1>2. Len(sample.s) \in Nat
  <2>1. sample.s \in Texts
    BY <1>1, CallsAre DEF ParseCall
  <2>2. Len(sample.s) \in 0 .. MaxText
    BY <2>1, TextsAre
  <2>3. QED
    BY <2>2, TextAssumption
<1>3. Long \in Nat \ {0} /\ Short \in Nat \ {0}
  BY Widths
<1>4. QED
  BY <1>2, <1>3, ParseIs DEF parse_hex, parse_dec

(* What is printed, by a decimal or by all hexadecimal digits, is read     *)
(* back.                                                                   *)
LEMMA PrintedIsRight == sample \in Calls => PrintedReads
<1>1. SUFFICES ASSUME sample \in Calls, sample.op = "number"
               PROVE  /\ parse_dec(to_dec(sample.num % Short)) = {sample.num % Short}
                      /\ parse_hex(put_val(sample.num, LongBits \div 4)) = {sample.num}
  BY DEF PrintedReads
<1>2. Long \in Nat \ {0} /\ Short \in Nat \ {0} /\ Short <= Long
  BY Widths
<1>3. sample.num \in 0 .. Long - 1
  <2>1. sample.num \in Numbers
    BY <1>1, CallsAre DEF NumberCall
  <2>2. QED
    BY <2>1, TextAssumption DEF Long
<1>4. parse_dec(to_dec(sample.num % Short)) = {sample.num % Short}
  <2>1. PICK v \in 0 .. Short - 1 : v = sample.num % Short
    BY <1>2, <1>3, DivMod
  <2> DEFINE d == Digits(v, 10)
  <2>2. v \in 0 .. Long - 1 /\ 10 \in Base /\ v \in Nat
    BY <1>2 DEF Base
  <2>3. Len(d) \in Nat /\ AllDigits(d, 10) /\ Reads(d, 10) = v
    BY <2>2, DigitsAre
  <2> HIDE DEF d
  <2>4. Parse(d, 10, Short) = {v % Short}
    BY <1>2, <2>3, ParseIs
  <2>5. v % Short = v
    BY <1>2, <2>1, <2>2, ModSmall
  <2>6. QED
    BY <2>1, <2>4, <2>5 DEF parse_dec, to_dec, d
<1>5. parse_hex(put_val(sample.num, LongBits \div 4)) = {sample.num}
  <2>1. PICK q \in 1 .. 8 : LongBits = 4 * q
    BY Bits
  <2>2. LongBits \div 4 = q /\ q \in 1 .. LongBits
    BY <2>1
  <2> DEFINE d == Shown(sample.num, 16, q)
  <2>3. 16 \in Base /\ sample.num \in Nat
    BY <1>3 DEF Base
  <2>4. Quotients(sample.num, 16)[q] = 0
    BY <1>3, <2>1, HexEnds
  <2>5. Len(d) = q /\ AllDigits(d, 16) /\ Reads(d, 16) = sample.num
    BY <2>2, <2>3, <2>4, ShownReads
  <2>6. put_val(sample.num, q) = d
    BY DEF put_val, Shown
  <2> HIDE DEF d
  <2>7. Len(d) \in Nat
    BY <2>5
  <2>8. Parse(d, 16, Long) = {sample.num % Long}
    BY <1>2, <2>5, <2>7, ParseIs
  <2>9. sample.num % Long = sample.num
    BY <1>2, <1>3, <2>3, ModSmall
  <2>10. QED
    BY <2>2, <2>6, <2>8, <2>9 DEF parse_hex
<1>6. QED
  BY <1>4, <1>5

(* A character repeated, not at all if the number is negative.             *)
LEMMA RepeatIs ==
  ASSUME NEW X, NEW n \in Int, NEW c \in X
  PROVE  /\ Repeat(n, c) \in Seq(X) /\ Len(Repeat(n, c)) = Larger(n, 0)
         /\ \A i \in 1 .. Larger(n, 0) : Repeat(n, c)[i] = c
         /\ Repeat(n, c) = Repeat(Larger(n, 0), c)
<1>1. PICK m \in Nat : m = Larger(n, 0)
  BY DEF Larger
<1>2. 1 .. n = 1 .. m
  BY <1>1 DEF Larger
<1>3. Repeat(n, c) = [i \in 1 .. m |-> c]
  BY <1>2 DEF Repeat
<1>4. Repeat(n, c) \in Seq(X) /\ Len(Repeat(n, c)) = m
  BY <1>3
<1>5. Repeat(m, c) = [i \in 1 .. m |-> c]
  BY DEF Repeat
<1>6. QED
  BY <1>1, <1>3, <1>4, <1>5

(* A string is cut and set in its field as asked.                          *)
LEMMA FieldIsRight == sample \in Calls => FieldRight
<1>1. SUFFICES ASSUME sample \in Calls, sample.op = "string" PROVE FieldRight
  BY DEF FieldRight
<1> DEFINE s == sample.s
           most == IF sample.precision > 0 THEN sample.precision ELSE Limit
           len == IF sample.conv = "c" THEN 1
                  ELSE strnlen(sample.s, IF sample.precision <= 0 THEN Limit ELSE sample.precision)
           w == field_width(sample)
           pad == Repeat(w - len, Blank)
           shown == SubSeq(s, 1, len)
           left == "LEFT" \in type(sample)
           t == vsprintf(sample)
<1>2. StringCall(sample)
  BY <1>1, CallsAre
<1>3. w \in Int /\ Limit \in Nat \ {0} /\ sample.precision \in Int
  <2>1. sample.width \in Int /\ sample.conv # "p" /\ sample.precision \in Int
    <3>1. Sizes \subseteq Int
      BY TextAssumption
    <3>2. sample.width \in Sizes /\ sample.conv # "p"
      BY <1>2 DEF StringCall
    <3>3. sample.precision = -1 \/ sample.precision \in Sizes
      BY <1>2 DEF StringCall
    <3>4. sample.width \in Int
      BY <3>1, <3>2
    <3>5. sample.precision \in Int
      <4>1. CASE sample.precision \in Sizes
        BY <3>1, <4>1
      <4>2. CASE sample.precision = -1
        BY <4>2, -1 \in Int
      <4>3. QED
        BY <3>3, <4>1, <4>2
    <3>6. QED
      BY <3>2, <3>4, <3>5
  <2>2. w = IF sample.width < -1 THEN -sample.width ELSE sample.width
    BY <2>1 DEF field_width
  <2>3. QED
    BY <2>1, <2>2, TextAssumption
<1>4. s \in Seq(Char) /\ Len(s) \in Nat
  <2>1. CASE sample.conv = "c"
    <3>1. s \in [1 .. 1 -> Char]
      BY <1>2, <2>1 DEF StringCall
    <3>2. PICK m, x : m \in Nat /\ m = 1 /\ x \in [1 .. m -> Char] /\ x = s
      BY <3>1
    <3>3. x \in Seq(Char)
      <4>1. m \in Nat /\ x \in [1 .. m -> Char]
        BY <3>2
      <4>2. QED
        BY ONLY <4>1, SeqDef
    <3>4. Len(x) \in Nat
      BY <3>3, LenProperties
    <3>5. QED
      BY <3>2, <3>3, <3>4
  <2>2. CASE sample.conv # "c"
    <3>1. s \in Texts
      BY <1>2, <2>2 DEF StringCall
    <3>2. Len(s) \in 0 .. MaxText /\ MaxText \in Nat
      BY <3>1, TextsAre, TextAssumption
    <3>3. QED
      BY <3>1, <3>2, TextsAre
  <2>3. QED
    BY <2>1, <2>2
<1>5. /\ len \in 0 .. Len(s) /\ len <= most
      /\ Len(s) < most \/ sample.conv = "c" => len = Len(s)
  <2>1. CASE sample.conv = "c"
    <3>1. s \in [1 .. 1 -> Char] /\ sample.precision = -1
      BY <1>2, <2>1 DEF StringCall
    <3>2. Len(s) = 1
      BY <3>1, <1>4
    <3>3. QED
      BY <1>3, <2>1, <3>1, <3>2
  <2>2. CASE sample.conv # "c"
    <3>1. most \in Nat \ {0} /\ len = strnlen(s, most)
      BY <1>3, <2>2
    <3> HIDE DEF most, len
    <3>2. QED
      BY <1>4, <2>2, <3>1 DEF strnlen
  <2>3. QED
    BY <2>1, <2>2
<1>6. t = IF left THEN shown \o pad ELSE pad \o shown
  BY <1>1 DEF vsprintf
<1> HIDE DEF s, most, len, w, pad, shown, left, t
<1> DEFINE X == Char \cup {Blank}
<1>7. len \in Nat /\ Blank \in X
  BY <1>4, <1>5
<1>8. pad \in Seq(X) /\ Len(pad) = Larger(w - len, 0)
  <2>1. w - len \in Int
    BY <1>3, <1>7
  <2>2. QED
    BY <1>7, <2>1, RepeatIs DEF pad
<1>9. shown \in Seq(X) /\ Len(shown) = len
  <2>1. \A i \in 1 .. len : s[i] \in X
    BY <1>4, <1>5, <1>7
  <2> HIDE DEF X
  <2>2. SubSeq(s, 1, len) \in Seq(X) /\ Len(SubSeq(s, 1, len)) = IF 1 <= len THEN len - 1 + 1 ELSE 0
    BY <1>7, <2>1, SubSeqProperties
  <2>3. QED
    BY <1>7, <2>2 DEF shown
<1> HIDE DEF X
<1>10. Len(t) = len + Larger(w - len, 0)
  <2>1. Len(shown \o pad) = Len(shown) + Len(pad) /\ Len(pad \o shown) = Len(pad) + Len(shown)
    BY <1>8, <1>9, ConcatProperties
  <2>2. Larger(w - len, 0) \in Nat
    BY <1>3, <1>7 DEF Larger
  <2>3. QED
    BY <1>6, <1>7, <1>8, <1>9, <2>1, <2>2
<1>11. Len(t) = Larger(w, len)
  BY <1>3, <1>7, <1>10 DEF Larger
<1>12. Repeat(Len(t) - len, Blank) = pad
  <2>1. w - len \in Int /\ Larger(w - len, 0) \in Nat
    BY <1>3, <1>7 DEF Larger
  <2>2. Len(t) - len = Larger(w - len, 0)
    BY <1>7, <1>10, <2>1
  <2>3. Repeat(w - len, Blank) = Repeat(Larger(w - len, 0), Blank)
    BY <1>7, <2>1, RepeatIs
  <2>4. QED
    BY <2>2, <2>3 DEF pad
<1>13. t = IF left THEN shown \o Repeat(Len(t) - len, Blank) ELSE Repeat(Len(t) - len, Blank) \o shown
  BY <1>6, <1>12
<1>14. QED
  BY <1>5, <1>11, <1>13 DEF FieldRight, s, most, shown, left, t, w

(* The comparison stops at the first difference or the common end.         *)
LEMMA CompareIsRight == sample \in Calls => CompareRight
<1>1. SUFFICES ASSUME sample \in Calls, sample.op = "strcmp"
               PROVE  strcmp(sample.s, sample.t) = 0 <=> sample.s = sample.t
  BY DEF CompareRight
<1>2. PICK a \in Texts, b \in Texts : a = sample.s /\ b = sample.t
  BY <1>1, CallsAre DEF CompareCall
<1>3. /\ a \in Seq(Char) /\ Len(a) \in 0 .. MaxText /\ \A i \in 1 .. Len(a) : a[i] \in Char
      /\ b \in Seq(Char) /\ Len(b) \in 0 .. MaxText /\ \A i \in 1 .. Len(b) : b[i] \in Char
      /\ MaxText \in Nat
  BY TextsAre, TextAssumption
<1> DEFINE at(s, i) == IF i <= Len(s) THEN s[i] ELSE -9
           Stops(i) == at(a, i) # at(b, i) \/ at(a, i) = -9
           Ends(i) == Stops(i) /\ \A j \in 1 .. i - 1 : at(a, j) = at(b, j) /\ at(a, j) # -9
           stop == CHOOSE i \in 1 .. MaxText + 1 :
                     /\ at(a, i) # at(b, i) \/ at(a, i) = -9
                     /\ \A j \in 1 .. i - 1 : at(a, j) = at(b, j) /\ at(a, j) # -9
<1>4. strcmp(a, b) = IF at(a, stop) = -9 /\ at(b, stop) = -9 THEN 0 ELSE -1
  BY DEF strcmp
<1>5. \E i \in 1 .. MaxText + 1 : Ends(i)
  <2> DEFINE S == {i \in 1 .. MaxText + 1 : Stops(i)}
  <2>1. Len(a) + 1 \in S
    BY <1>3
  <2>2. S \in SUBSET Nat /\ S # {}
    BY <1>3, <2>1
  <2>3. PICK i \in S : \A k \in S : i <= k
    BY <2>2, Least
  <2>4. ASSUME NEW j \in 1 .. i - 1 PROVE ~Stops(j)
    <3>1. j \in 1 .. MaxText + 1 /\ ~(i <= j)
      BY <1>3
    <3> HIDE DEF Stops
    <3>2. QED
      BY <2>3, <3>1
  <2>5. QED
    BY <2>3, <2>4
<1>6. stop \in 1 .. MaxText + 1 /\ Ends(stop)
  BY <1>5
<1> HIDE DEF stop
<1>7. \A i \in 1 .. MaxText + 1 : /\ at(a, i) = -9 <=> i > Len(a)
                                  /\ at(b, i) = -9 <=> i > Len(b)
  <2>1. \A c \in Char : c # -9
    BY DEF Char, Other
  <2>2. QED
    BY <1>3, <2>1
<1>8. at(a, stop) = -9 /\ at(b, stop) = -9 => a = b
  <2>1. SUFFICES ASSUME at(a, stop) = -9, at(b, stop) = -9 PROVE a = b
    OBVIOUS
  <2>2. stop > Len(a) /\ stop > Len(b)
    BY <1>6, <1>7, <2>1
  <2>3. \A j \in 1 .. stop - 1 : at(a, j) = at(b, j) /\ at(a, j) # -9
    BY <1>6
  <2>4. \A j \in 1 .. stop - 1 : j \in 1 .. MaxText + 1
    BY <1>3, <1>6
  <2>5. \A j \in 1 .. stop - 1 : j <= Len(a) /\ at(b, j) # -9
    BY <1>3, <1>7, <2>3, <2>4
  <2>6. \A j \in 1 .. stop - 1 : j <= Len(a) /\ j <= Len(b)
    BY <1>3, <1>7, <2>4, <2>5
  <2>7. Len(a) = stop - 1 /\ Len(b) = stop - 1
    <3>1. stop - 1 \in 1 .. stop - 1 \/ stop = 1
      BY <1>6
    <3>2. QED
      BY <1>3, <1>6, <2>2, <2>6, <3>1
  <2>8. \A j \in 1 .. Len(a) : a[j] = b[j]
    BY <2>3, <2>6, <2>7
  <2>9. QED
    BY <1>3, <2>7, <2>8, SeqEqual
<1>9. a = b => at(a, stop) = -9 /\ at(b, stop) = -9
  BY <1>6
<1>10. QED
  BY <1>2, <1>4, <1>8, <1>9

(* Leading zeros change nothing.                                           *)
LEMMA ZerosRead ==
  ASSUME NEW base \in Base, NEW k \in Nat, NEW d \in Seq(0 .. base - 1)
  PROVE  /\ Repeat(k, 0) \o d \in Seq(0 .. base - 1) /\ Len(Repeat(k, 0) \o d) = k + Len(d)
         /\ Reads(Repeat(k, 0) \o d, base) = Reads(d, base)
         /\ k > 0 => (Repeat(k, 0) \o d)[1] = 0
         /\ k = 0 => Repeat(k, 0) \o d = d
<1> DEFINE z == Repeat(k, 0)
           s == z \o d
           n == Len(d)
           X == 0 .. base - 1
<1>1. base \in Nat \ {0} /\ 0 \in X
  <2>1. base \in Nat \ {0}
    BY 0 \in Nat, ByBase
  <2>2. QED
    BY <2>1
<1>2. z \in Seq(X) /\ Len(z) = k /\ \A i \in 1 .. k : z[i] = 0
  <2>1. Larger(k, 0) = k
    BY DEF Larger
  <2> HIDE DEF X
  <2>2. QED
    BY <1>1, <2>1, RepeatIs
<1> HIDE DEF z
<1>3. n \in Nat /\ \A i \in 1 .. n : d[i] \in X
  <2>1. d \in Seq(X)
    OBVIOUS
  <2> HIDE DEF X
  <2>2. QED
    BY <2>1, LenProperties, ElementOfSeq
<1>4. s \in Seq(X) /\ Len(s) = k + n /\ \A i \in 1 .. k + n : s[i] = IF i <= k THEN z[i] ELSE d[i - k]
  <2> HIDE DEF X
  <2>1. d \in Seq(X)
    BY DEF X
  <2>2. QED
    BY <1>2, <2>1, ConcatProperties
<1> HIDE DEF s
<1>5. PICK h : Horner(h, d, base, n)
  <2>1. \A i \in 1 .. n : d[i] \in Nat
    BY <1>1, <1>3
  <2> HIDE DEF n
  <2>2. QED
    BY <1>1, <1>3, <2>1, HornerExists
<1>6. h \in [0 .. n -> Nat] /\ h[0] = 0 /\ \A i \in 1 .. n : h[i] = h[i - 1] * base + d[i]
  BY <1>5 DEF Horner
<1> HIDE DEF n
<1> DEFINE g == [i \in 0 .. k + n |-> IF i <= k THEN 0 ELSE h[i - k]]
<1>7. Horner(g, s, base, k + n)
  <2>1. g \in [0 .. k + n -> Nat]
    <3>1. \A i \in 0 .. k + n : i > k => i - k \in 0 .. n
      BY <1>3
    <3>2. \A i \in 0 .. k + n : i > k => h[i - k] \in Nat
      BY <1>6, <3>1
    <3>3. \A i \in 0 .. k + n : (IF i <= k THEN 0 ELSE h[i - k]) \in Nat
      <4>1. \A i \in 0 .. k + n : i <= k \/ i > k
        BY <1>3
      <4>2. QED
        BY <3>2, <4>1
    <3>4. QED
      BY <3>3
  <2>2. g[0] = 0
    BY <1>3
  <2>3. ASSUME NEW i \in 1 .. k + n PROVE g[i] = g[i - 1] * base + s[i]
    <3>1. i \in 0 .. k + n /\ i - 1 \in 0 .. k + n
      BY <1>3
    <3>2. g[i] = (IF i <= k THEN 0 ELSE h[i - k]) /\ g[i - 1] = (IF i - 1 <= k THEN 0 ELSE h[i - 1 - k])
      BY <3>1
    <3> HIDE DEF g
    <3>3. CASE i <= k
      <4>1. g[i] = 0 /\ g[i - 1] = 0
        BY <3>2, <3>3
      <4>2. s[i] = 0
        BY <1>2, <1>4, <3>3
      <4>3. QED
        BY <1>1, <4>1, <4>2
    <3>4. CASE i > k
      <4>1. i - k \in 1 .. n /\ (i - k) - 1 = i - 1 - k /\ s[i] = d[i - k]
        BY <1>3, <1>4, <3>4
      <4>2. g[i - 1] = h[i - 1 - k]
        <5>1. CASE i - 1 = k
          <6>1. i - 1 - k = 0
            BY <5>1
          <6>2. QED
            BY <1>6, <3>2, <5>1, <6>1
        <5>2. CASE i - 1 > k
          BY <3>2, <5>2
        <5>3. QED
          BY <3>4, <5>1, <5>2
      <4>3. h[i - k] = h[(i - k) - 1] * base + d[i - k]
        BY <1>6, <4>1
      <4>4. g[i] = h[i - k]
        BY <3>2, <3>4
      <4>5. QED
        BY <4>1, <4>2, <4>3, <4>4
    <3>5. QED
      BY <3>3, <3>4
  <2> HIDE DEF g
  <2>4. QED
    BY <2>1, <2>2, <2>3 DEF Horner
<1>8. g[k + n] = h[n]
  <2>1. CASE n = 0
    BY <1>3, <1>6, <2>1
  <2>2. CASE n > 0
    BY <1>3, <2>2
  <2>3. QED
    BY <1>3, <2>1, <2>2
<1> HIDE DEF g
<1>9. Reads(s, base) = h[n]
  <2>1. base \in Nat /\ k + n \in Nat /\ \A i \in 1 .. k + n : s[i] \in Nat
    <3>1. \A i \in 1 .. Len(s) : s[i] \in X
      <4>1. s \in Seq(X)
        BY <1>4
      <4> HIDE DEF X
      <4>2. QED
        BY <4>1, ElementOfSeq
    <3>2. QED
      BY <1>1, <1>3, <1>4, <3>1
  <2>2. PICK m \in Nat : m = k + n
    BY <2>1
  <2>3. Len(s) = m /\ (\A i \in 1 .. m : s[i] \in Nat) /\ Horner(g, s, base, m)
    BY <1>4, <1>7, <2>1, <2>2
  <2>4. Reads(s, base) = g[m]
    BY <2>1, <2>3, ReadsHorner
  <2>5. QED
    BY <1>8, <2>2, <2>4
<1>10. Reads(d, base) = h[n]
  <2>1. base \in Nat /\ Len(d) = n /\ \A i \in 1 .. n : d[i] \in Nat
    BY <1>1, <1>3 DEF n
  <2>2. QED
    BY <1>3, <1>5, <2>1, ReadsHorner
<1>11. k > 0 => s[1] = 0
  BY <1>2, <1>3, <1>4
<1>12. k = 0 => s = d
  <2>1. d \in Seq(X) /\ Len(d) = n
    BY DEF n
  <2>2. k = 0 => Len(s) = Len(d) /\ \A i \in 1 .. Len(s) : s[i] = d[i]
    BY <1>3, <1>4, <2>1
  <2> HIDE DEF X
  <2>3. QED
    BY <1>4, <2>1, <2>2, SeqEqual
<1>13. QED
  BY <1>4, <1>9, <1>10, <1>11, <1>12 DEF s, z, n

(* What is set between others is found at its place.                       *)
LEMMA Between ==
  ASSUME NEW X, NEW u \in Seq(X), NEW v \in Seq(X), NEW w \in Seq(X)
  PROVE  /\ u \o v \o w \in Seq(X) /\ Len(u \o v \o w) = Len(u) + Len(v) + Len(w)
         /\ SubSeq(u \o v \o w, Len(u) + 1, Len(u \o v \o w) - Len(w)) = v
<1> DEFINE t == u \o v \o w
           m == Len(u)
           n == Len(v)
           k == Len(w)
           y == SubSeq(t, m + 1, m + n)
<1>1. m \in Nat /\ n \in Nat /\ k \in Nat
  BY LenProperties
<1>2. u \o v \in Seq(X) /\ Len(u \o v) = m + n
      /\ \A i \in 1 .. m + n : (u \o v)[i] = IF i <= m THEN u[i] ELSE v[i - m]
  BY ConcatProperties
<1>3. t \in Seq(X) /\ Len(t) = (m + n) + k
      /\ \A i \in 1 .. (m + n) + k : t[i] = IF i <= m + n THEN (u \o v)[i] ELSE w[i - (m + n)]
  BY <1>2, ConcatProperties
<1> HIDE DEF t, m, n, k
<1>4. \A i \in m + 1 .. m + n : t[i] \in X
  <2>1. \A i \in 1 .. Len(t) : t[i] \in X
    BY <1>3, ElementOfSeq
  <2>2. QED
    BY <1>1, <1>3, <2>1
<1>5. y \in Seq(X) /\ Len(y) = n /\ \A i \in 1 .. n : y[i] = t[m + i]
  <2>1. m + 1 \in Int /\ m + n \in Int
    BY <1>1
  <2>2. /\ y \in Seq(X) /\ Len(y) = (IF m + 1 <= m + n THEN (m + n) - (m + 1) + 1 ELSE 0)
        /\ \A i \in 1 .. (m + n) - (m + 1) + 1 : y[i] = t[(m + 1) + i - 1]
    BY <1>4, <2>1, SubSeqProperties
  <2> HIDE DEF y
  <2>3. (m + n) - (m + 1) + 1 = n /\ \A i \in 1 .. n : (m + 1) + i - 1 = m + i
    BY <1>1
  <2>4. QED
    BY <1>1, <2>2, <2>3
<1>6. \A i \in 1 .. n : t[m + i] = v[i]
  <2>1. ASSUME NEW i \in 1 .. n PROVE t[m + i] = v[i]
    <3>1. m + i \in 1 .. (m + n) + k /\ m + i \in 1 .. m + n /\ m + i <= m + n /\ ~(m + i <= m)
          /\ (m + i) - m = i
      BY <1>1
    <3>2. t[m + i] = (u \o v)[m + i]
      BY <1>3, <3>1
    <3>3. (u \o v)[m + i] = v[(m + i) - m]
      BY <1>2, <3>1
    <3>4. QED
      BY <3>1, <3>2, <3>3
  <2>2. QED
    BY <2>1
<1> HIDE DEF y
<1>7. y = v
  <2>1. v \in Seq(X) /\ Len(v) = n
    BY DEF n
  <2>2. QED
    BY <1>5, <1>6, <2>1, SeqEqual
<1>8. Len(t) - k = m + n
  BY <1>1, <1>3
<1>9. QED
  BY <1>3, <1>7, <1>8 DEF t, m, n, k, y

(* Sequences that are joined may be grouped otherwise.                     *)
LEMMA CatIs ==
  ASSUME NEW X, NEW u \in Seq(X), NEW v \in Seq(X)
  PROVE  Cat(u, v) \in Seq(X) /\ \A w \in Seq(X) : Cat(Cat(u, v), w) = Cat(u, Cat(v, w))
  BY ConcatProperties, ConcatAssociative DEF Cat

(* Four of them.                                                           *)
LEMMA Regroup ==
  ASSUME NEW X, NEW u \in Seq(X), NEW v \in Seq(X), NEW w \in Seq(X), NEW y \in Seq(X)
  PROVE  Cat(Cat(Cat(u, v), w), y) = Cat(u, Cat(v, Cat(w, y)))
<1>1. Cat(u, v) \in Seq(X) /\ Cat(Cat(u, v), w) = Cat(u, Cat(v, w))
  BY CatIs
<1>2. Cat(v, w) \in Seq(X) /\ Cat(Cat(v, w), y) = Cat(v, Cat(w, y))
  BY CatIs
<1>3. Cat(Cat(u, Cat(v, w)), y) = Cat(u, Cat(Cat(v, w), y))
  BY <1>2, CatIs
<1>4. QED
  BY <1>1, <1>2, <1>3

(* The parts of a number in its field.                                     *)
LaidOut(b, sign, prefix, z, p, d, a) ==
  Repeat(b, Blank) \o sign \o prefix \o Repeat(z, 0) \o Repeat(p, 0) \o d \o Repeat(a, Blank)

(* Its digits, with the zeros before them.                                 *)
Body(z, p, d) == Repeat(z, 0) \o (Repeat(p, 0) \o d)

(* t is the body between blanks, behind a sign and a prefix.               *)
Around(t, body, b, sign, prefix, a) ==
  /\ t = Repeat(b, Blank) \o sign \o prefix \o body \o Repeat(a, Blank)
  /\ Len(t) = b + Len(sign) + Len(prefix) + Len(body) + a
  /\ SubSeq(t, b + Len(sign) + Len(prefix) + 1, Len(t) - a) = body

(* The digits of a number, the zeros before them included, stand           *)
(* together.                                                               *)
LEMMA NumberLaid ==
  ASSUME NEW sign \in Seq(Int), NEW prefix \in Seq(Int), NEW d \in Seq(Int),
         NEW b \in Nat, NEW z \in Nat, NEW p \in Nat, NEW a \in Nat
  PROVE  Around(LaidOut(b, sign, prefix, z, p, d, a), Body(z, p, d), b, sign, prefix, a)
<1> DEFINE X == Int
           t == LaidOut(b, sign, prefix, z, p, d, a)
           body == Body(z, p, d)
           F == Repeat(b, Blank) \o sign \o prefix
           Z == Repeat(z, 0)
           P == Repeat(p, 0)
           A == Repeat(a, Blank)
           B == Repeat(b, Blank)
<1>1. /\ Z \in Seq(X) /\ P \in Seq(X)
      /\ A \in Seq(X) /\ Len(A) = a /\ B \in Seq(X) /\ Len(B) = b
  <2>1. Larger(a, 0) = a /\ Larger(b, 0) = b
    BY DEF Larger
  <2>2. a \in Int /\ b \in Int /\ p \in Int /\ z \in Int
    OBVIOUS
  <2>3. Blank \in X /\ 0 \in X
    BY DEF Blank
  <2>4. QED
    BY <2>1, <2>2, <2>3, RepeatIs
<1>2. F \in Seq(X) /\ Len(F) = b + Len(sign) + Len(prefix)
  <2>1. B \o sign \in Seq(X) /\ Len(B \o sign) = b + Len(sign)
    BY <1>1, ConcatProperties
  <2>2. (B \o sign) \o prefix \in Seq(X) /\ Len((B \o sign) \o prefix) = Len(B \o sign) + Len(prefix)
    BY <2>1, ConcatProperties
  <2>3. QED
    BY <2>1, <2>2
<1>3. body \in Seq(X)
  <2>1. P \o d \in Seq(X)
    BY <1>1, ConcatProperties
  <2>2. Z \o (P \o d) \in Seq(X)
    BY <1>1, <2>1, ConcatProperties
  <2>3. QED
    BY <2>2 DEF Body
<1>4. t = F \o body \o A
  <2>1. t = F \o Z \o P \o d \o A /\ body = Z \o (P \o d)
    BY DEF LaidOut, Body
  <2> HIDE DEF F, Z, P, A, B, t, body
  <2>2. F \o Z \o P \o d = F \o (Z \o (P \o d))
    <3>1. F \in Seq(X) /\ Z \in Seq(X) /\ P \in Seq(X) /\ d \in Seq(X)
      BY <1>1, <1>2
    <3>2. Cat(Cat(Cat(F, Z), P), d) = Cat(F, Cat(Z, Cat(P, d)))
      BY <3>1, Regroup
    <3>3. QED
      BY <3>2 DEF Cat
  <2>3. F \o Z \o P \o d = F \o body
    BY <2>1, <2>2
  <2>4. QED
    BY <2>1, <2>3
<1> HIDE DEF Z, P, A, B, t, body
<1>5. F \in Seq(X) /\ body \in Seq(X) /\ A \in Seq(X)
  BY <1>1, <1>2, <1>3
<1> HIDE DEF F
<1>6. /\ Len(t) = Len(F) + Len(body) + a
      /\ SubSeq(t, Len(F) + 1, Len(t) - a) = body
  <2>1. /\ Len(F \o body \o A) = Len(F) + Len(body) + Len(A)
        /\ SubSeq(F \o body \o A, Len(F) + 1, Len(F \o body \o A) - Len(A)) = body
    BY ONLY <1>5, Between
  <2>2. QED
    BY <1>1, <1>4, <2>1
<1>7. t = Repeat(b, Blank) \o sign \o prefix \o body \o Repeat(a, Blank)
  BY <1>4 DEF A, F
<1>8. QED
  BY <1>2, <1>6, <1>7 DEF t, body, Around

(* Whether the argument, cut to its width, is printed with a minus.        *)
Negated(c, cut, wide) == c.conv = "d" /\ cut >= wide \div 2

(* The sign it is to have.                                                 *)
SignOf(c, minus) ==
  IF c.conv # "d" THEN <<>>
  ELSE IF minus THEN <<Minus>>
  ELSE IF "PLUS" \in c.flags THEN <<Plus>>
  ELSE IF "SPACE" \in c.flags THEN <<Blank>> ELSE <<>>

(* The numbers of the width it has.                                        *)
WideOf(c) == IF c.qualifier = "h" /\ c.conv # "p" THEN Short ELSE Long

(* What the program takes the argument for: the sign is that of the        *)
(* argument at its width, and what it prints behind it is the number       *)
(* without.                                                                *)
LEMMA ArgumentIs ==
  ASSUME NEW c, NumberCall(c),
         NEW cut, cut = c.num % WideOf(c), NEW minus \in BOOLEAN, minus = Negated(c, cut, WideOf(c)),
         NEW abs, abs = IF minus THEN WideOf(c) - cut ELSE cut
  PROVE  /\ Sign(argument(c), type(c)) = SignOf(c, minus)
         /\ (SignOf(c, minus) = <<Minus>>) = minus
         /\ (IF minus THEN (Long - argument(c)) % Long ELSE argument(c)) = abs
         /\ abs \in 0 .. Long - 1
<1>1. PICK l \in Nat \ {0} : Long = 2 * l
  BY Widths
<1>2. PICK h \in Nat \ {0} : Short = 2 * h
  BY Widths
<1>3. h <= l /\ Long \in Nat \ {0} /\ Short \in Nat \ {0} /\ Long \div 2 = l /\ Short \div 2 = h
  BY <1>1, <1>2, Widths
<1>4. c.num \in Nat /\ c.num < Long
  <2>1. Numbers \subseteq 0 .. Long - 1
    BY TextAssumption DEF Long
  <2>2. c.num \in Numbers
    BY DEF NumberCall
  <2>3. c.num \in 0 .. Long - 1
    BY <2>1, <2>2
  <2>4. QED
    BY <1>3, <2>3
<1>5. PICK m \in 0 .. Short - 1 : m = c.num % Short
  BY <1>3, <1>4, DivMod
<1>6. c.num % Long = c.num
  BY <1>3, <1>4, ModSmall
<1>7. c.qualifier \in {"h", "l"}
  BY DEF NumberCall
<1>8. /\ argument(c) \in 0 .. Long - 1 /\ abs \in 0 .. Long - 1
      /\ c.conv = "d" => (minus <=> argument(c) >= l)
      /\ minus => Long - argument(c) = abs
      /\ ~minus => argument(c) = abs
  <2>1. CASE c.qualifier = "l" \/ c.conv = "p"
    <3>1. WideOf(c) = Long /\ argument(c) = c.num
      BY <2>1 DEF WideOf, argument
    <3>2. cut = c.num /\ (minus <=> c.conv = "d" /\ c.num >= l)
      BY <1>3, <1>6, <3>1 DEF Negated
    <3>3. QED
      BY <1>1, <1>3, <1>4, <3>1, <3>2
  <2>2. CASE ~(c.qualifier = "l" \/ c.conv = "p")
    <3>1. /\ WideOf(c) = Short /\ cut = m
          /\ argument(c) = IF c.conv = "d" /\ m >= h THEN Long - Short + m ELSE m
      BY <1>3, <1>5, <1>7, <2>2 DEF WideOf, argument
    <3>2. minus <=> c.conv = "d" /\ m >= h
      BY <1>3, <3>1 DEF Negated
    <3>3. CASE minus
      <4>1. argument(c) = Long - Short + m /\ abs = Short - m /\ c.conv = "d" /\ m >= h
        BY <3>1, <3>2, <3>3
      <4>2. QED
        BY <1>1, <1>2, <1>3, <3>3, <4>1
    <3>4. CASE ~minus
      <4>1. argument(c) = m /\ abs = m /\ (c.conv = "d" => m < h)
        BY <1>2, <3>1, <3>2, <3>4
      <4>2. QED
        BY <1>1, <1>2, <1>3, <3>4, <4>1
    <3>5. QED
      BY <3>3, <3>4
  <2>3. QED
    BY <2>1, <2>2
<1>9. /\ "SIGN" \in type(c) <=> c.conv = "d"
      /\ "PLUS" \in type(c) <=> "PLUS" \in c.flags
      /\ "SPACE" \in type(c) <=> "SPACE" \in c.flags
  BY DEF type, NumberCall, Flag
<1>10. Sign(argument(c), type(c)) = SignOf(c, minus)
  <2>1. Negative(argument(c)) <=> argument(c) >= l
    BY <1>3 DEF Negative
  <2>2. minus => c.conv = "d"
    BY DEF Negated
  <2>3. QED
    BY <1>8, <1>9, <2>1, <2>2 DEF Sign, SignOf
<1>11. (SignOf(c, minus) = <<Minus>>) = minus
  <2>1. minus => c.conv = "d"
    BY DEF Negated
  <2>2. <<>> # <<Minus>> /\ <<Plus>> # <<Minus>> /\ <<Blank>> # <<Minus>>
    BY DEF Minus, Plus, Blank
  <2>3. SignOf(c, minus) = <<Minus>> <=> minus
    BY <2>1, <2>2 DEF SignOf
  <2>4. QED
    BY <2>3
<1>12. minus => (Long - argument(c)) % Long = abs
  <2>1. SUFFICES ASSUME minus PROVE (Long - argument(c)) % Long = abs
    OBVIOUS
  <2>2. Long - argument(c) = abs /\ abs \in Nat /\ abs < Long
    BY <1>3, <1>8, <2>1
  <2>3. QED
    BY <1>3, <2>2, ModSmall
<1>13. QED
  BY <1>8, <1>10, <1>11, <1>12

(* The blanks and zeros that fill the field stand at one place.            *)
Only(yes, n) == IF yes THEN Larger(n, 0) ELSE 0

(* Blanks or zeros that do not fit are none.                               *)
LEMMA Filled ==
  ASSUME NEW n \in Int, NEW e \in Int
  PROVE  /\ Repeat(n, e) = Repeat(Larger(n, 0), e) /\ Repeat(0, e) = <<>>
         /\ Larger(n, 0) \in Nat
<1>1. Repeat(0, e) = <<>>
  <2>1. Repeat(0, e) \in Seq(Int) /\ Len(Repeat(0, e)) = Larger(0, 0)
    BY 0 \in Int, RepeatIs
  <2>2. Larger(0, 0) = 0
    BY DEF Larger
  <2>3. QED
    BY <2>1, <2>2, EmptySeq
<1>2. Repeat(n, e) = Repeat(Larger(n, 0), e)
  BY RepeatIs
<1>3. Larger(n, 0) \in Nat
  BY DEF Larger
<1>4. QED
  BY <1>1, <1>2, <1>3

(* What is left of a field.                                                *)
Free(size, sign, prefix, precision, tmp) ==
  size - Len(sign) - Len(prefix) - Larger(precision, Len(tmp))

(* The parts of the number num.                                            *)
Shows(num, base, ty, sign, prefix, tmp) ==
  /\ sign = Sign(num, ty) /\ Len(sign) \in Nat
  /\ prefix = Prefix(base, ty) /\ Len(prefix) \in Nat
  /\ tmp = Digits(IF sign = <<Minus>> THEN (Long - num) % Long ELSE num, base) /\ Len(tmp) \in Nat

(* They are laid out in t, what is free of it filled at one place.         *)
Spread(t, size, precision, ty, sign, prefix, tmp) ==
  LET free == Free(size, sign, prefix, precision, tmp)
  IN  t = LaidOut(Only(ty \cap {"ZEROPAD", "LEFT"} = {}, free), sign, prefix,
                 Only(ty \cap {"ZEROPAD", "LEFT"} = {"ZEROPAD"}, free),
                 Only(TRUE, precision - Len(tmp)), tmp, Only("LEFT" \in ty, free))

(* The program lays them out like this.                                    *)
LEMMA NumberIs ==
  ASSUME NEW num, NEW base, NEW size \in Int, NEW precision \in Int, NEW ty,
         NEW sign, NEW prefix, NEW tmp, Shows(num, base, ty, sign, prefix, tmp)
  PROVE  Spread(number(num, base, size, precision, ty), size, precision, ty, sign, prefix, tmp)
<1> DEFINE free == Free(size, sign, prefix, precision, tmp)
<1> USE DEF Shows
<1>1. free \in Int /\ precision - Len(tmp) \in Int
  BY DEF Free, Larger
<1>2. Blank \in Int /\ 0 \in Int
  BY DEF Blank
<1> DEFINE none == ty \cap {"ZEROPAD", "LEFT"} = {}
           zeros == ty \cap {"ZEROPAD", "LEFT"} = {"ZEROPAD"}
           left == "LEFT" \in ty
           x == Repeat(precision - Len(tmp), 0)
<1>3. /\ Repeat(free, Blank) = Repeat(Larger(free, 0), Blank) /\ Repeat(0, Blank) = <<>>
      /\ Repeat(free, 0) = Repeat(Larger(free, 0), 0) /\ Repeat(0, 0) = <<>>
      /\ x = Repeat(Larger(precision - Len(tmp), 0), 0)
  BY <1>1, <1>2, Filled
<1>4. number(num, base, size, precision, ty) =
        (IF none THEN Repeat(free, Blank) ELSE <<>>) \o sign \o prefix
          \o (IF zeros THEN Repeat(free, 0) ELSE <<>>) \o x \o tmp
          \o (IF left THEN Repeat(free, Blank) ELSE <<>>)
  BY DEF number, Free
<1> HIDE DEF none, zeros, left
<1>5. (IF none THEN Repeat(free, Blank) ELSE <<>>) = Repeat(Only(none, free), Blank)
  BY <1>3 DEF Only
<1>6. (IF zeros THEN Repeat(free, 0) ELSE <<>>) = Repeat(Only(zeros, free), 0)
  BY <1>3 DEF Only
<1>7. (IF left THEN Repeat(free, Blank) ELSE <<>>) = Repeat(Only(left, free), Blank)
  BY <1>3 DEF Only
<1>8. x = Repeat(Only(TRUE, precision - Len(tmp)), 0)
  BY <1>3 DEF Only
<1> HIDE DEF x
<1>9. number(num, base, size, precision, ty) =
        Repeat(Only(none, free), Blank) \o sign \o prefix \o Repeat(Only(zeros, free), 0)
          \o Repeat(Only(TRUE, precision - Len(tmp)), 0) \o tmp \o Repeat(Only(left, free), Blank)
  BY ONLY <1>4, <1>5, <1>6, <1>7, <1>8
<1>10. QED
  BY <1>9 DEF none, zeros, left, Spread, LaidOut

(* A number is laid out as it should be: its sign and prefix, and behind   *)
(* them digits that read as its value.                                     *)
Laid(t, size, base, sign, prefix, val, precision, ty) ==
  \E before, after \in 0 .. Len(t) :
    LET body == SubSeq(t, before + Len(sign) + Len(prefix) + 1, Len(t) - after)
    IN  /\ t = Repeat(before, Blank) \o sign \o prefix \o body \o Repeat(after, Blank)
        /\ AllDigits(body, base) /\ Len(body) >= 1 /\ Len(body) >= precision
        /\ Reads(body, base) = val
        /\ body[1] = 0 => \/ ty \cap {"ZEROPAD", "LEFT"} = {"ZEROPAD"} /\ Len(t) <= size
                          \/ Len(body) <= Larger(1, precision)
        /\ Len(t) >= size /\ (Len(t) > size => before = 0 /\ after = 0)

(* And this is as it should be.                                            *)
LEMMA NumberIsLaid ==
  ASSUME NEW size \in Int, NEW precision \in Int, NEW base \in Base, NEW ty, NEW val,
         NEW sign \in Seq(Int), NEW prefix \in Seq(Int),
         NEW d \in Seq(0 .. base - 1), Len(d) \in Nat \ {0},
         Reads(d, base) = val, Len(d) > 1 => d[1] # 0,
         NEW t, Spread(t, size, precision, ty, sign, prefix, d)
  PROVE  Laid(t, size, base, sign, prefix, val, precision, ty)
<1> DEFINE free == Free(size, sign, prefix, precision, d)
<1>1. PICK b, z, p, a :
        /\ b = Only(ty \cap {"ZEROPAD", "LEFT"} = {}, free)
        /\ z = Only(ty \cap {"ZEROPAD", "LEFT"} = {"ZEROPAD"}, free)
        /\ p = Only(TRUE, precision - Len(d))
        /\ a = Only("LEFT" \in ty, free)
  OBVIOUS
<1>2. /\ \/ b = Larger(free, 0) /\ z = 0 /\ a = 0
         \/ b = 0 /\ z = Larger(free, 0) /\ a = 0
         \/ b = 0 /\ z = 0 /\ a = Larger(free, 0)
      /\ p = Larger(precision - Len(d), 0)
      /\ z > 0 => ty \cap {"ZEROPAD", "LEFT"} = {"ZEROPAD"}
  BY <1>1 DEF Only
<1>3. t = LaidOut(b, sign, prefix, z, p, d, a)
  BY <1>1 DEF Spread
<1> HIDE DEF free
<1>4. PICK m \in Nat : m = Len(sign) + Len(prefix)
  BY LenProperties
<1>5. PICK k \in Nat \ {0} : k = Len(d)
  OBVIOUS
<1>6. free = size - m - Larger(precision, k)
  <2>1. Len(sign) \in Nat /\ Len(prefix) \in Nat
    BY LenProperties
  <2>2. Larger(precision, k) \in Int
    BY <1>5 DEF Larger
  <2>3. QED
    BY <1>4, <1>5, <2>1, <2>2 DEF Free, free
<1>7. /\ b \in Nat /\ z \in Nat /\ a \in Nat /\ p \in Nat /\ p + k >= precision
      /\ b + m + (z + (p + k)) + a >= size
      /\ b + m + (z + (p + k)) + a > size => b = 0 /\ a = 0
      /\ z > 0 => b + m + (z + (p + k)) + a = size
      /\ p > 0 => p + k = precision
  <2>1. p = Larger(precision - k, 0)
    BY <1>2, <1>5
  <2>2. free \in Int /\ p \in Nat /\ Larger(precision, k) = p + k /\ free = size - m - (p + k)
    BY ONLY <1>6, <2>1, size \in Int, m \in Nat, k \in Nat \ {0}, precision \in Int DEF Larger
  <2>3. PICK f \in Nat : f = Larger(free, 0) /\ f >= free /\ (f > 0 => f = free)
    <3>1. /\ Larger(free, 0) \in Nat /\ Larger(free, 0) >= free
          /\ Larger(free, 0) > 0 => Larger(free, 0) = free
      BY ONLY <2>2 DEF Larger
    <3>2. QED
      BY ONLY <3>1
  <2>4. p + k >= precision /\ (p > 0 => p + k = precision)
    BY ONLY <2>1, k \in Nat \ {0}, precision \in Int DEF Larger
  <2>5. \/ b = f /\ z = 0 /\ a = 0
        \/ b = 0 /\ z = f /\ a = 0
        \/ b = 0 /\ z = 0 /\ a = f
    BY ONLY <1>2, <2>3
  <2>6. QED
    BY ONLY size \in Int, m \in Nat, k \in Nat \ {0}, precision \in Int, f \in Nat, <2>2, <2>3, <2>4, <2>5, SMTT(30)
<1> DEFINE y == Repeat(p, 0) \o d
           body == Body(z, p, d)
<1>8. /\ y \in Seq(0 .. base - 1) /\ Len(y) = p + Len(d) /\ Reads(y, base) = val
      /\ p = 0 => y = d
  BY <1>7, ZerosRead
<1>9. /\ body \in Seq(0 .. base - 1) /\ Len(body) = z + Len(y) /\ Reads(body, base) = val
      /\ z = 0 => body = y
  <2>1. body = Repeat(z, 0) \o y
    BY DEF Body
  <2> HIDE DEF y, body
  <2>2. QED
    BY <1>7, <1>8, <2>1, ZerosRead
<1>10. /\ t = Repeat(b, Blank) \o sign \o prefix \o body \o Repeat(a, Blank)
       /\ Len(t) = b + Len(sign) + Len(prefix) + Len(body) + a
       /\ SubSeq(t, b + Len(sign) + Len(prefix) + 1, Len(t) - a) = body
  <2>1. d \in Seq(Int)
    <3> DEFINE Y == 0 .. base - 1
               X == Int
    <3>1. d \in Seq(Y) /\ Y \subseteq X
      OBVIOUS
    <3> HIDE DEF X, Y
    <3>2. d \in Seq(X)
      BY <3>1, SeqMonotonic
    <3>3. QED
      BY <3>2 DEF X
  <2>2. b \in Nat /\ z \in Nat /\ p \in Nat /\ a \in Nat
    BY <1>7
  <2>3. Around(LaidOut(b, sign, prefix, z, p, d, a), Body(z, p, d), b, sign, prefix, a)
    BY <2>1, <2>2, NumberLaid
  <2>4. QED
    BY ONLY <1>3, <2>3 DEF Around
<1> HIDE DEF y, body
<1>11. PICK w \in Nat : w = Len(body) /\ w = z + (p + k)
  <2>1. Len(body) = z + (p + k)
    BY ONLY <1>5, <1>8, <1>9
  <2>2. z + (p + k) \in Nat
    BY ONLY <1>7, k \in Nat \ {0}
  <2>3. QED
    BY ONLY <2>1, <2>2
<1>12. Len(t) = b + m + w + a
  <2>1. Len(sign) \in Nat /\ Len(prefix) \in Nat
    BY LenProperties
  <2>2. QED
    BY ONLY <1>4, <1>7, <1>10, <1>11, <2>1
<1>13. PICK l \in Nat : l = Len(t) /\ l = b + m + w + a
  BY ONLY <1>4, <1>7, <1>11, <1>12
<1>14. b \in 0 .. Len(t) /\ a \in 0 .. Len(t) /\ Len(t) >= size /\ (Len(t) > size => b = 0 /\ a = 0)
  BY ONLY <1>4, <1>7, <1>11, <1>13
<1>15. AllDigits(body, base)
  <2> DEFINE Y == 0 .. base - 1
  <2>1. body \in Seq(Y)
    BY <1>9
  <2> HIDE DEF Y
  <2>2. \A i \in 1 .. Len(body) : body[i] \in Y
    BY <2>1, ElementOfSeq
  <2>3. QED
    BY <2>2 DEF AllDigits, Y
<1>16. Len(body) >= 1 /\ Len(body) >= precision
  BY ONLY precision \in Int, <1>5, <1>7, <1>11
<1>17. body[1] = 0 => \/ ty \cap {"ZEROPAD", "LEFT"} = {"ZEROPAD"} /\ Len(t) <= size
                      \/ Len(body) <= Larger(1, precision)
  <2>1. CASE z > 0
    BY ONLY <1>2, <1>7, <1>11, <1>13, <2>1, size \in Int
  <2>2. CASE z = 0 /\ p > 0
    <3>1. w = precision
      BY ONLY <1>5, <1>7, <1>11, <2>2, precision \in Int
    <3>2. QED
      BY ONLY <1>11, <3>1, precision \in Int DEF Larger
  <2>3. CASE z = 0 /\ p = 0
    <3>1. body = d /\ w = k
      BY ONLY <1>5, <1>8, <1>9, <1>11, <2>3
    <3>2. k > 1 => body[1] # 0
      BY ONLY <1>5, <3>1, Len(d) > 1 => d[1] # 0
    <3>3. body[1] = 0 => w = 1
      BY ONLY <1>5, <3>1, <3>2
    <3>4. 1 <= Larger(1, precision)
      BY ONLY precision \in Int, SMTT(30) DEF Larger
    <3>5. QED
      BY ONLY <1>11, <3>3, <3>4
  <2>4. QED
    BY ONLY <1>7, <2>1, <2>2, <2>3
<1>18. QED
  <2>1. Reads(body, base) = val
    BY <1>9
  <2>2. QED
    BY ONLY <1>10, <1>14, <1>15, <1>16, <1>17, <2>1 DEF Laid

(* The base of a conversion.                                               *)
BaseOf(c) == IF c.conv \in {"x", "p"} THEN 16 ELSE IF c.conv = "o" THEN 8 ELSE 10

(* So a number is printed as it should be.                                 *)
LEMMA NumberIsRight == sample \in Calls => NumberRight
<1>1. SUFFICES ASSUME sample \in Calls, sample.op = "number" PROVE NumberRight
  BY Zenon DEF NumberRight
<1> DEFINE c == sample
           base == BaseOf(c)
           ty == type(c)
           num == argument(c)
           size == field_width(c)
           precision == c.precision
           wide == WideOf(c)
           cut == c.num % wide
           minus == Negated(c, cut, wide)
           val == IF minus THEN wide - cut ELSE cut
           sign == SignOf(c, minus)
           prefix == Prefix(base, ty)
           d == Digits(val, base)
           t == vsprintf(c)
<1>2. NumberCall(c)
  BY <1>1, CallsAre
<1>3. size \in Int /\ precision \in Int
  <2>1. Sizes \subseteq Int /\ LongBits \in Nat
    BY TextAssumption, Bits
  <2>2. c.width \in Sizes /\ c.precision \in Sizes
    BY <1>2 DEF NumberCall
  <2>3. c.width \in Int /\ c.precision \in Int
    BY <2>1, <2>2
  <2>4. -c.width \in Int /\ LongBits \div 2 \in Int
    BY <2>1, <2>3
  <2>5. QED
    BY <2>3, <2>4 DEF field_width
<1>4. base \in Base
  BY DEF BaseOf, Base
<1>5. /\ Sign(num, ty) = sign /\ (sign = <<Minus>>) = minus
      /\ (IF minus THEN (Long - num) % Long ELSE num) = val
      /\ val \in 0 .. Long - 1
  <2>1. minus \in BOOLEAN
    BY DEF Negated
  <2>2. QED
    BY <1>2, <2>1, ArgumentIs
<1>6. sign \in Seq(Int) /\ Len(sign) \in Nat /\ prefix \in Seq(Int) /\ Len(prefix) \in Nat
  <2>1. sign \in Seq(Int)
    BY DEF SignOf, Minus, Plus, Blank
  <2>2. prefix \in Seq(Int)
    BY DEF Prefix
  <2> HIDE DEF sign, prefix
  <2>3. QED
    BY <2>1, <2>2, LenProperties
<1>7. /\ d \in Seq(0 .. base - 1) /\ Len(d) \in Nat \ {0}
      /\ Reads(d, base) = val /\ (Len(d) > 1 => d[1] # 0)
  <2> HIDE DEF val, base
  <2>1. QED
    BY <1>4, <1>5, DigitsAre
<1>8. t = number(num, base, size, precision, ty)
  BY <1>1 DEF vsprintf, BaseOf
<1>9. d = Digits(IF sign = <<Minus>> THEN (Long - num) % Long ELSE num, base)
  BY <1>5
<1>10. prefix = Prefix(base, ty)
  OBVIOUS
<1> HIDE DEF base, ty, num, size, precision, val, sign, prefix, d, t
<1>11. Laid(t, size, base, sign, prefix, val, precision, ty)
  <2>1. Shows(num, base, ty, sign, prefix, d)
    BY <1>5, <1>6, <1>7, <1>9, <1>10 DEF Shows
  <2>2. Spread(t, size, precision, ty, sign, prefix, d)
    BY <1>3, <1>8, <2>1, NumberIs
  <2>3. QED
    BY <1>3, <1>4, <1>6, <1>7, <2>2, NumberIsLaid
<1> DEFINE base2 == CASE c.conv = "o" -> 8 [] c.conv \in {"d", "u"} -> 10 [] c.conv \in {"x", "p"} -> 16
<1>12. base = base2
  BY <1>2 DEF base, BaseOf, NumberCall
<1> HIDE DEF base2
<1>13. Laid(t, size, base2, sign, Prefix(base2, ty), val, precision, ty)
  BY <1>10, <1>11, <1>12
<1>14. QED
  BY <1>13, ZenonT(30) DEF NumberRight, Laid, base2, ty, size, precision, val, sign, t, SignOf, Negated, WideOf

-----------------------------------------------------------------------------
(* A call is one of those enumerated, and no other driver changes it.      *)
TextInv == sample = [op |-> "none"] \/ sample \in Calls

(* The promises hold of each of them.                                      *)
LEMMA TextPromises == TextInv => TextRight
<1>1. CASE sample = [op |-> "none"]
  BY <1>1 DEF TextRight, ParseRight, PrintedReads, NumberRight, FieldRight, CompareRight
<1>2. CASE sample \in Calls
  BY <1>2, ParseIsRight, PrintedIsRight, NumberIsRight, FieldIsRight, CompareIsRight DEF TextRight
<1>3. QED
  BY <1>1, <1>2 DEF TextInv

(* Every call of the text functions yields what it is for, for numbers of  *)
(* any width and texts of any length: a text is read as the number it      *)
(* shows, a number is printed in its field with its sign, prefix and       *)
(* precision, by digits that read as its value, and strings are cut, set   *)
(* and compared as asked.                                                  *)
THEOREM TextRightCorrect == Spec => []TextRight
<1>1. Init => TextInv
  BY DEF Init, TextInit, TextInv
<1>2. TextInv /\ [Next]_vars => TextInv'
  <2>1. SUFFICES ASSUME TextInv, [Next]_vars PROVE TextInv'
    OBVIOUS
  <2>2. UNCHANGED sample => TextInv'
    BY <2>1 DEF TextInv
  <2>3. CASE TextNext
    BY <2>3 DEF TextNext, TextCall, TextReturn, TextInv
  <2>4. QED
    BY <2>1, <2>2, <2>3 DEF Next, Flash, I2c, TwoWire, Library, vars
<1>3. QED
  BY <1>1, <1>2, TextPromises, PTL DEF Spec

=============================================================================
