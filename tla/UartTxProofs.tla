---------------------------- MODULE UartTxProofs ----------------------------
(***************************************************************************)
(* The transmit path between uart_putc and the line, for every depth of    *)
(* its FIFO and bit rate and with UART_RESET toggled at any time: polling  *)
(* never overruns the FIFO, the transmitter pops nothing that is not there,*)
(* and the frames on the line are the bytes written.                       *)
(*                                                                         *)
(* None of these is inductive.  The room the program saw when it polled    *)
(* must still be there when it writes, any number of clocks later; the     *)
(* word the transmitter saw when it decided to start must still be there,  *)
(* and be on odata, when it pops, one bit time later; and the bits still   *)
(* in the shift register must be those the line does not have yet.         *)
(***************************************************************************)
EXTENDS UartTx, SequenceTheorems, TLAPS

(* The lemmas about the FIFO.                                              *)
FifoP == INSTANCE FifoBufferProofs WITH Data <- Bytes, state <- fstate, rdata <- txd

(* The FIFO of the transmitter is one as they assume.                      *)
LEMMA FifoConfiguration == FifoP!DepthAssumption /\ FifoP!DataAssumption
  BY TxAssumption DEF FifoP!DepthAssumption, FifoP!DataAssumption

(* The two instances speak of the same signals.                            *)
LEMMA SameFifo ==
  /\ Fifo!TypeOK <=> FifoP!TypeOK
  /\ Fifo!PtrState <=> FifoP!PtrState
  /\ Fifo!Contents = FifoP!Contents
  /\ Fifo!dready <=> FifoP!dready
  /\ Fifo!over <=> FifoP!over
  BY DEF Fifo!TypeOK, FifoP!TypeOK, Fifo!PtrState, FifoP!PtrState, Fifo!Addr, FifoP!Addr,
         Fifo!State, FifoP!State, Fifo!Contents, FifoP!Contents, Fifo!Fill, FifoP!Fill,
         Fifo!Slice, FifoP!Slice, Fifo!Wrap, FifoP!Wrap, Fifo!dready, FifoP!dready,
         Fifo!over, FifoP!over

(* And of the same clock edges.                                            *)
LEMMA SameFifoClock ==
  ASSUME NEW wren, NEW byte, NEW rden
  PROVE  /\ Fifo!Clock(wren, byte, rden) <=> FifoP!Clock(wren, byte, rden)
         /\ Fifo!Reset(wren, byte) <=> FifoP!Reset(wren, byte)
<1>1. Fifo!Ram(wren, byte) <=> FifoP!Ram(wren, byte)
  BY DEF Fifo!Ram, FifoP!Ram
<1>2. Fifo!Count(wren, rden) <=> FifoP!Count(wren, rden)
  BY DEF Fifo!Count, FifoP!Count, Fifo!Succ, FifoP!Succ
<1>3. Fifo!Fsm(wren, rden) <=> FifoP!Fsm(wren, rden)
  BY DEF Fifo!Fsm, FifoP!Fsm, Fifo!maybe_full, FifoP!maybe_full, Fifo!maybe_empty,
         FifoP!maybe_empty, Fifo!Succ, FifoP!Succ
<1>4. QED
  BY <1>1, <1>2, <1>3 DEF Fifo!Clock, FifoP!Clock, Fifo!Reset, FifoP!Reset

-----------------------------------------------------------------------------
(* A step is a period of clk, and what the program does meanwhile: it      *)
(* writes a byte only if it has seen room for it, and not during a reset.  *)
Polled == cpu = "write" => Fifo!iready

Accepted(wren, byte) == IF wren THEN <<byte>> ELSE <<>>

StepOf(wren, byte) ==
  /\ Period(wren, byte)
  /\ Observe(Accepted(wren, byte))
  /\ wren => Fifo!iready /\ ~uart_reset
  /\ cpu' = "write" => Fifo!iready /\ ~wren
  /\ cpu' \in {"poll", "write"} /\ uart_reset' \in BOOLEAN

(* Each action is such a step.                                             *)
LEMMA NextPeriod ==
  ASSUME Polled, Next, cpu \in {"poll", "write"}, uart_reset \in BOOLEAN
  PROVE  \E wren \in BOOLEAN, byte \in Bytes : StepOf(wren, byte)
<1>1. CASE Wait
  BY <1>1 DEF Wait, StepOf, Accepted, Polled
<1>2. CASE Poll
  BY <1>2 DEF Poll, StepOf, Accepted
<1>3. ASSUME NEW byte \in Bytes, Write(byte)
      PROVE  StepOf(TRUE, byte)
  BY <1>3 DEF Write, StepOf, Accepted, Polled
<1>4. ASSUME NEW on \in BOOLEAN, SetReset(on)
      PROVE  \E byte \in Bytes : StepOf(FALSE, byte)
  BY <1>4 DEF SetReset, StepOf, Accepted
<1>5. QED
  BY <1>1, <1>2, <1>3, <1>4 DEF Next

-----------------------------------------------------------------------------
(* The invariant of the FIFO: it is not overrun, and a transmitter that    *)
(* has started has a word to pop, until a reset finds it busy.             *)
FifoState == fstate \in {"S_IDLE", "S_READY", "S_FULL"}
Started == hitbusy \/ (state = "S_START" => Fifo!dready)

IInv == FifoState /\ Polled /\ Started /\ cpu \in {"poll", "write"} /\ uart_reset \in BOOLEAN

(* The strengthened invariant holds at the start.                          *)
LEMMA InitInv == Init => IInv
  BY DEF Init, IInv, FifoState, Polled, Started, Fifo!iready

(* What a clock edge does to the FIFO's state.                             *)
LEMMA FifoStep ==
  ASSUME FifoState, NEW wren \in BOOLEAN, NEW byte, fifo(wren, byte),
         wren => Fifo!iready
  PROVE  /\ FifoState'
         /\ ~wren /\ Fifo!iready => (Fifo!iready)'
         /\ ~uart_reset /\ ~data_out_en' /\ Fifo!dready => (Fifo!dready)'
<1>1. CASE uart_reset
  BY <1>1 DEF fifo, Fifo!Reset, FifoState, Fifo!iready
<1>2. CASE ~uart_reset
  <2>1. Fifo!Fsm(wren, data_out_en')
    BY <1>2 DEF fifo, Fifo!Clock
  <2>2. QED
    BY <1>2, <2>1 DEF FifoState, Fifo!Fsm, Fifo!iready, Fifo!dready
<1>3. QED
  BY <1>1, <1>2

(* A period of clk keeps the word the transmitter has started on.          *)
LEMMA StartedStep ==
  ASSUME IInv, NEW wren \in BOOLEAN, NEW byte \in Bytes, StepOf(wren, byte)
  PROVE  Started'
<1>1. fifo(wren, byte) /\ FifoState /\ (wren => Fifo!iready)
  BY DEF StepOf, Period, IInv
<1>2. SUFFICES ASSUME ~hitbusy', state' = "S_START"
               PROVE  (Fifo!dready)'
  BY DEF Started
<1>3. ~hitbusy /\ (uart_reset => state = "S_IDLE")
  BY <1>2 DEF StepOf, Observe
<1>4. CASE txclken
  <2>1. ~uart_reset /\ nextstate = "S_START"
    BY <1>2, <1>4 DEF StepOf, Period, sync_state_advance
  <2>2. state \in {"S_IDLE", "S_STOP"} /\ Fifo!dready
    BY <2>1 DEF nextstate
  <2>3. QED
    BY <1>1, <2>1, <2>2, FifoStep DEF StepOf, Period, shift
<1>5. CASE ~txclken
  <2>1. state = "S_START" /\ ~data_out_en'
    BY <1>2, <1>5 DEF StepOf, Period, sync_state_advance, shift
  <2>2. Fifo!dready /\ ~uart_reset
    BY <1>3, <2>1 DEF IInv, Started
  <2>3. QED
    BY <1>1, <2>1, <2>2, FifoStep
<1>6. QED
  BY <1>4, <1>5

(* Every step keeps the strengthened invariant.                            *)
LEMMA NextInv ==
  ASSUME IInv, [Next]_vars
  PROVE  IInv'
<1>1. CASE Next
  <2>1. PICK wren \in BOOLEAN, byte \in Bytes : StepOf(wren, byte)
    BY <1>1, NextPeriod DEF IInv
  <2>2. fifo(wren, byte) /\ (wren => Fifo!iready)
    BY <2>1 DEF StepOf, Period
  <2>3. FifoState' /\ Polled'
    BY <2>1, <2>2, FifoStep DEF IInv, StepOf, Polled
  <2>4. QED
    BY <2>1, <2>3, StartedStep DEF IInv, StepOf
<1>2. CASE UNCHANGED vars
  BY <1>2 DEF IInv, FifoState, Polled, Started, Fifo!iready, Fifo!dready,
              vars, fvars, txvars
<1>3. QED
  BY <1>1, <1>2

(* The strengthened invariant holds for every depth, rate and byte.        *)
THEOREM Invariance == Spec => []IInv
  BY InitInv, NextInv, PTL DEF Spec

(* A program that polls TXREADY never overruns the transmit FIFO, however  *)
(* long it waits between poll and write and whenever it resets the UART.   *)
THEOREM NoOverrunCorrect == Spec => []NoOverrun
<1>1. IInv => NoOverrun
  BY DEF IInv, FifoState, NoOverrun, Fifo!over
<1>2. QED
  BY <1>1, Invariance, PTL

(* Until a reset finds the transmitter busy, every step of the FIFO is one *)
(* it was specified for: the transmitter pops only words that are there.   *)
THEOREM FifoUsedCorrect == Spec => FifoUsed
<1>1. IInv /\ [Next]_vars => [hitbusy' \/ Fifo!Next]_fvars
  <2>1. SUFFICES ASSUME IInv, [Next]_vars, ~hitbusy', fvars' # fvars
                 PROVE  Fifo!Next
    OBVIOUS
  <2>2. Next
    BY <2>1 DEF vars
  <2>3. PICK wren \in BOOLEAN, byte \in Bytes : StepOf(wren, byte)
    BY <2>1, <2>2, NextPeriod DEF IInv
  <2>4. data_out_en' \in BOOLEAN /\ (data_out_en' => Fifo!dready)
    BY <2>1, <2>3 DEF StepOf, Period, Observe, shift, IInv, Started
  <2>5. \/ Fifo!Reset(wren, byte)
        \/ Fifo!Clock(wren, byte, data_out_en')
    BY <2>3 DEF StepOf, Period, fifo
  <2>6. QED
    BY <2>4, <2>5 DEF Fifo!Next
<1>2. QED
  BY <1>1, Invariance, PTL DEF Spec, FifoUsed

-----------------------------------------------------------------------------
(* Facts about sequences: the length tells the empty one.                  *)
LEMMA LengthTells ==
  ASSUME NEW S, NEW s \in Seq(S)
  PROVE  Len(s) \in Nat /\ (s = <<>> <=> Len(s) = 0)
  BY EmptySeq, LenProperties

(* A queue that is extended keeps its front.                               *)
LEMMA ConcatFront ==
  ASSUME NEW S, NEW s \in Seq(S), NEW t \in Seq(S), s # <<>>
  PROVE  /\ s \o t # <<>>
         /\ Head(s \o t) = Head(s)
         /\ Tail(s \o t) = Tail(s) \o t
<1>1. Len(s) \in Nat \ {0} /\ Len(t) \in Nat
  BY EmptySeq, LenProperties
<1>2. /\ s \o t \in Seq(S) /\ Len(s \o t) = Len(s) + Len(t)
      /\ \A i \in 1 .. Len(s) + Len(t) : (s \o t)[i] = IF i <= Len(s) THEN s[i] ELSE t[i - Len(s)]
  BY ConcatProperties
<1>3. s \o t # <<>> /\ (s \o t)[1] = s[1]
  BY <1>1, <1>2, EmptySeq
<1>4. /\ Tail(s) \in Seq(S) /\ Len(Tail(s)) = Len(s) - 1
      /\ \A i \in 1 .. Len(s) - 1 : Tail(s)[i] = s[i + 1]
  BY HeadTailProperties
<1>5. /\ Tail(s \o t) \in Seq(S) /\ Len(Tail(s \o t)) = Len(s) + Len(t) - 1
      /\ \A i \in 1 .. Len(s) + Len(t) - 1 : Tail(s \o t)[i] = (s \o t)[i + 1]
  BY <1>2, <1>3, HeadTailProperties
<1>6. /\ Tail(s) \o t \in Seq(S) /\ Len(Tail(s) \o t) = Len(s) - 1 + Len(t)
      /\ \A i \in 1 .. Len(s) - 1 + Len(t) :
           (Tail(s) \o t)[i] = IF i <= Len(s) - 1 THEN Tail(s)[i] ELSE t[i - (Len(s) - 1)]
  BY <1>4, ConcatProperties
<1>7. ASSUME NEW i \in 1 .. Len(s) + Len(t) - 1
      PROVE  Tail(s \o t)[i] = (Tail(s) \o t)[i]
  <2>1. i + 1 \in 1 .. Len(s) + Len(t) /\ (i + 1) - Len(s) = i - (Len(s) - 1)
    BY <1>1
  <2>2. Tail(s \o t)[i] = IF i + 1 <= Len(s) THEN s[i + 1] ELSE t[i - (Len(s) - 1)]
    BY <1>2, <1>5, <2>1
  <2>3. (Tail(s) \o t)[i] = IF i <= Len(s) - 1 THEN s[i + 1] ELSE t[i - (Len(s) - 1)]
    BY <1>1, <1>4, <1>6
  <2>4. QED
    BY <1>1, <2>2, <2>3
<1>8. Tail(s \o t) = Tail(s) \o t
  BY <1>1, <1>5, <1>6, <1>7, SeqEqual
<1>9. QED
  BY <1>3, <1>8

(* Shifting a register of eight bits.                                      *)
LEMMA ShiftOut ==
  ASSUME NEW r \in [1 .. 8 -> Bit]
  PROVE  /\ Append(Tail(r), 1) \in [1 .. 8 -> Bit]
         /\ \A j \in 1 .. 7 : Append(Tail(r), 1)[j] = r[j + 1]
<1>1. r \in Seq(Bit)
  BY SeqDef
<1>2. Len(r) = 8
  BY <1>1, LenProperties
<1>3. r # <<>> /\ 1 \in Bit
  BY <1>2, EmptySeq DEF Bit
<1> DEFINE t == Tail(r)
           s == Append(t, 1)
<1>4. /\ t \in Seq(Bit) /\ Len(t) = Len(r) - 1
      /\ \A j \in 1 .. Len(t) : t[j] = r[j + 1]
  BY <1>1, <1>3, HeadTailProperties
<1> HIDE DEF t
<1>5. /\ s \in Seq(Bit) /\ Len(s) = Len(t) + 1
      /\ \A j \in 1 .. Len(t) : s[j] = t[j]
  BY <1>3, <1>4, AppendProperties
<1> HIDE DEF s
<1>6. Len(t) = 7 /\ Len(s) = 8
  BY <1>2, <1>4, <1>5
<1>7. s \in [1 .. 8 -> Bit]
  BY <1>5, <1>6, LenProperties
<1>8. \A j \in 1 .. 7 : s[j] = r[j + 1]
  BY <1>4, <1>5, <1>6
<1>9. QED
  BY <1>7, <1>8 DEF s, t

(* A byte between a start and a stop bit, bit by bit.                      *)
LEMMA FrameBits ==
  ASSUME NEW w \in [1 .. 8 -> Bit], NEW s \in Seq(Bit), Len(s) = 10,
         \A i \in 1 .. 10 : s[i] = IF i = 1 THEN 0 ELSE IF i = 10 THEN 1 ELSE w[i - 1]
  PROVE  s = <<0>> \o w \o <<1>>
<1>1. w \in Seq(Bit)
  BY SeqDef
<1>2. Len(w) = 8
  BY <1>1, LenProperties
<1> DEFINE x == <<0>>
           y == <<1>>
<1>3. x \in Seq(Bit) /\ Len(x) = 1 /\ x[1] = 0 /\ y \in Seq(Bit) /\ Len(y) = 1 /\ y[1] = 1
  BY DEF Bit
<1> HIDE DEF x, y
<1> DEFINE a == x \o w
           b == a \o y
<1>4. /\ a \in Seq(Bit) /\ Len(a) = Len(x) + Len(w)
      /\ \A i \in 1 .. Len(x) + Len(w) : a[i] = IF i <= Len(x) THEN x[i] ELSE w[i - Len(x)]
  BY <1>1, <1>3, ConcatProperties
<1>4a. a \in Seq(Bit)
  BY <1>4
<1> HIDE DEF a
<1>5. Len(a) = 9 /\ \A i \in 1 .. 9 : a[i] = IF i = 1 THEN 0 ELSE w[i - 1]
  BY <1>2, <1>3, <1>4
<1>6. /\ b \in Seq(Bit) /\ Len(b) = Len(a) + Len(y)
      /\ \A i \in 1 .. Len(a) + Len(y) : b[i] = IF i <= Len(a) THEN a[i] ELSE y[i - Len(a)]
  BY <1>3, <1>4a, ConcatProperties
<1> HIDE DEF b
<1>7. Len(b) = 10 /\ \A i \in 1 .. 10 : b[i] = IF i <= 9 THEN a[i] ELSE 1
  <2>1. Len(b) = 10 /\ Len(a) + Len(y) = 10
    BY <1>3, <1>5, <1>6
  <2>2. ASSUME NEW i \in 1 .. 10 PROVE b[i] = IF i <= 9 THEN a[i] ELSE 1
    <3>1. b[i] = IF i <= 9 THEN a[i] ELSE y[i - 9]
      BY <1>5, <1>6, <2>1
    <3>2. i <= 9 \/ i - 9 = 1
      OBVIOUS
    <3>3. QED
      BY <1>3, <3>1, <3>2
  <2>3. QED
    BY <2>1, <2>2
<1>8. \A i \in 1 .. 10 : s[i] = b[i]
  BY <1>5, <1>7
<1>9. s = b
  <2>1. b \in Seq(Bit) /\ Len(s) = Len(b) /\ \A i \in 1 .. Len(s) : s[i] = b[i]
    BY <1>6, <1>7, <1>8
  <2>2. QED
    BY <2>1, SeqEqual
<1>10. QED
  BY <1>9 DEF a, b, x, y

(* What is accepted in a period is a sequence of bytes.                    *)
LEMMA AcceptedType ==
  ASSUME NEW wren \in BOOLEAN, NEW byte \in Bytes
  PROVE  Accepted(wren, byte) \in Seq(Bytes) /\ Len(Accepted(wren, byte)) <= 1
  BY DEF Accepted

-----------------------------------------------------------------------------
(* The invariant of the line, until a reset finds the transmitter busy.    *)
(* State and bit counter tell how much of the frame is on the line; the    *)
(* bytes the line owes are that of the frame and those in the FIFO; the    *)
(* bits the line shows and those in the shift register are the byte's; and *)
(* a transmitter that has started is offered the word it will pop.         *)
InStep ==
  /\ state \in {"S_IDLE", "S_START"} => Len(seen) \in {0, 10} /\ bitcount = 0
  /\ state = "S_SHIFT" => Len(seen) = IF bitcount = 0 THEN 8 ELSE bitcount
  /\ state = "S_STOP" => Len(seen) = 9 /\ bitcount = 0

Account ==
  /\ seen = <<>> => written = Fifo!Contents
  /\ seen # <<>> => written # <<>> /\ Tail(written) = Fifo!Contents

FrameBit(i) == IF i = 1 THEN 0 ELSE IF i = 10 THEN 1 ELSE Head(written)[i - 1]

Shown == \A i \in 1 .. Len(seen) : seen[i] = FrameBit(i)

ToShift ==
  state = "S_SHIFT" =>
    \A j \in 1 .. 8 : j + Len(seen) - 1 <= 8 => dsr[j] = Head(written)[j + Len(seen) - 1]

Offered == state = "S_START" => txd = Head(Fifo!Contents)

OnLine == Fifo!PtrState /\ InStep /\ Account /\ Shown /\ ToShift /\ Offered

(* The types without the bounds of the histories, which the invariant gives.*)
Typed ==
  /\ Fifo!TypeOK
  /\ state \in {"S_IDLE", "S_START", "S_SHIFT", "S_STOP"}
  /\ dsr \in [1 .. 8 -> Bit] /\ bitcount \in 0 .. 7 /\ tx \in Bit
  /\ {data_out_en, txclken, uart_reset, hitbusy} \subseteq BOOLEAN
  /\ counter \in 0 .. Tick - 1 /\ count16 \in 0 .. Oversample - 1
  /\ written \in Seq(Bytes) /\ seen \in Seq(Bit)

Line == IF hitbusy THEN written = <<>> /\ seen = <<>> ELSE OnLine

LInv == IInv /\ Typed /\ Line

(* A period keeps the types of the hardware's registers.                   *)
LEMMA TypedStep ==
  ASSUME LInv, NEW wren \in BOOLEAN, NEW byte \in Bytes, StepOf(wren, byte)
  PROVE  Typed'
<1>1. Period(wren, byte) /\ Observe(Accepted(wren, byte))
  BY DEF StepOf
<1>2. txd \in Bytes /\ Bytes \subseteq [1 .. 8 -> Bit]
  BY TxAssumption DEF LInv, Typed, Fifo!TypeOK
<1>3. data_out_en' \in BOOLEAN /\ tx' \in Bit /\ dsr' \in [1 .. 8 -> Bit]
  <2>1. Append(Tail(dsr), 1) \in [1 .. 8 -> Bit] /\ dsr[1] \in Bit
    BY ShiftOut DEF LInv, Typed
  <2>2. data_out_en' \in BOOLEAN
    BY <1>1 DEF Period, shift, LInv, Typed
  <2>3. dsr' \in [1 .. 8 -> Bit]
    BY <1>1, <1>2, <2>1 DEF Period, shift, LInv, Typed
  <2>4. tx' \in Bit
    BY <1>1, <2>1 DEF Period, shift, LInv, Typed, Bit
  <2>5. QED
    BY <2>2, <2>3, <2>4
<1>4. (Fifo!TypeOK)'
  <2>1. FifoP!TypeOK
    BY SameFifo DEF LInv, Typed
  <2>2. FifoP!Clock(wren, byte, data_out_en') \/ FifoP!Reset(wren, byte)
    BY <1>1, SameFifoClock DEF Period, fifo
  <2>3. (FifoP!TypeOK)'
    BY <1>3, <2>1, <2>2, FifoConfiguration, FifoP!TypeStep
  <2>4. QED
    BY <2>3 DEF Fifo!TypeOK, FifoP!TypeOK, Fifo!Addr, FifoP!Addr, Fifo!State, FifoP!State
<1>5. state' \in {"S_IDLE", "S_START", "S_SHIFT", "S_STOP"}
  BY <1>1 DEF Period, sync_state_advance, nextstate, LInv, Typed
<1>6. bitcount' \in 0 .. 7
  BY <1>1 DEF Period, bitcounter, LInv, Typed
<1>7. /\ counter' \in 0 .. Tick - 1 /\ count16' \in 0 .. Oversample - 1
      /\ txclken' \in BOOLEAN
  BY <1>1, TxAssumption DEF Period, clkdiv, LInv, Typed
<1>8. hitbusy' \in BOOLEAN /\ uart_reset' \in BOOLEAN
  BY <1>1 DEF Observe, LInv, Typed, StepOf
<1>9. written' \in Seq(Bytes)
  <2>1. Accepted(wren, byte) \in Seq(Bytes)
    BY AcceptedType
  <2>2. written # <<>> => Tail(written) \in Seq(Bytes)
    BY HeadTailProperties DEF LInv, Typed
  <2>3. written' = <<>> \/ \E s \in Seq(Bytes) : written' = s \o Accepted(wren, byte)
    BY <1>1, <2>2 DEF Observe, LInv, Typed
  <2>4. \A s \in Seq(Bytes) : s \o Accepted(wren, byte) \in Seq(Bytes)
    BY <2>1, ConcatProperties
  <2>5. QED
    BY <2>3, <2>4, EmptySeq
<1>10. seen' \in Seq(Bit)
  <2>1. <<>> \in Seq(Bit)
    BY EmptySeq
  <2>2. \/ seen' = <<>> \/ seen' = seen
        \/ \E s \in {<<>>, seen} : seen' = Append(s, tx')
    BY <1>1 DEF Observe
  <2>3. \A s \in Seq(Bit) : Append(s, tx') \in Seq(Bit)
    BY <1>3, AppendProperties
  <2>4. QED
    BY <2>1, <2>2, <2>3 DEF LInv, Typed
<1>11. QED
  BY <1>3, <1>4, <1>5, <1>6, <1>7, <1>8, <1>9, <1>10 DEF Typed

(* The FIFO during a period: what the transmitter pops leaves, what the    *)
(* program writes joins, and the first word is on odata.                   *)
LEMMA FifoPeriod ==
  ASSUME LInv, ~hitbusy, ~uart_reset, NEW wren \in BOOLEAN, NEW byte \in Bytes,
         StepOf(wren, byte)
  PROVE  /\ (Fifo!PtrState)'
         /\ Fifo!Contents \in Seq(Bytes)
         /\ (Fifo!Contents)' = (IF data_out_en' THEN Tail(Fifo!Contents) ELSE Fifo!Contents)
                                 \o Accepted(wren, byte)
         /\ state = "S_START" \/ Fifo!dready => Fifo!Contents # <<>> /\ txd' = Head(Fifo!Contents)
<1> DEFINE C == Fifo!Contents
           rden == data_out_en'
<1>1. FifoP!TypeOK /\ FifoP!PtrState /\ C = FifoP!Contents
  BY SameFifo DEF LInv, Typed, Line, OnLine
<1>2. rden \in BOOLEAN /\ (rden => FifoP!dready)
  BY SameFifo DEF LInv, Typed, IInv, Started, StepOf, Period, shift
<1>3. FifoP!Clock(wren, byte, rden)
  BY SameFifoClock DEF StepOf, Period, fifo
<1>4. fstate # "S_ERROR" /\ (wren => fstate # "S_FULL")
  BY DEF LInv, IInv, FifoState, StepOf, Fifo!iready
<1>5. (FifoP!TypeOK)' /\ (FifoP!PtrState)'
  BY <1>1, <1>2, <1>3, FifoConfiguration, FifoP!TypeStep, FifoP!PtrStateStep
<1>6. (Fifo!PtrState)' /\ (Fifo!Contents)' = (FifoP!Contents)'
  BY <1>5 DEF Fifo!PtrState, FifoP!PtrState, Fifo!Contents, FifoP!Contents, Fifo!Fill,
              FifoP!Fill, Fifo!Slice, FifoP!Slice, Fifo!Wrap, FifoP!Wrap
<1>7. C \in Seq(Bytes) /\ (C = <<>> <=> ~FifoP!dready)
  BY <1>1, FifoConfiguration, FifoP!QueueFacts
<1>8. /\ ~wren /\ ~rden => (Fifo!Contents)' = C
      /\ wren /\ ~rden => (Fifo!Contents)' = Append(C, byte)
      /\ ~wren /\ rden => (Fifo!Contents)' = Tail(C)
      /\ wren /\ rden => (Fifo!Contents)' = Append(Tail(C), byte)
  BY <1>1, <1>2, <1>3, <1>4, <1>5, <1>6, FifoConfiguration, FifoP!ClockContents
<1>9. state = "S_START" \/ Fifo!dready => C # <<>> /\ txd' = Head(C)
  <2>1. SUFFICES ASSUME FifoP!dready PROVE C # <<>> /\ txd' = Head(C)
    BY SameFifo DEF LInv, IInv, Started
  <2>2. txd' = Head(FifoP!Contents)
    BY <1>1, <1>3, <1>4, <2>1, FifoConfiguration, FifoP!ClockShows
  <2>3. QED
    BY <1>1, <1>7, <2>1, <2>2
<1>10. \A s \in Seq(Bytes) : s \o <<>> = s /\ Append(s, byte) = s \o <<byte>>
  BY ConcatEmptySeq, AppendIsConcat
<1> HIDE DEF C, rden
<1>11. rden => C # <<>>
  BY <1>2, <1>7
<1>12. rden => Tail(C) \in Seq(Bytes)
  BY <1>7, <1>11, HeadTailProperties
<1>13. (Fifo!Contents)' = (IF rden THEN Tail(C) ELSE C) \o Accepted(wren, byte)
  BY <1>2, <1>7, <1>8, <1>10, <1>12 DEF Accepted
<1>14. QED
  BY <1>6, <1>7, <1>9, <1>13 DEF C, rden

(* What the program writes during a frame waits behind the frame's byte,   *)
(* and the byte leaves with the end of its frame.                          *)
Owed == IF FrameEnd /\ written # <<>> THEN Tail(written) ELSE written
Begun == IF FrameEnd THEN <<>> ELSE seen

(* The bytes owed and the bits shown when a period begins: a frame that is *)
(* complete has been taken off both.                                       *)
LEMMA OwedFacts ==
  ASSUME LInv, ~hitbusy
  PROVE  /\ Owed \in Seq(Bytes) /\ Begun \in Seq(Bit)
         /\ Begun = <<>> => Owed = Fifo!Contents
         /\ Begun # <<>> => Begun = seen /\ Owed = written
                            /\ written # <<>> /\ Tail(written) = Fifo!Contents
<1>1. written \in Seq(Bytes) /\ seen \in Seq(Bit) /\ Account /\ InStep
  BY DEF LInv, Typed, Line, OnLine
<1>2. FrameEnd => seen # <<>>
  BY EmptySeq DEF FrameEnd
<1>3. written # <<>> => Tail(written) \in Seq(Bytes)
  BY <1>1, HeadTailProperties
<1>4. QED
  BY <1>1, <1>2, <1>3, EmptySeq DEF Owed, Begun, Account

(* A period without a reset: the bytes accepted join those owed.           *)
LEMMA OwedStep ==
  ASSUME LInv, ~hitbusy', ~uart_reset, NEW wren \in BOOLEAN, NEW byte \in Bytes,
         StepOf(wren, byte)
  PROVE  /\ ~hitbusy
         /\ written' = Owed \o Accepted(wren, byte)
         /\ seen' = IF ~txclken \/ (Begun = <<>> /\ tx' = 1) THEN Begun
                    ELSE Append(Begun, tx')
  BY DEF StepOf, Observe, Owed, Begun, LInv, Typed

(* A period without a pop keeps the account, and the byte of the frame.    *)
LEMMA AccountStep ==
  ASSUME LInv, ~hitbusy', ~uart_reset, NEW wren \in BOOLEAN, NEW byte \in Bytes,
         StepOf(wren, byte), ~data_out_en', seen' = <<>> <=> Begun = <<>>
  PROVE  /\ Account'
         /\ Begun # <<>> => Head(written') = Head(written)
         /\ Fifo!Contents # <<>> => Head((Fifo!Contents)') = Head(Fifo!Contents)
<1>1. ~hitbusy /\ written' = Owed \o Accepted(wren, byte)
  BY OwedStep
<1>2. /\ Fifo!Contents \in Seq(Bytes)
      /\ (Fifo!Contents)' = Fifo!Contents \o Accepted(wren, byte)
  BY <1>1, FifoPeriod
<1>3. Accepted(wren, byte) \in Seq(Bytes)
  BY AcceptedType
<1>4. CASE Begun = <<>>
  <2>1. written' = (Fifo!Contents)' /\ seen' = <<>>
    BY <1>1, <1>2, <1>4, OwedFacts
  <2>2. QED
    BY <1>2, <1>3, <1>4, <2>1, ConcatFront DEF Account
<1>5. CASE Begun # <<>>
  <2>1. /\ written \in Seq(Bytes) /\ written # <<>> /\ Tail(written) = Fifo!Contents
        /\ written' = written \o Accepted(wren, byte) /\ seen' # <<>>
    BY <1>1, <1>5, OwedFacts
  <2>2. /\ written' # <<>> /\ Head(written') = Head(written)
        /\ Tail(written') = Fifo!Contents \o Accepted(wren, byte)
    BY <1>3, <2>1, ConcatFront
  <2>3. QED
    BY <1>2, <1>3, <2>1, <2>2, ConcatFront DEF Account
<1>6. QED
  BY <1>4, <1>5

(* Between two enables nothing moves on the line.                          *)
LEMMA QuietStep ==
  ASSUME LInv, ~hitbusy', ~uart_reset, NEW wren \in BOOLEAN, NEW byte \in Bytes,
         StepOf(wren, byte), ~txclken
  PROVE  OnLine'
<1>1. ~hitbusy /\ seen' = Begun /\ (Fifo!PtrState)'
  BY OwedStep, FifoPeriod
<1>2. /\ state' = state /\ dsr' = dsr /\ bitcount' = bitcount /\ ~data_out_en'
  BY DEF StepOf, Period, sync_state_advance, shift, bitcounter
<1>3. /\ Account' /\ (Begun # <<>> => Begun = seen /\ Head(written') = Head(written))
      /\ Fifo!Contents # <<>> => Head((Fifo!Contents)') = Head(Fifo!Contents)
  BY <1>1, <1>2, AccountStep, OwedFacts
<1>4. InStep /\ Shown /\ ToShift /\ seen \in Seq(Bit) /\ bitcount \in 0 .. 7
  BY <1>1 DEF LInv, Line, OnLine, Typed
<1> DEFINE n == Len(seen)
           m == Len(seen')
<1>5. n \in Nat /\ (seen = <<>> => n = 0)
  BY <1>4, EmptySeq, LenProperties
<1>6. /\ n = 10 => seen' = <<>> /\ m = 0
      /\ n # 10 => seen' = seen /\ Begun = seen /\ m = n
  BY <1>1, EmptySeq DEF Begun, FrameEnd
<1>7. InStep'
  <2>1. /\ state \in {"S_IDLE", "S_START"} => n \in {0, 10} /\ bitcount = 0
        /\ state = "S_SHIFT" => n = IF bitcount = 0 THEN 8 ELSE bitcount
        /\ state = "S_STOP" => n = 9 /\ bitcount = 0
    BY <1>4 DEF InStep
  <2> HIDE DEF n, m
  <2>2. /\ state \in {"S_IDLE", "S_START"} => m \in {0, 10} /\ bitcount = 0
        /\ state = "S_SHIFT" => m = IF bitcount = 0 THEN 8 ELSE bitcount
        /\ state = "S_STOP" => m = 9 /\ bitcount = 0
    BY <1>4, <1>5, <1>6, <2>1
  <2>3. QED
    BY <1>2, <2>2 DEF InStep, m
<1>8. Shown'
  <2>1. CASE n = 10
    BY <1>6, <2>1 DEF Shown
  <2>2. CASE n # 10
    <3>1. \A i \in 1 .. n : FrameBit(i)' = FrameBit(i)
      BY <1>3, <1>5, <1>6, <2>2 DEF FrameBit
    <3>2. QED
      BY <1>4, <1>6, <2>2, <3>1 DEF Shown
  <2>3. QED
    BY <2>1, <2>2
<1>9. ToShift'
  <2>1. SUFFICES ASSUME state = "S_SHIFT" PROVE ToShift'
    BY <1>2 DEF ToShift
  <2>2. n = IF bitcount = 0 THEN 8 ELSE bitcount
    BY <1>4, <2>1 DEF InStep
  <2>3. n # 10 /\ n # 0
    <3> HIDE DEF n
    <3>1. QED
      BY <1>4, <2>2
  <2>4. Begun = seen /\ seen # <<>> /\ seen' = seen
    BY <1>5, <1>6, <2>3, EmptySeq
  <2>5. QED
    BY <1>2, <1>3, <1>4, <2>1, <2>4 DEF ToShift
<1>10. Offered'
  BY <1>1, <1>2, <1>3, FifoPeriod DEF Offered
<1>11. QED
  BY <1>1, <1>3, <1>7, <1>8, <1>9, <1>10 DEF OnLine

(* An enable in the idle state: the line stays high.                       *)
LEMMA IdleStep ==
  ASSUME LInv, ~hitbusy', ~uart_reset, NEW wren \in BOOLEAN, NEW byte \in Bytes,
         StepOf(wren, byte), txclken, state = "S_IDLE"
  PROVE  OnLine'
<1>1. ~hitbusy /\ (Fifo!PtrState)' /\ InStep
  BY OwedStep, FifoPeriod DEF LInv, Line, OnLine
<1>2. /\ state' = IF Fifo!dready THEN "S_START" ELSE "S_IDLE"
      /\ ~data_out_en' /\ tx' = 1 /\ bitcount' = 0
  BY DEF StepOf, Period, sync_state_advance, nextstate, shift, bitcounter
<1>3. Begun = <<>>
  BY <1>1 DEF Begun, FrameEnd, InStep
<1>4. seen' = <<>> /\ Len(<<>>) = 0
  BY <1>2, <1>3, OwedStep, EmptySeq
<1>5. /\ Account'
      /\ Fifo!Contents # <<>> => Head((Fifo!Contents)') = Head(Fifo!Contents)
  BY <1>2, <1>3, <1>4, AccountStep
<1>6. Offered'
  BY <1>1, <1>2, <1>5, FifoPeriod DEF Offered
<1>7. InStep' /\ Shown' /\ ToShift'
  BY <1>2, <1>4 DEF InStep, Shown, ToShift
<1>8. QED
  BY <1>1, <1>5, <1>6, <1>7 DEF OnLine

(* Inside a frame an enable puts the next bit on the line.                 *)
LEMMA AppendShown ==
  ASSUME LInv, ~hitbusy', ~uart_reset, NEW wren \in BOOLEAN, NEW byte \in Bytes,
         StepOf(wren, byte), txclken, state \in {"S_SHIFT", "S_STOP"},
         tx' = FrameBit(Len(seen) + 1)
  PROVE  /\ Account' /\ Shown'
         /\ Head(written') = Head(written)
         /\ Len(seen') = Len(seen) + 1
<1> DEFINE n == Len(seen)
<1>1. InStep /\ Shown /\ seen \in Seq(Bit) /\ bitcount \in 0 .. 7
  BY OwedStep DEF LInv, Line, OnLine, Typed
<1>2. n \in 1 .. 9
  <2>1. n = (IF bitcount = 0 THEN 8 ELSE bitcount) \/ n = 9
    BY <1>1 DEF InStep
  <2> HIDE DEF n
  <2>2. QED
    BY <1>1, <2>1
<1>3. seen # <<>> /\ Begun = seen
  <2>1. n # 0 /\ n # 10
    <3> HIDE DEF n
    <3>1. QED
      BY <1>2
  <2>2. QED
    BY <2>1, EmptySeq DEF Begun, FrameEnd
<1>4. seen' = Append(seen, tx') /\ tx' \in Bit
  BY <1>3, OwedStep, TypedStep DEF Typed
<1>5. /\ Len(seen') = n + 1
      /\ \A i \in 1 .. n : seen'[i] = seen[i]
      /\ seen'[n + 1] = tx'
      /\ seen' # <<>>
  BY <1>1, <1>4, AppendProperties
<1>6. /\ Account' /\ Head(written') = Head(written)
  <2>1. ~data_out_en'
    BY DEF StepOf, Period, shift
  <2>2. QED
    BY <1>3, <1>5, <2>1, AccountStep
<1>7. \A i \in Nat : FrameBit(i)' = FrameBit(i)
  BY <1>6 DEF FrameBit
<1>8. \A i \in 1 .. n + 1 : seen'[i] = FrameBit(i)
  <2>1. \A i \in 1 .. n : seen[i] = FrameBit(i)
    BY <1>1 DEF Shown
  <2> HIDE DEF n
  <2>2. \A i \in 1 .. n + 1 : i \in 1 .. n \/ i = n + 1
    BY <1>2
  <2>3. tx' = FrameBit(n + 1)
    BY DEF n
  <2>4. QED
    BY <1>5, <2>1, <2>2, <2>3
<1>9. Shown'
  <2>1. \A i \in 1 .. n + 1 : i \in Nat
    <3> HIDE DEF n
    <3>1. QED
      BY <1>2
  <2>2. QED
    BY <1>5, <1>7, <1>8, <2>1 DEF Shown
<1>10. QED
  BY <1>5, <1>6, <1>9

(* A data bit: the register holds what the line does not have yet.         *)
LEMMA ShiftStep ==
  ASSUME LInv, ~hitbusy', ~uart_reset, NEW wren \in BOOLEAN, NEW byte \in Bytes,
         StepOf(wren, byte), txclken, state = "S_SHIFT"
  PROVE  OnLine'
<1> DEFINE n == Len(seen)
           w == Head(written)
<1>1. /\ ~hitbusy /\ (Fifo!PtrState)' /\ InStep /\ ToShift
      /\ bitcount \in 0 .. 7 /\ dsr \in [1 .. 8 -> Bit]
  BY OwedStep, FifoPeriod DEF LInv, Line, OnLine, Typed
<1>2. /\ state' = IF bitcount = 0 THEN "S_STOP" ELSE "S_SHIFT"
      /\ bitcount' = IF state' = "S_SHIFT" THEN (bitcount + 1) % 8 ELSE 0
      /\ tx' = dsr[1] /\ dsr' = Append(Tail(dsr), 1)
  BY DEF StepOf, Period, sync_state_advance, nextstate, shift, bitcounter
<1>3. n = IF bitcount = 0 THEN 8 ELSE bitcount
  BY <1>1 DEF InStep
<1>4. \A j \in 1 .. 8 : j + n - 1 <= 8 => dsr[j] = w[j + n - 1]
  BY <1>1 DEF ToShift
<1>5. \A j \in 1 .. 7 : dsr'[j] = dsr[j + 1]
  BY <1>1, <1>2, ShiftOut
<1>6. tx' = FrameBit(n + 1)
  <2> HIDE DEF n, w
  <2>1. n \in 1 .. 8
    BY <1>1, <1>3
  <2>2. dsr[1] = w[n] /\ n + 1 # 1 /\ n + 1 # 10 /\ (n + 1) - 1 = n
    BY <1>4, <2>1
  <2>3. QED
    BY <1>2, <2>2 DEF FrameBit, w
<1>7. Account' /\ Shown' /\ Head(written') = w /\ Len(seen') = n + 1
  BY <1>6, AppendShown
<1>8. ToShift'
  <2> HIDE DEF n, w
  <2>1. SUFFICES ASSUME state' = "S_SHIFT", NEW j \in 1 .. 8, j + (n + 1) - 1 <= 8
                 PROVE  dsr'[j] = w[j + (n + 1) - 1]
    BY <1>7 DEF ToShift
  <2>2. n \in 1 .. 7 /\ j \in 1 .. 7 /\ j + 1 \in 1 .. 8 /\ (j + 1) + n - 1 <= 8
        /\ j + (n + 1) - 1 = (j + 1) + n - 1
    BY <1>1, <1>2, <1>3, <2>1
  <2>3. QED
    BY <1>4, <1>5, <2>2
<1>9. InStep'
  <2>1. /\ state' = "S_SHIFT" => n + 1 = IF bitcount' = 0 THEN 8 ELSE bitcount'
        /\ state' = "S_STOP" => n + 1 = 9 /\ bitcount' = 0
        /\ state' \in {"S_SHIFT", "S_STOP"}
    <3> HIDE DEF n
    <3>1. QED
      BY <1>1, <1>2, <1>3
  <2>2. QED
    BY <1>7, <2>1 DEF InStep
<1>10. Offered'
  BY <1>2 DEF Offered
<1>11. QED
  BY <1>1, <1>7, <1>8, <1>9, <1>10 DEF OnLine

(* The stop bit: the frame is complete.                                    *)
LEMMA StopStep ==
  ASSUME LInv, ~hitbusy', ~uart_reset, NEW wren \in BOOLEAN, NEW byte \in Bytes,
         StepOf(wren, byte), txclken, state = "S_STOP"
  PROVE  OnLine'
<1>1. /\ ~hitbusy /\ (Fifo!PtrState)' /\ Len(seen) = 9
  BY OwedStep, FifoPeriod DEF LInv, Line, OnLine, InStep
<1>2. /\ state' = IF Fifo!dready THEN "S_START" ELSE "S_IDLE"
      /\ bitcount' = 0 /\ tx' = 1 /\ ~data_out_en'
  BY DEF StepOf, Period, sync_state_advance, nextstate, shift, bitcounter
<1>3. tx' = FrameBit(Len(seen) + 1)
  BY <1>1, <1>2 DEF FrameBit
<1>4. Account' /\ Shown' /\ Len(seen') = 10
  BY <1>1, <1>3, AppendShown
<1>5. seen' # <<>>
  BY <1>4, EmptySeq
<1>6. Begun # <<>>
  <2>1. seen \in Seq(Bit)
    BY DEF LInv, Typed
  <2>2. seen # <<>>
    BY <1>1, <2>1, LengthTells
  <2>3. QED
    BY <1>1, <2>2 DEF Begun, FrameEnd
<1>7. Fifo!Contents # <<>> => Head((Fifo!Contents)') = Head(Fifo!Contents)
  BY <1>2, <1>5, <1>6, AccountStep
<1>8. InStep' /\ ToShift'
  BY <1>2, <1>4 DEF InStep, ToShift
<1>9. Offered'
  BY <1>1, <1>2, <1>7, FifoPeriod DEF Offered
<1>10. QED
  BY <1>1, <1>4, <1>8, <1>9 DEF OnLine

(* The start bit: the byte offered is popped, and becomes the frame's.     *)
LEMMA StartStep ==
  ASSUME LInv, ~hitbusy', ~uart_reset, NEW wren \in BOOLEAN, NEW byte \in Bytes,
         StepOf(wren, byte), txclken, state = "S_START"
  PROVE  OnLine'
<1> DEFINE C == Fifo!Contents
<1>1. /\ ~hitbusy /\ (Fifo!PtrState)' /\ InStep /\ Offered
  BY OwedStep, FifoPeriod DEF LInv, Line, OnLine
<1>2. /\ state' = "S_SHIFT" /\ bitcount' = 1
      /\ tx' = 0 /\ data_out_en' /\ dsr' = txd
  <2>1. bitcount = 0
    BY <1>1 DEF InStep
  <2>2. /\ state' = "S_SHIFT" /\ bitcount' = (bitcount + 1) % 8
        /\ tx' = 0 /\ dsr' = txd
    BY DEF StepOf, Period, sync_state_advance, nextstate, shift, bitcounter
  <2>3. data_out_en'
    BY DEF StepOf, Period, shift
  <2>4. QED
    BY <2>1, <2>2, <2>3
<1>3. Begun = <<>> /\ Owed = C
  BY <1>1, OwedFacts, EmptySeq DEF Begun, FrameEnd, InStep, LInv, Typed
<1>4. seen' = <<0>> /\ written' = C \o Accepted(wren, byte)
  <2>1. seen' = Append(<<>>, 0)
    BY <1>2, <1>3, OwedStep
  <2>2. QED
    BY <1>3, <2>1, OwedStep
<1>5. C \in Seq(Bytes) /\ C # <<>> /\ (Fifo!Contents)' = Tail(C) \o Accepted(wren, byte)
  BY <1>1, <1>2, FifoPeriod
<1>6. written' # <<>> /\ Head(written') = txd /\ Tail(written') = (Fifo!Contents)'
  BY <1>1, <1>4, <1>5, AcceptedType, ConcatFront DEF Offered
<1>7. Account' /\ InStep' /\ Shown'
  BY <1>2, <1>4, <1>6 DEF Account, InStep, Shown, FrameBit
<1>8. ToShift' /\ Offered'
  BY <1>2, <1>4, <1>6 DEF ToShift, Offered
<1>9. QED
  BY <1>1, <1>7, <1>8 DEF OnLine

(* A reset that finds the transmitter idle: nothing is owed any more.      *)
LEMMA ResetStep ==
  ASSUME LInv, ~hitbusy', uart_reset, NEW wren \in BOOLEAN, NEW byte \in Bytes,
         StepOf(wren, byte)
  PROVE  OnLine'
<1>1. ~hitbusy /\ state = "S_IDLE" /\ InStep
  BY DEF StepOf, Observe, LInv, Line, OnLine, Typed
<1>2. state' = "S_IDLE" /\ bitcount' = 0 /\ (txclken => tx' = 1)
  BY <1>1 DEF StepOf, Period, sync_state_advance, shift, bitcounter, InStep
<1>3. written' = <<>> /\ seen' = <<>>
  <2>1. Begun = <<>>
    BY <1>1, EmptySeq DEF Begun, FrameEnd, InStep, LInv, Typed
  <2>2. QED
    BY <1>1, <1>2, <2>1 DEF StepOf, Observe, Begun
<1>4. (Fifo!PtrState)' /\ (Fifo!Contents)' = <<>>
  <2>1. iptr' = 0 /\ optr' = 0 /\ fstate' = "S_IDLE"
    BY DEF StepOf, Period, fifo, Fifo!Reset
  <2>2. (FifoP!TypeOK)' /\ (FifoP!PtrState)'
    BY <2>1, TypedStep DEF Typed, Fifo!TypeOK, FifoP!TypeOK, Fifo!Addr, FifoP!Addr,
                           Fifo!State, FifoP!State, FifoP!PtrState
  <2>3. (Fifo!PtrState)' /\ (Fifo!Contents)' = (FifoP!Contents)'
    BY <2>2 DEF Fifo!PtrState, FifoP!PtrState, Fifo!Contents, FifoP!Contents, Fifo!Fill,
                FifoP!Fill, Fifo!Slice, FifoP!Slice, Fifo!Wrap, FifoP!Wrap
  <2>4. (Fifo!Contents)' = <<>>
    BY <2>1 DEF Fifo!Contents, Fifo!Fill, Fifo!Slice
  <2>5. QED
    BY <2>3, <2>4
<1>5. Len(seen') = 0
  BY <1>3, EmptySeq
<1>6. QED
  BY <1>2, <1>3, <1>4, <1>5 DEF OnLine, InStep, Account, Shown, ToShift, Offered

(* Initially nothing is owed and nothing is on the line.                   *)
LEMMA InitLine == Init => LInv
<1> SUFFICES ASSUME Init PROVE LInv
  OBVIOUS
<1>1. IInv
  BY InitInv
<1>2. Typed
  <2>1. Fifo!TypeOK
    BY TxAssumption DEF Init, Fifo!TypeOK, Fifo!Addr, Fifo!State
  <2>2. dsr \in [1 .. 8 -> Bit]
    BY TxAssumption DEF Init
  <2>3. written \in Seq(Bytes) /\ seen \in Seq(Bit)
    BY EmptySeq DEF Init
  <2>4. counter \in 0 .. Tick - 1 /\ count16 \in 0 .. Oversample - 1
    BY TxAssumption DEF Init
  <2>5. /\ state \in {"S_IDLE", "S_START", "S_SHIFT", "S_STOP"}
        /\ bitcount \in 0 .. 7 /\ tx \in Bit
    BY DEF Init, Bit
  <2>6. {data_out_en, txclken, uart_reset, hitbusy} \subseteq BOOLEAN
    <3>1. data_out_en = FALSE /\ txclken = FALSE /\ uart_reset = FALSE /\ hitbusy = FALSE
      BY DEF Init
    <3>2. QED
      BY <3>1
  <2>7. QED
    BY <2>1, <2>2, <2>3, <2>4, <2>5, <2>6 DEF Typed
<1>3. Fifo!PtrState /\ Fifo!Contents = <<>>
  BY DEF Init, Fifo!PtrState, Fifo!Contents, Fifo!Fill, Fifo!Slice
<1>4. OnLine
  BY <1>3, EmptySeq DEF Init, OnLine, InStep, Account, Shown, ToShift, Offered
<1>5. QED
  BY <1>1, <1>2, <1>4 DEF LInv, Line, Init

(* Every step keeps the invariant of the line.                             *)
LEMMA NextLine ==
  ASSUME LInv, [Next]_vars
  PROVE  LInv'
<1>1. IInv'
  BY NextInv DEF LInv
<1>2. CASE Next
  <2>1. PICK wren \in BOOLEAN, byte \in Bytes : StepOf(wren, byte)
    BY <1>2, NextPeriod DEF LInv, IInv
  <2>2. Typed'
    BY <2>1, TypedStep
  <2>3. ASSUME hitbusy' PROVE written' = <<>> /\ seen' = <<>>
    BY <2>1, <2>3 DEF StepOf, Observe
  <2>4. ASSUME ~hitbusy' PROVE OnLine'
    <3>1. CASE uart_reset
      BY <2>1, <2>4, <3>1, ResetStep
    <3>2. CASE ~uart_reset /\ ~txclken
      BY <2>1, <2>4, <3>2, QuietStep
    <3>3. CASE ~uart_reset /\ txclken
      <4>1. state \in {"S_IDLE", "S_START", "S_SHIFT", "S_STOP"}
        BY DEF LInv, Typed
      <4>2. QED
        BY <2>1, <2>4, <3>3, <4>1, IdleStep, StartStep, ShiftStep, StopStep
    <3>4. QED
      BY <3>1, <3>2, <3>3
  <2>5. QED
    BY <1>1, <2>2, <2>3, <2>4 DEF LInv, Line
<1>3. CASE UNCHANGED vars
  <2>1. Typed'
    BY <1>3 DEF LInv, Typed, Fifo!TypeOK, Fifo!Addr, Fifo!State, vars, fvars, txvars
  <2>2. Line'
    BY <1>3 DEF LInv, Line, OnLine, InStep, Account, Shown, FrameBit, ToShift, Offered,
                Fifo!PtrState, Fifo!Contents, Fifo!Fill, Fifo!Slice, Fifo!Wrap,
                vars, fvars, txvars
  <2>3. QED
    BY <1>1, <2>1, <2>2 DEF LInv
<1>4. QED
  BY <1>2, <1>3

(* The invariant of the line holds for every depth, rate and byte.         *)
THEOREM LineInvariance == Spec => []LInv
  BY InitLine, NextLine, PTL DEF Spec

(* No more bits are on the line than a frame has, and no more bytes are    *)
(* owed than the FIFO and the frame hold.                                  *)
LEMMA Bounds ==
  ASSUME LInv
  PROVE  Len(seen) <= 10 /\ Len(written) <= Depth + 1
<1>1. CASE hitbusy
  BY <1>1, EmptySeq, TxAssumption DEF LInv, Line
<1>2. CASE ~hitbusy
  <2>1. Typed /\ OnLine /\ written \in Seq(Bytes)
    BY <1>2 DEF LInv, Line, Typed
  <2> DEFINE n == Len(seen)
  <2>2. n \in {0, 9, 10} \/ n = IF bitcount = 0 THEN 8 ELSE bitcount
    BY <2>1 DEF OnLine, InStep, Typed
  <2>3. n <= 10
    <3> HIDE DEF n
    <3>1. bitcount \in 0 .. 7
      BY <2>1 DEF Typed
    <3>2. QED
      BY <2>2, <3>1
  <2>4. FifoP!TypeOK /\ FifoP!PtrState /\ Fifo!Contents = FifoP!Contents
    BY <2>1, SameFifo DEF OnLine, Typed
  <2>5. /\ Fifo!Contents \in Seq(Bytes)
        /\ Len(Fifo!Contents) \in 0 .. Depth
    BY <2>4, FifoConfiguration, FifoP!QueueFacts, FifoP!FillFacts
  <2>6. written # <<>> => Len(Tail(written)) = Len(written) - 1 /\ Len(written) \in Nat
    BY <2>1, HeadTailProperties, LenProperties
  <2>7. written = Fifo!Contents \/ (written # <<>> /\ Tail(written) = Fifo!Contents)
    BY <2>1 DEF OnLine, Account
  <2>8. QED
    BY <2>3, <2>5, <2>6, <2>7, TxAssumption
<1>3. QED
  BY <1>1, <1>2

(* Every register and history variable keeps its type and width.           *)
THEOREM TypeCorrect == Spec => []TypeOK
<1>1. LInv => TypeOK
  BY Bounds DEF LInv, IInv, Typed, TypeOK
<1>2. QED
  BY <1>1, LineInvariance, PTL

(* Until a reset finds the transmitter busy the frames on the line are the *)
(* bytes written to UART_TXR, in order, none lost, doubled or made up, for *)
(* every depth of the FIFO, every bit rate and every pace of the program.  *)
THEOREM FramesMatchCorrect == Spec => []FramesMatch
<1>1. LInv => FramesMatch
  <2>1. SUFFICES ASSUME LInv, FrameEnd, ~hitbusy
                 PROVE  written # <<>> /\ seen = <<0>> \o Head(written) \o <<1>>
    BY DEF FramesMatch
  <2>2. /\ Account /\ Shown /\ Len(seen) = 10
        /\ written \in Seq(Bytes) /\ seen \in Seq(Bit)
    BY <2>1 DEF LInv, Line, OnLine, Typed, FrameEnd
  <2>3. written # <<>>
    BY <2>2, LengthTells DEF Account
  <2>4. Head(written) \in [1 .. 8 -> Bit]
    BY <2>2, <2>3, HeadTailProperties, TxAssumption
  <2>5. \A i \in 1 .. 10 :
          seen[i] = IF i = 1 THEN 0 ELSE IF i = 10 THEN 1 ELSE Head(written)[i - 1]
    BY <2>2 DEF Shown, FrameBit
  <2>6. QED
    BY <2>2, <2>3, <2>4, <2>5, FrameBits
<1>2. QED
  BY <1>1, LineInvariance, PTL

=============================================================================
