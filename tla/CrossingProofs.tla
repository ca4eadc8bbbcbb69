--------------------------- MODULE CrossingProofs ---------------------------
(***************************************************************************)
(* Signals sampled by a clock that is not theirs: the serial line by the   *)
(* receiver's, and the pulses of the test access port by the CPU's.        *)
(*                                                                         *)
(* The receiver delivers each frame once and unchanged, for every byte and *)
(* every transmitter whose bits are at most a tick short or long, however  *)
(* late it gets and as long as it gets no more than six ticks early within *)
(* a frame.  The property says nothing of the ticks between start bit and  *)
(* strobe, so it is far from inductive.  The invariant is that transmitter *)
(* and receiver are in step: the phase of the line, the ticks since its    *)
(* start bit, determines state and counters of the receiver.  What the     *)
(* drift changes is only which bit of the frame the line carries then.     *)
(*                                                                         *)
(* The pulse synchronizer loses no pulse, for every pair of clocks within  *)
(* FlagXdpAssumption and any number of resets.  NoneLost is not inductive: *)
(* a flip that meets one the other clock has not sampled cancels it.       *)
(* Spacing says why there is none: such a flip is younger than the last    *)
(* edge of clko, unless the next pulse has begun and the clock domain of   *)
(* clki waits for clko.                                                    *)
(***************************************************************************)
EXTENDS UartRx, FlagXdp, SequenceTheorems, TLAPS

(* The transmitters a receiver without a fractional counter can follow.    *)
Followed == StopBits = {1} /\ MaxEarly <= 6

-----------------------------------------------------------------------------
(* Shifting the register of eight bits.                                    *)
LEMMA ShiftIn ==
  ASSUME NEW r \in Byte, NEW b \in Bit
  PROVE  /\ Append(Tail(r), b) \in Byte
         /\ \A i \in 1 .. 7 : Append(Tail(r), b)[i] = r[i + 1]
         /\ Append(Tail(r), b)[8] = b
<1>1. r \in Seq(Bit)
  BY SeqDef DEF Byte
<1>2. Len(r) = 8
  BY <1>1, LenProperties DEF Byte
<1>3. r # <<>>
  BY <1>2, EmptySeq
<1> DEFINE t == Tail(r)
           s == Append(t, b)
<1>4. /\ t \in Seq(Bit) /\ Len(t) = Len(r) - 1
      /\ \A i \in 1 .. Len(t) : t[i] = r[i + 1]
  BY <1>1, <1>3, HeadTailProperties
<1>5. t \in Seq(Bit)
  BY <1>4
<1> HIDE DEF t
<1>6. /\ s \in Seq(Bit) /\ Len(s) = Len(t) + 1
      /\ \A i \in 1 .. Len(t) : s[i] = t[i]
      /\ s[Len(t) + 1] = b
  BY <1>5, AppendProperties
<1> HIDE DEF s
<1>7. Len(t) = 7 /\ Len(s) = 8
  BY <1>2, <1>4, <1>6
<1>8. s \in Byte
  BY <1>6, <1>7, LenProperties DEF Byte
<1>9. s[8] = b /\ \A i \in 1 .. 7 : s[i] = r[i + 1]
  BY <1>4, <1>6, <1>7
<1>10. QED
  BY <1>8, <1>9 DEF s, t

-----------------------------------------------------------------------------
(* Types. *)

(* The line carries a bit at any time.                                     *)
LEMMA LineBit ==
  ASSUME TypeOK
  PROVE  rx \in Bit
<1>1. pos \in 2 .. 9 => sent[pos - 1] \in Bit
  BY DEF TypeOK, Byte
<1>2. QED
  BY <1>1 DEF TypeOK, rx, Bit

(* A tick of the transmitter keeps its types.                              *)
LEMMA LineType ==
  ASSUME TypeOK, Line
  PROVE  /\ pos' \in 0 .. 10 /\ left' \in 0 .. 17 /\ drift' \in -MaxEarly .. MaxLate
         /\ sent' \in Byte /\ stop' \in Bit
<1>1. CASE LineIdle
  BY <1>1 DEF TypeOK, LineIdle, lvars
<1>2. CASE LineStart
  BY <1>2, RxAssumption DEF TypeOK, LineStart, BitTime
<1>3. CASE LineHold
  BY <1>3, RxAssumption DEF TypeOK, LineHold
<1>4. CASE LineNextBit
  BY <1>4, RxAssumption DEF TypeOK, LineNextBit, BitTime
<1>5. CASE LineEnd
  BY <1>5, RxAssumption DEF TypeOK, LineEnd
<1>6. QED
  BY <1>1, <1>2, <1>3, <1>4, <1>5 DEF Line

(* What the registers of the receiver do at an edge, with or without reset.*)
LEMMA RegisterTypes ==
  ASSUME TypeOK, NEW tick \in BOOLEAN,
         rx_posedge(tick), generate_rxclk_en(tick), shift(tick), tx_strobe, bitcounter(tick)
  PROVE  /\ rxd' \in Bit /\ strobeq' \in Bit /\ rxtrigger' \in BOOLEAN
         /\ count' \in 0 .. 15 /\ bitcount' \in 0 .. 7
         /\ dsr' \in Byte /\ data' \in Byte
<1>1. rx \in Bit
  BY LineBit
<1>2. rxd' \in Bit
  BY <1>1 DEF rx_posedge, TypeOK
<1>3. rxtrigger' \in BOOLEAN
  BY DEF rx_posedge, TypeOK
<1>4. count' \in 0 .. 15
  BY DEF generate_rxclk_en, TypeOK
<1>5. bitcount' \in 0 .. 7
  BY DEF bitcounter, TypeOK
<1>6. dsr' \in Byte
  BY <1>1, ShiftIn DEF shift, TypeOK
<1>7. strobeq' \in Bit /\ data' \in Byte
  BY DEF tx_strobe, strobe_i, TypeOK, Bit
<1>8. QED
  BY <1>2, <1>3, <1>4, <1>5, <1>6, <1>7

(* Every step keeps the types.                                             *)
LEMMA TypeStep ==
  ASSUME TypeOK, [Next]_vars
  PROVE  TypeOK'
<1>1. ASSUME NEW tick \in BOOLEAN, Clk(tick)
      PROVE  TypeOK'
  <2>1. /\ rxd' \in Bit /\ strobeq' \in Bit /\ rxtrigger' \in BOOLEAN
        /\ count' \in 0 .. 15 /\ bitcount' \in 0 .. 7
        /\ dsr' \in Byte /\ data' \in Byte
    BY <1>1, RegisterTypes DEF Clk
  <2>2. /\ pos' \in 0 .. 10 /\ left' \in 0 .. 17 /\ drift' \in -MaxEarly .. MaxLate
        /\ sent' \in Byte /\ stop' \in Bit
    BY <1>1, LineType DEF Clk, lvars, TypeOK
  <2>3. state' \in {"S_IDLE", "S_START", "S_SHIFT", "S_STOP"}
    BY <1>1 DEF Clk, state_decode, AfterTick, TypeOK
  <2>4. frame_err' \in BOOLEAN
    BY <1>1 DEF Clk, detect_frerr, TypeOK
  <2>5. owed' \in 0 .. 2
    BY <1>1 DEF Clk, TypeOK
  <2>6. QED
    BY <2>1, <2>2, <2>3, <2>4, <2>5 DEF TypeOK
<1>2. ASSUME NEW tick \in BOOLEAN, ResetClk(tick)
      PROVE  TypeOK'
  <2>1. /\ rxd' \in Bit /\ strobeq' \in Bit /\ rxtrigger' \in BOOLEAN
        /\ count' \in 0 .. 15 /\ bitcount' \in 0 .. 7
        /\ dsr' \in Byte /\ data' \in Byte
    BY <1>2, RegisterTypes DEF ResetClk
  <2>2. QED
    BY <1>2, <2>1 DEF ResetClk, TypeOK, lvars
<1>3. CASE UNCHANGED vars
  BY <1>3 DEF vars, rvars, lvars, TypeOK
<1>4. QED
  BY <1>1, <1>2, <1>3 DEF Next

(* The registers start with their types.                                   *)
LEMMA InitType == Init => TypeOK
<1>1. SUFFICES ASSUME Init PROVE TypeOK
  OBVIOUS
<1>2. /\ state = "S_IDLE" /\ rxd = 1 /\ strobeq = 1 /\ count = 0 /\ bitcount \in 0 .. 7
      /\ dsr \in Byte /\ data \in Byte /\ sent \in Byte
      /\ pos = 0 /\ left = 0 /\ drift = 0 /\ stop = 1 /\ owed = 0
  BY <1>1, RxAssumption DEF Init
<1>3. rxtrigger \in BOOLEAN /\ frame_err \in BOOLEAN
  <2>1. rxtrigger = FALSE /\ frame_err = FALSE
    BY <1>1 DEF Init
  <2>2. QED
    BY <2>1
<1>4. drift \in -MaxEarly .. MaxLate
  BY <1>2, RxAssumption
<1>5. QED
  BY <1>2, <1>3, <1>4 DEF TypeOK, Bit

(* Every register keeps its width, and no tick is lost from the account of *)
(* the line, for every byte, stop bit and drift.                           *)
THEOREM TypeCorrect == Spec => []TypeOK
  BY InitType, TypeStep, PTL DEF Spec


-----------------------------------------------------------------------------
(* The invariant: transmitter and receiver are in step. *)

(* Ticks since the start of a frame, from 1 on.                            *)
Phase == 16 * pos + drift - left

(* How far the drift can move the bits of a frame.                         *)
Drifted ==
  /\ stop = 1
  /\ pos # 0 => /\ drift <= pos
                /\ 1 <= Phase /\ 16 * (pos - 1) - 6 < Phase

(* The phase of the line tells where the receiver is.                      *)
InStep ==
  /\ pos = 0 => state = "S_IDLE" /\ rxd = 1 /\ ~rxtrigger
  /\ pos # 0 =>
       /\ Phase = 1 => state = "S_IDLE" /\ rxd = 1 /\ ~rxtrigger
       /\ Phase = 2 => state = "S_IDLE" /\ rxtrigger
       /\ Phase \in 3 .. 18 => state = "S_START" /\ count = Phase - 3
       /\ Phase \in 19 .. 146 => state = "S_SHIFT" /\ 16 * bitcount + count = Phase - 19
       /\ Phase = 147 => state = "S_STOP" /\ ~rxtrigger
       /\ Phase > 147 => state = "S_IDLE" /\ ~rxtrigger

(* The line does not fall between the last data bit and the next frame.    *)
Level == pos = 9 /\ Phase >= 138 => rxd = sent[8]

(* The strobe comes with the end of S_SHIFT, when the frame is owed, and   *)
(* data is the shift register but for the clock after a bit was shifted in.*)
Strobed ==
  /\ owed = IF pos # 0 /\ (Phase < 147 \/ (Phase = 147 /\ strobeq = 0)) THEN 1 ELSE 0
  /\ strobeq = 0 => state \in {"S_SHIFT", "S_STOP"}
  /\ (state = "S_SHIFT" /\ count = 8) \/ data = dsr

(* The bits shifted in are the first of the byte sent.                     *)
Missing == 8 - bitcount - (IF count > 7 THEN 1 ELSE 0)

Shifted ==
  /\ state = "S_SHIFT" => \A i \in 1 .. 8 : i > Missing => dsr[i] = sent[i - Missing]
  /\ state = "S_STOP" => dsr = sent

IInv == TypeOK /\ Drifted /\ InStep /\ Level /\ Strobed /\ Shifted

(* The receiver's state tells the phase of a frame.                        *)
LEMMA StatePhase ==
  ASSUME TypeOK, Drifted, InStep
  PROVE  /\ Phase \in Int
         /\ state = "S_START" => pos # 0 /\ Phase \in 3 .. 18
         /\ state = "S_SHIFT" => pos # 0 /\ Phase \in 19 .. 146
         /\ state = "S_STOP" => pos # 0 /\ Phase = 147
<1>1. pos \in Int /\ drift \in Int /\ left \in Int
  BY RxAssumption DEF TypeOK
<1>2. Phase \in Int
  BY <1>1 DEF Phase
<1> DEFINE p == Phase
<1>3. pos # 0 => 1 <= p
  BY DEF Drifted
<1>4. pos # 0 => p = 1 \/ p = 2 \/ p \in 3 .. 18 \/ p \in 19 .. 146 \/ p = 147 \/ p > 147
  <2> HIDE DEF p
  <2>1. QED
    BY <1>2, <1>3 DEF p
<1>5. QED
  BY <1>2, <1>4 DEF InStep

(* The bit of the frame the line carries in the middle of a data bit of    *)
(* the receiver, and towards the end of the last one.                      *)
LEMMA Sampled ==
  ASSUME TypeOK, Drifted, pos # 0
  PROVE  /\ Phase <= 2 => pos = 1
         /\ Phase >= 137 => pos \in {9, 10}
         /\ \A b \in 0 .. 7 : Phase = 16 * b + 26 => pos = b + 2
<1>1. /\ pos \in 1 .. 10 /\ drift \in Int /\ left \in 0 .. 17
      /\ drift <= pos /\ Phase = 16 * pos + drift - left /\ 16 * (pos - 1) - 6 < Phase
  BY RxAssumption DEF TypeOK, Drifted, Phase
<1> HIDE DEF Phase
<1>2. QED
  BY <1>1

(* What a tick does to the line: it is idle, starts a frame, goes on with  *)
(* it, or ends it.                                                         *)
LEMMA LineStep ==
  ASSUME TypeOK, Drifted, Followed, Line
  PROVE  /\ Drifted'
         /\ \/ pos = 0 /\ pos' = 0
            \/ Starts /\ Phase' = 1 /\ (pos # 0 => pos = 10 /\ Phase > 147)
            \/ /\ pos # 0 /\ pos' # 0 /\ ~Starts
               /\ Phase' = Phase + 1 /\ sent' = sent
            \/ pos = 10 /\ Phase > 147 /\ pos' = 0
<1>1. /\ pos \in 0 .. 10 /\ drift \in Int /\ left \in 0 .. 17 /\ -6 <= drift
      /\ stop = 1 /\ StopBits = {1} /\ MaxEarly \in 0 .. 6 /\ MaxLate \in Nat
  BY RxAssumption DEF TypeOK, Drifted, Followed
<1>2. CASE LineIdle
  BY <1>2 DEF LineIdle, lvars, Drifted, Phase
<1>3. CASE LineStart
  <2>1. PICK e \in {-1, 0, 1} : drift' = e /\ left' = 15 + e
    <3>1. pos' = 1 /\ BitTime
      BY <1>3 DEF LineStart
    <3>2. PICK e \in {-1, 0, 1} : drift' = (IF pos' = 1 THEN 0 ELSE drift) + e /\ left' = 15 + e
      BY <3>1 DEF BitTime
    <3>3. QED
      BY <3>1, <3>2
  <2>2. pos' = 1 /\ stop' = 1 /\ (pos = 0 \/ (pos = 10 /\ left = 0))
    BY <1>1, <1>3 DEF LineStart
  <2>3. Phase' = 1
    BY <2>1, <2>2 DEF Phase
  <2>4. Drifted'
    BY <2>1, <2>2, <2>3 DEF Drifted
  <2>5. pos # 0 => Phase > 147
    BY <1>1, <2>2 DEF Phase
  <2>6. QED
    BY <2>2, <2>3, <2>4, <2>5 DEF Starts
<1>4. CASE LineHold
  <2>1. left > 0 /\ left' = left - 1 /\ pos' = pos /\ drift' = drift /\ stop' = stop /\ sent' = sent
    BY <1>4 DEF LineHold
  <2>2. Phase' = Phase + 1 /\ Phase \in Int
    BY <1>1, <2>1 DEF Phase
  <2>3. Drifted'
    BY <1>1, <2>1, <2>2 DEF Drifted
  <2>4. QED
    BY <2>1, <2>2, <2>3 DEF Starts
<1>5. CASE LineNextBit
  <2>1. PICK e \in {-1, 0, 1} : drift' = (IF pos' = 1 THEN 0 ELSE drift) + e /\ left' = 15 + e
    BY <1>5 DEF LineNextBit, BitTime
  <2>2. pos \in 1 .. 9 /\ left = 0 /\ pos' = pos + 1 /\ stop' = stop /\ sent' = sent
    BY <1>5 DEF LineNextBit
  <2>3. drift' = drift + e /\ pos' # 1 /\ pos' # 0
    BY <2>1, <2>2
  <2>4. Phase' = Phase + 1 /\ Phase = 16 * pos + drift
    BY <1>1, <2>1, <2>2, <2>3 DEF Phase
  <2>5. Drifted'
    BY <1>1, <2>1, <2>2, <2>3, <2>4 DEF Drifted
  <2>6. QED
    BY <2>2, <2>3, <2>4, <2>5 DEF Starts
<1>6. CASE LineEnd
  <2>1. pos = 10 /\ left = 0 /\ pos' = 0 /\ stop' = stop
    BY <1>6 DEF LineEnd
  <2>2. Phase > 147
    BY <1>1, <2>1 DEF Phase
  <2>3. QED
    BY <1>1, <2>1, <2>2 DEF Drifted
<1>7. QED
  BY <1>2, <1>3, <1>4, <1>5, <1>6 DEF Line

(* The strobe, and the clock that follows it.                              *)
LEMMA StrobeFacts ==
  ASSUME IInv
  PROVE  /\ strobe <=> pos # 0 /\ Phase = 147 /\ strobeq = 0
         /\ strobe => owed = 1
         /\ state = "S_IDLE" => strobeq = 1
<1>1. strobeq \in {0, 1}
  BY DEF IInv, TypeOK, Bit
<1>2. strobe <=> strobeq = 0 /\ state # "S_SHIFT"
  BY DEF strobe, strobe_i
<1>3. strobeq = 0 => state \in {"S_SHIFT", "S_STOP"}
  BY DEF IInv, Strobed
<1>4. state = "S_STOP" => pos # 0 /\ Phase = 147
  BY StatePhase DEF IInv
<1>5. pos # 0 /\ Phase = 147 => state = "S_STOP"
  BY DEF IInv, InStep
<1>6. strobe <=> pos # 0 /\ Phase = 147 /\ strobeq = 0
  BY <1>2, <1>3, <1>4, <1>5
<1>7. strobe => owed = 1
  BY <1>6 DEF IInv, Strobed
<1>8. QED
  BY <1>1, <1>3, <1>6, <1>7

(* A clock without a tick: only the strobe, its data and the error flag.   *)
LEMMA NoTick ==
  ASSUME IInv, Clk(FALSE)
  PROVE  IInv'
<1>1. TypeOK'
  BY TypeStep DEF IInv, Next
<1>2. /\ UNCHANGED <<state, rxd, rxtrigger, count, bitcount, dsr, pos, left, drift, sent, stop>>
      /\ strobeq' = strobe_i /\ data' = dsr
      /\ owed' = LET begun == IF Starts THEN owed + 1 ELSE owed
                 IN  IF strobe /\ begun > 0 THEN begun - 1
                     ELSE IF begun > 2 THEN 2 ELSE begun
  BY DEF Clk, rx_posedge, generate_rxclk_en, state_decode, AfterTick, shift, tx_strobe,
         bitcounter, lvars
<1>3. Phase' = Phase /\ ~Starts
  BY <1>2 DEF Phase, Starts
<1>4. Drifted' /\ InStep' /\ Level' /\ Shifted'
  BY <1>2, <1>3 DEF IInv, Drifted, InStep, Level, Shifted, Missing
<1>5. owed' = IF strobe THEN 0 ELSE owed
  <2>1. owed \in 0 .. 2
    BY DEF IInv, TypeOK
  <2>2. QED
    BY <1>2, <1>3, <2>1, StrobeFacts
<1>6. Strobed'
  <2>1. /\ owed = IF pos # 0 /\ (Phase < 147 \/ (Phase = 147 /\ strobeq = 0)) THEN 1 ELSE 0
        /\ Phase \in Int
    BY StatePhase DEF IInv, Strobed
  <2>2. pos # 0 /\ Phase = 147 => strobeq' = 1
    BY <1>2 DEF IInv, InStep, strobe_i
  <2>3. owed' = IF pos # 0 /\ (Phase < 147 \/ (Phase = 147 /\ strobeq' = 0)) THEN 1 ELSE 0
    BY <1>5, <2>1, <2>2, StrobeFacts
  <2>4. strobeq' = 0 => state = "S_SHIFT"
    BY <1>2 DEF strobe_i
  <2>5. QED
    BY <1>2, <1>3, <2>3, <2>4 DEF Strobed
<1>7. QED
  BY <1>1, <1>4, <1>6 DEF IInv

(* A tick on a high line that finds the receiver idle leaves it idle.      *)
LEMMA IdleTick ==
  ASSUME IInv, state = "S_IDLE", ~rxtrigger, rx = 1,
         rx_posedge(TRUE), shift(TRUE), tx_strobe, state' = "S_IDLE"
  PROVE  /\ rxd' = 1 /\ ~rxtrigger'
         /\ strobeq' = 1 /\ dsr' = dsr /\ data' = dsr'
         /\ ~strobe
<1>1. rxd' = 1 /\ ~rxtrigger'
  <2>1. rxd' = rx /\ rxtrigger' = (rxd = 1 /\ rx = 0)
    BY DEF rx_posedge
  <2>2. rx # 0
    OBVIOUS
  <2>3. QED
    BY <2>1, <2>2
<1>2. strobeq' = 1 /\ dsr' = dsr /\ data' = dsr'
  BY DEF shift, tx_strobe, strobe_i
<1>3. ~strobe
  BY StrobeFacts DEF strobe
<1>4. QED
  BY <1>1, <1>2, <1>3

(* A tick on the idle line, with or without reset.                         *)
LEMMA LineIdleTick ==
  ASSUME IInv, TypeOK', Drifted', pos = 0, pos' = 0,
         rx_posedge(TRUE), shift(TRUE), tx_strobe, state' = "S_IDLE", owed' = owed
  PROVE  IInv'
<1>1. state = "S_IDLE" /\ ~rxtrigger /\ owed = 0
  BY DEF IInv, InStep, Strobed
<1>2. rx = 1
  BY DEF rx
<1>3. rxd' = 1 /\ ~rxtrigger' /\ strobeq' = 1 /\ data' = dsr'
  BY <1>1, <1>2, IdleTick
<1>4. QED
  BY <1>1, <1>3 DEF IInv, InStep, Level, Strobed, Shifted

(* A tick with the last one of a frame, or the first of the next.          *)
LEMMA BoundaryTick ==
  ASSUME IInv, TypeOK', Drifted', Clk(TRUE), pos \in {0, 10}, pos = 10 => Phase > 147,
         \/ Starts /\ Phase' = 1
         \/ pos = 10 /\ pos' = 0
  PROVE  IInv'
<1>1. state = "S_IDLE" /\ ~rxtrigger
  BY DEF IInv, InStep
<1>2. owed = 0
  <2>1. Phase \in Int
    BY StatePhase DEF IInv
  <2>2. QED
    BY <2>1 DEF IInv, Strobed
<1>3. rx = 1
  BY DEF rx, IInv, Drifted
<1>4. state' = "S_IDLE"
  BY <1>1 DEF Clk, state_decode, AfterTick
<1>5. rxd' = 1 /\ ~rxtrigger' /\ strobeq' = 1 /\ data' = dsr' /\ ~strobe
  BY <1>1, <1>3, <1>4, IdleTick DEF Clk
<1>6. owed' = IF Starts THEN 1 ELSE 0
  BY <1>2, <1>5 DEF Clk
<1>7. CASE Starts /\ Phase' = 1
  BY <1>4, <1>5, <1>6, <1>7 DEF Starts, IInv, InStep, Level, Strobed, Shifted
<1>8. CASE pos = 10 /\ pos' = 0
  BY <1>4, <1>5, <1>6, <1>8 DEF Starts, IInv, InStep, Level, Strobed, Shifted
<1>9. QED
  BY <1>7, <1>8

-----------------------------------------------------------------------------
(* A tick within a frame. *)

InFrame ==
  /\ IInv /\ TypeOK' /\ Drifted' /\ Clk(TRUE)
  /\ pos # 0 /\ pos' # 0 /\ ~Starts
  /\ Phase' = Phase + 1 /\ sent' = sent

(* Towards the end of a frame the line does not fall.                      *)
LEMMA NoFall ==
  ASSUME InFrame
  PROVE  /\ Phase >= 138 => ~rxtrigger'
         /\ Level'
<1>1. Phase \in Int /\ Phase' = Phase + 1
  BY StatePhase DEF InFrame, IInv
<1>2. Phase >= 137 => pos \in {9, 10}
  BY Sampled DEF InFrame, IInv
<1>3. rxd' = rx /\ rxtrigger' = (rxd = 1 /\ rx = 0)
  BY DEF InFrame, Clk, rx_posedge
<1>4. (pos = 9 => rx = sent[8]) /\ (pos = 10 => rx = 1)
  BY DEF rx, InFrame, IInv, Drifted
<1>5. Phase >= 138 => ~rxtrigger'
  <2>1. Phase >= 138 => pos = 10 \/ (pos = 9 /\ rxd = sent[8])
    BY <1>1, <1>2 DEF InFrame, IInv, Level
  <2>2. Phase >= 138 => ~(rxd = 1 /\ rx = 0)
    BY <1>4, <2>1
  <2>3. QED
    BY <1>3, <2>2, Zenon
<1>6. Level'
  <2>1. SUFFICES ASSUME pos' = 9, Phase >= 137 PROVE rxd' = sent[8]
    BY <1>1 DEF Level, InFrame
  <2>2. pos = 9
    <3>1. pos' \in {pos, pos + 1} \/ pos' = 1
      BY DEF InFrame, Clk, Line, LineIdle, LineStart, LineHold, LineNextBit, LineEnd, lvars
    <3>2. QED
      BY <1>2, <2>1, <3>1
  <2>3. QED
    BY <1>3, <1>4, <2>2
<1>7. QED
  BY <1>5, <1>6

(* The receiver goes on with the line.                                     *)
LEMMA InStepTick ==
  ASSUME InFrame
  PROVE  InStep'
<1> DEFINE p == Phase
<1>1. p \in Int /\ Phase' = p + 1 /\ p >= 1 /\ pos # 0 /\ pos' # 0
  BY StatePhase DEF InFrame, IInv, Drifted
<1>2. count \in 0 .. 15 /\ bitcount \in 0 .. 7
  BY DEF InFrame, IInv, TypeOK
<1>3. /\ p = 1 => state = "S_IDLE" /\ rxd = 1 /\ ~rxtrigger
      /\ p = 2 => state = "S_IDLE" /\ rxtrigger
      /\ p \in 3 .. 18 => state = "S_START" /\ count = p - 3
      /\ p \in 19 .. 146 => state = "S_SHIFT" /\ 16 * bitcount + count = p - 19
      /\ p = 147 => state = "S_STOP" /\ ~rxtrigger
      /\ p > 147 => state = "S_IDLE" /\ ~rxtrigger
  BY <1>1 DEF InFrame, IInv, InStep
<1>4. state' = IF state \in {"S_IDLE", "S_STOP"} THEN IF rxtrigger THEN "S_START" ELSE "S_IDLE"
               ELSE IF state = "S_START" /\ count = 15 THEN "S_SHIFT"
               ELSE IF state = "S_SHIFT" /\ count = 15 /\ bitcount = 7 THEN "S_STOP" ELSE state
  BY DEF InFrame, Clk, state_decode, AfterTick, is_count_begin
<1>5. count' = IF state = "S_IDLE" THEN 0 ELSE IF count = 15 THEN 0 ELSE count + 1
  BY <1>2 DEF InFrame, Clk, generate_rxclk_en
<1>6. bitcount' = IF count # 15 THEN bitcount
                  ELSE IF state = "S_SHIFT" THEN IF bitcount = 7 THEN 0 ELSE bitcount + 1 ELSE 0
  BY <1>2 DEF InFrame, Clk, bitcounter, is_count_begin
<1>7. p >= 138 => ~rxtrigger'
  BY NoFall
<1>8. p = 1 => rxtrigger'
  <2>1. p = 1 => rx = 0
    BY Sampled DEF InFrame, IInv, rx
  <2>2. QED
    BY <1>3, <2>1 DEF InFrame, Clk, rx_posedge
<1> HIDE DEF p
<1>9. CASE p <= 2
  BY <1>1, <1>3, <1>4, <1>5, <1>8, <1>9 DEF InStep
<1>10. CASE p \in 3 .. 18
  BY <1>1, <1>2, <1>3, <1>4, <1>5, <1>6, <1>10 DEF InStep
<1>11. CASE p \in 19 .. 145
  BY <1>1, <1>2, <1>3, <1>4, <1>5, <1>6, <1>11 DEF InStep
<1>12. CASE p = 146
  <2>1. state' = "S_STOP"
    BY <1>1, <1>2, <1>3, <1>4, <1>12
  <2>2. QED
    BY <1>1, <1>7, <1>12, <2>1 DEF InStep
<1>13. CASE p >= 147
  BY <1>1, <1>3, <1>4, <1>7, <1>13 DEF InStep
<1>14. QED
  BY <1>1, <1>9, <1>10, <1>11, <1>12, <1>13

(* The strobe comes once, with the end of the last data bit.               *)
LEMMA StrobedTick ==
  ASSUME InFrame
  PROVE  Strobed'
<1> DEFINE p == Phase
<1>1. p \in Int /\ Phase' = p + 1 /\ pos # 0 /\ pos' # 0
  BY StatePhase DEF InFrame, IInv
<1>2. /\ owed = IF p < 147 \/ (p = 147 /\ strobeq = 0) THEN 1 ELSE 0
      /\ strobeq \in {0, 1}
  BY DEF InFrame, IInv, Strobed, TypeOK, Bit
<1>3. strobe <=> p = 147 /\ strobeq = 0
  BY <1>1, StrobeFacts DEF InFrame
<1>4. owed' = IF strobe THEN 0 ELSE owed
  <2>1. owed' = LET begun == IF Starts THEN owed + 1 ELSE owed
                IN  IF strobe /\ begun > 0 THEN begun - 1
                    ELSE IF begun > 2 THEN 2 ELSE begun
    BY DEF InFrame, Clk
  <2>2. owed \in 0 .. 1 /\ (strobe => owed = 1)
    BY <1>2, <1>3
  <2>3. QED
    BY <2>1, <2>2 DEF InFrame
<1>5. strobeq' = IF state = "S_SHIFT" THEN 0 ELSE 1
  BY DEF InFrame, Clk, tx_strobe, strobe_i
<1>6. p = 146 => state = "S_SHIFT"
  BY <1>1 DEF InFrame, IInv, InStep
<1>7. owed' = IF p + 1 < 147 \/ (p + 1 = 147 /\ strobeq' = 0) THEN 1 ELSE 0
  <2> HIDE DEF p
  <2>1. QED
    BY <1>1, <1>2, <1>3, <1>4, <1>5, <1>6
<1>8. strobeq' = 0 => state' \in {"S_SHIFT", "S_STOP"}
  BY <1>5 DEF InFrame, Clk, state_decode, AfterTick
<1>9. (state' = "S_SHIFT" /\ count' = 8) \/ data' = dsr'
  <2>1. CASE state = "S_SHIFT" /\ count = 7
    <3>1. state' = "S_SHIFT" /\ count' = 8
      BY <2>1 DEF InFrame, Clk, state_decode, AfterTick, is_count_begin, generate_rxclk_en
    <3>2. QED
      BY <3>1
  <2>2. CASE ~(state = "S_SHIFT" /\ count = 7)
    BY <2>2 DEF InFrame, Clk, shift, is_count_mid, tx_strobe
  <2>3. QED
    BY <2>1, <2>2
<1>10. QED
  BY <1>1, <1>7, <1>8, <1>9 DEF Strobed

(* Each data bit is shifted in once, out of the bit it belongs to.         *)
LEMMA ShiftedTick ==
  ASSUME InFrame
  PROVE  Shifted'
<1>1. /\ count \in 0 .. 15 /\ bitcount \in 0 .. 7 /\ dsr \in Byte /\ sent \in Byte
      /\ state \in {"S_IDLE", "S_START", "S_SHIFT", "S_STOP"}
  BY DEF InFrame, IInv, TypeOK
<1>2. state' = AfterTick(state, rxtrigger, count = 15, bitcount = 7)
  BY DEF InFrame, Clk, state_decode, is_count_begin
<1>3. CASE state \in {"S_IDLE", "S_STOP"}
  <2>1. state' \in {"S_IDLE", "S_START"}
    BY <1>2, <1>3 DEF AfterTick
  <2>2. QED
    BY <2>1 DEF Shifted
<1>4. CASE state = "S_START"
  <2>1. CASE count # 15
    <3>1. state' = "S_START"
      BY <1>2, <1>4, <2>1 DEF AfterTick
    <3>2. QED
      BY <3>1 DEF Shifted
  <2>2. CASE count = 15
    <3>1. state' = "S_SHIFT" /\ count' = 0 /\ bitcount' = 0
      BY <1>2, <1>4, <2>2 DEF AfterTick, InFrame, Clk, generate_rxclk_en, bitcounter,
                             is_count_begin
    <3>2. Missing' = 8
      BY <3>1 DEF Missing
    <3>3. QED
      BY <3>1, <3>2 DEF Shifted
  <2>3. QED
    BY <2>1, <2>2
<1>5. CASE state = "S_SHIFT"
  <2>1. /\ Missing \in 0 .. 8
        /\ \A i \in 1 .. 8 : i > Missing => dsr[i] = sent[i - Missing]
        /\ sent' = sent
    BY <1>1, <1>5 DEF InFrame, IInv, Shifted, Missing
  <2>2. CASE count = 7
    <3>1. rx = sent[bitcount + 1]
      <4>1. pos # 0 /\ Phase = 16 * bitcount + 26
        <5>1. pos # 0 /\ Phase \in 19 .. 146
          BY <1>5, StatePhase DEF InFrame, IInv
        <5>2. Phase \in Int /\ 16 * bitcount + count = Phase - 19
          BY <5>1, StatePhase DEF InFrame, IInv, InStep
        <5>3. QED
          BY <1>1, <2>2, <5>1, <5>2
      <4>2. pos = bitcount + 2
        BY <1>1, <4>1, Sampled DEF InFrame, IInv
      <4>3. QED
        BY <1>1, <4>2 DEF rx
    <3>2. state' = "S_SHIFT" /\ count' = 8 /\ bitcount' = bitcount
      BY <1>2, <1>5, <2>2 DEF AfterTick, InFrame, Clk, generate_rxclk_en, bitcounter,
                             is_count_begin
    <3>3. Missing = 8 - bitcount /\ Missing' = 7 - bitcount
      BY <1>1, <2>2, <3>2 DEF Missing
    <3>4. dsr' = Append(Tail(dsr), rx) /\ rx \in Bit
      BY <1>5, <2>2, LineBit DEF InFrame, IInv, Clk, shift, is_count_mid
    <3>5. /\ \A i \in 1 .. 7 : dsr'[i] = dsr[i + 1]
          /\ dsr'[8] = rx
      BY <1>1, <3>4, ShiftIn
    <3>6. ASSUME NEW i \in 1 .. 8, i > 7 - bitcount
          PROVE  dsr'[i] = sent[i - (7 - bitcount)]
      <4>1. CASE i = 8
        <5>1. i - (7 - bitcount) = bitcount + 1
          BY <1>1, <4>1
        <5>2. QED
          BY <3>1, <3>5, <4>1, <5>1
      <4>2. CASE i # 8
        <5>1. /\ i \in 1 .. 7 /\ i + 1 \in 1 .. 8 /\ i + 1 > 8 - bitcount
              /\ (i + 1) - (8 - bitcount) = i - (7 - bitcount)
          BY <1>1, <3>6, <4>2
        <5>2. QED
          BY <2>1, <3>3, <3>5, <5>1
      <4>3. QED
        BY <4>1, <4>2
    <3>7. QED
      BY <2>1, <3>2, <3>3, <3>6 DEF Shifted
  <2>3. CASE count # 7
    <3>1. dsr' = dsr
      BY <2>3 DEF InFrame, Clk, shift, is_count_mid
    <3>2. CASE count # 15
      <4>1. state' = "S_SHIFT" /\ count' = count + 1 /\ bitcount' = bitcount
        BY <1>1, <1>2, <1>5, <3>2 DEF AfterTick, InFrame, Clk, generate_rxclk_en, bitcounter,
                                      is_count_begin
      <4>2. Missing' = Missing
        BY <1>1, <2>3, <4>1 DEF Missing
      <4>3. QED
        BY <2>1, <3>1, <4>1, <4>2 DEF Shifted
    <3>3. CASE count = 15 /\ bitcount # 7
      <4>1. state' = "S_SHIFT" /\ count' = 0 /\ bitcount' = bitcount + 1
        BY <1>1, <1>2, <1>5, <3>3 DEF AfterTick, InFrame, Clk, generate_rxclk_en, bitcounter,
                                      is_count_begin
      <4>2. Missing' = Missing
        BY <1>1, <3>3, <4>1 DEF Missing
      <4>3. QED
        BY <2>1, <3>1, <4>1, <4>2 DEF Shifted
    <3>4. CASE count = 15 /\ bitcount = 7
      <4>1. state' = "S_STOP" /\ Missing = 0
        BY <1>2, <1>5, <3>4 DEF AfterTick, Missing
      <4>2. \A i \in 1 .. 8 : dsr[i] = sent[i]
        BY <2>1, <4>1
      <4>3. dsr = sent
        BY <1>1, <4>2 DEF Byte
      <4>4. QED
        BY <2>1, <3>1, <4>1, <4>3 DEF Shifted
    <3>5. QED
      BY <3>2, <3>3, <3>4
  <2>4. QED
    BY <2>2, <2>3
<1>6. QED
  BY <1>1, <1>3, <1>4, <1>5

-----------------------------------------------------------------------------
(* Every step keeps the invariant.                                         *)
LEMMA NextInv ==
  ASSUME IInv, Followed, [Next]_vars
  PROVE  IInv'
<1>1. TypeOK'
  BY TypeStep DEF IInv
<1>2. CASE Clk(TRUE)
  <2>1. Line /\ TypeOK /\ Drifted
    BY <1>2 DEF Clk, IInv
  <2>2. Drifted'
    BY <2>1, LineStep
  <2>3. CASE pos = 0 /\ pos' = 0
    <3>1. ~Starts /\ state = "S_IDLE" /\ ~rxtrigger /\ owed = 0
      BY <2>3 DEF Starts, IInv, InStep, Strobed
    <3>2. state' = "S_IDLE"
      BY <1>2, <3>1 DEF Clk, state_decode, AfterTick
    <3>3. ~strobe
      BY <2>3, StrobeFacts
    <3>4. owed' = owed
      BY <1>2, <3>1, <3>3 DEF Clk
    <3>5. QED
      BY <1>1, <1>2, <2>2, <2>3, <3>2, <3>4, LineIdleTick DEF Clk
  <2>4. CASE Starts /\ Phase' = 1 /\ (pos # 0 => pos = 10 /\ Phase > 147)
    BY <1>1, <1>2, <2>2, <2>4, BoundaryTick
  <2>5. CASE pos = 10 /\ Phase > 147 /\ pos' = 0
    BY <1>1, <1>2, <2>2, <2>5, BoundaryTick
  <2>6. CASE pos # 0 /\ pos' # 0 /\ ~Starts /\ Phase' = Phase + 1 /\ sent' = sent
    <3>1. InFrame
      BY <1>1, <1>2, <2>2, <2>6 DEF InFrame
    <3>2. QED
      BY <1>1, <2>2, <3>1, NoFall, InStepTick, StrobedTick, ShiftedTick DEF IInv
  <2>7. QED
    BY <2>1, <2>3, <2>4, <2>5, <2>6, LineStep
<1>3. CASE Clk(FALSE)
  BY <1>3, NoTick
<1>4. ASSUME NEW tick \in BOOLEAN, ResetClk(tick)
      PROVE  IInv'
  <2>1. /\ pos = 0 /\ pos' = 0 /\ state = "S_IDLE" /\ state' = "S_IDLE"
        /\ UNCHANGED <<lvars, owed>>
    BY <1>4 DEF ResetClk, IInv, InStep, lvars
  <2>2. Drifted'
    BY <2>1 DEF lvars, IInv, Drifted
  <2>3. CASE tick
    BY <1>1, <1>4, <2>1, <2>2, <2>3, LineIdleTick DEF ResetClk
  <2>4. CASE ~tick
    <3>1. /\ rxd' = rxd /\ rxtrigger' = rxtrigger /\ dsr' = dsr
          /\ strobeq' = 1 /\ data' = dsr
      BY <1>4, <2>1, <2>4 DEF ResetClk, rx_posedge, shift, tx_strobe, strobe_i
    <3>2. QED
      BY <1>1, <2>1, <2>2, <3>1 DEF IInv, InStep, Level, Strobed, Shifted
  <2>5. QED
    BY <2>3, <2>4
<1>5. CASE UNCHANGED vars
  BY <1>1, <1>5 DEF vars, rvars, lvars, IInv, Drifted, InStep, Level, Strobed, Shifted,
                    Phase, Missing
<1>6. QED
  BY <1>2, <1>3, <1>4, <1>5 DEF Next

(* Transmitter and receiver are in step in every reachable state.          *)
THEOREM Invariance == ASSUME Followed PROVE Spec => []IInv
<1>1. Init => IInv
  <2>1. SUFFICES ASSUME Init PROVE IInv
    OBVIOUS
  <2>2. TypeOK
    BY <2>1, InitType
  <2>3. QED
    BY <2>1, <2>2 DEF Init, IInv, Drifted, InStep, Level, Strobed, Shifted
<1>2. IInv /\ [Next]_vars => IInv'
  BY NextInv
<1>3. QED
  BY <1>1, <1>2, PTL DEF Spec

(* Every strobe carries the byte of the one frame on the line, none is     *)
(* strobed twice or made up, for every sequence of bytes with stop bits    *)
(* that are one and every drift of at most six ticks early: in the model   *)
(* a seventh makes the receiver sample the last data bit in the stop bit.  *)
THEOREM FrameDeliveredCorrect == ASSUME Followed PROVE Spec => []FrameDelivered
<1>1. IInv => FrameDelivered
  <2>1. SUFFICES ASSUME IInv PROVE FrameDelivered
    OBVIOUS
  <2>2. owed < 2
    BY <2>1 DEF IInv, Strobed
  <2>3. ASSUME strobe PROVE owed = 1 /\ pos \in 9 .. 10 /\ data = sent
    <3>1. pos # 0 /\ Phase = 147 /\ owed = 1
      BY <2>1, <2>3, StrobeFacts
    <3>2. pos \in 9 .. 10
      BY <2>1, <3>1, Sampled DEF IInv
    <3>3. state = "S_STOP"
      BY <2>1, <3>1 DEF IInv, InStep
    <3>4. QED
      BY <2>1, <3>1, <3>2, <3>3 DEF IInv, Strobed, Shifted
  <2>4. QED
    BY <2>2, <2>3 DEF FrameDelivered
<1>2. QED
  BY <1>1, Invariance, PTL

-----------------------------------------------------------------------------
(* The pulse synchronizer.  A flip of toggle that clko has not sampled is  *)
(* young, or the next pulse waits for it.                                  *)
Spacing == resets = 0 =>
  /\ sig = 1 <=> since = 0
  /\ toggle # syncpipe[0] => IF since = 0 THEN run >= Gap ELSE since <= run

XdpIInv == XdpTypeOK /\ Spacing /\ NoneLost

(* xor of two bits is a bit.                                               *)
LEMMA XorType == \A a, b : Xor(a, b) \in Logic
  BY DEF Xor, Logic

(* The pipe after an edge of clko.                                         *)
LEMMA PipeShifted ==
  ASSUME XdpTypeOK, Out
  PROVE  /\ syncpipe'[0] = toggle
         /\ syncpipe'[1] = syncpipe[0]
         /\ syncpipe'[2] = syncpipe[1]
         /\ syncpipe' \in [0 .. 2 -> Logic]
  BY DEF XdpTypeOK, Out, out_worker, Logic

(* The strengthened invariant holds at the start.                          *)
LEMMA XdpInitInv == XdpInit => XdpIInv
  BY FlagXdpAssumption, SMT
  DEF XdpInit, XdpIInv, XdpTypeOK, Spacing, NoneLost, InFlight, Xor, Logic, sig

(* Without resets, a flip of toggle finds the last one sampled.            *)
LEMMA FlipAlone ==
  ASSUME XdpIInv, resets = 0, run < Ratio, sig = 1
  PROVE  toggle = syncpipe[0]
  BY FlagXdpAssumption, SMT DEF XdpIInv, XdpTypeOK, Spacing

(* Driving the input keeps the types of its value and age.                 *)
LEMMA DriveType ==
  ASSUME XdpTypeOK, NEW next \in Logic, Drive(next)
  PROVE  datai' \in Logic /\ since' \in 0 .. Gap
  BY FlagXdpAssumption, SMT DEF XdpTypeOK, Drive, Logic

(* An edge of clki keeps the flips apart.                                  *)
LEMMA InInv ==
  ASSUME XdpIInv, In
  PROVE  XdpIInv'
<1>1. PICK next \in Logic : /\ run < Ratio
                          /\ in_worker
                          /\ Drive(next)
                          /\ run' = run + 1
                          /\ flips' = flips + sig
                          /\ UNCHANGED <<syncpipe, resets>>
  BY DEF In
<1>2. datai' \in Logic /\ since' \in 0 .. Gap
  BY <1>1, DriveType DEF XdpIInv
<1>3. XdpTypeOK'
  <2>1. toggle' \in Logic /\ isig_d' \in Logic
    BY <1>1, XorType DEF XdpIInv, XdpTypeOK, in_worker
  <2>2. flips' \in Nat
    BY <1>1, SMT DEF XdpIInv, XdpTypeOK, sig
  <2>3. run' \in 0 .. Ratio
    BY <1>1, FlagXdpAssumption, SMT DEF XdpIInv, XdpTypeOK
  <2>4. QED
    BY <1>1, <1>2, <2>1, <2>2, <2>3 DEF XdpIInv, XdpTypeOK
<1>4. Spacing'
  <2>1. SUFFICES ASSUME resets = 0
                 PROVE  /\ sig' = 1 <=> since' = 0
                        /\ toggle' # syncpipe[0]
                             => IF since' = 0 THEN run' >= Gap ELSE since' <= run'
    BY <1>1 DEF Spacing
  <2>2. CASE sig = 1
    BY <1>1, <2>1, <2>2, FlipAlone, FlagXdpAssumption, SMT
    DEF XdpIInv, XdpTypeOK, Spacing, sig, in_worker, Drive, Xor, Logic
  <2>3. CASE sig # 1
    BY <1>1, <2>1, <2>3, FlagXdpAssumption, SMT
    DEF XdpIInv, XdpTypeOK, Spacing, sig, in_worker, Drive, Xor, Logic
  <2>4. QED
    BY <2>2, <2>3
<1>5. NoneLost'
  <2>1. CASE resets = 0
    BY <1>1, <2>1, FlipAlone, SMT
    DEF XdpIInv, XdpTypeOK, NoneLost, InFlight, in_worker, sig, Xor, Logic
  <2>2. CASE resets # 0
    BY <1>1, <2>2, SMT
    DEF XdpIInv, XdpTypeOK, NoneLost, InFlight, in_worker, sig, Xor, Logic
  <2>3. QED
    BY <2>1, <2>2
<1>6. QED
  BY <1>3, <1>4, <1>5 DEF XdpIInv

(* So does a reset of the access port.                                     *)
LEMMA ResetInv ==
  ASSUME XdpIInv, Reset
  PROVE  XdpIInv'
<1>1. PICK next \in Logic : /\ run < Ratio
                          /\ resets < MaxResets
                          /\ toggle' = 0 /\ isig_d' = 0
                          /\ Drive(next)
                          /\ run' = run + 1
                          /\ flips' = flips + toggle
                          /\ resets' = resets + 1
                          /\ UNCHANGED syncpipe
  BY DEF Reset
<1>2. datai' \in Logic /\ since' \in 0 .. Gap
  BY <1>1, DriveType DEF XdpIInv
<1>3. XdpTypeOK'
  BY <1>1, <1>2, FlagXdpAssumption, SMT DEF XdpIInv, XdpTypeOK, Logic
<1>4. Spacing'
  BY <1>1, SMT DEF XdpIInv, XdpTypeOK, Spacing
<1>5. NoneLost'
  BY <1>1, SMT DEF XdpIInv, XdpTypeOK, NoneLost, InFlight, Xor, Logic
<1>6. QED
  BY <1>3, <1>4, <1>5 DEF XdpIInv

(* So does an edge of clko, which shifts the pipe.                         *)
LEMMA OutInv ==
  ASSUME XdpIInv, Out
  PROVE  XdpIInv'
<1>1. /\ syncpipe'[0] = toggle
      /\ syncpipe'[1] = syncpipe[0]
      /\ syncpipe'[2] = syncpipe[1]
      /\ syncpipe' \in [0 .. 2 -> Logic]
  BY PipeShifted DEF XdpIInv
<1>2. NoneLost' /\ flips' \in Nat
  BY <1>1, SMT DEF XdpIInv, XdpTypeOK, NoneLost, InFlight, Out, clki, datao, Xor, Logic
<1>3. XdpTypeOK'
  BY <1>1, <1>2, FlagXdpAssumption, SMT DEF XdpIInv, XdpTypeOK, Out, clki
<1>4. Spacing'
  BY <1>1, SMT DEF XdpIInv, Spacing, Out, clki, sig
<1>5. QED
  BY <1>2, <1>3, <1>4 DEF XdpIInv

(* The strengthened invariant holds for every Gap and Ratio.               *)
THEOREM XdpInvariance == XdpSpec => []XdpIInv
<1>1. XdpIInv /\ [XdpNext]_xdpvars => XdpIInv'
  <2>1. SUFFICES ASSUME XdpIInv, [XdpNext]_xdpvars PROVE XdpIInv'
    OBVIOUS
  <2>2. CASE In
    BY <2>1, <2>2, InInv
  <2>3. CASE Reset
    BY <2>1, <2>3, ResetInv
  <2>4. CASE Out
    BY <2>1, <2>4, OutInv
  <2>5. CASE UNCHANGED xdpvars
    BY <2>1, <2>5
    DEF XdpIInv, XdpTypeOK, Spacing, NoneLost, InFlight, sig, xdpvars, clki
  <2>6. QED
    BY <2>1, <2>2, <2>3, <2>4, <2>5 DEF XdpNext
<1>2. QED
  BY <1>1, XdpInitInv, PTL DEF XdpSpec

(* No pulse is lost or doubled between the clock domains as long as the    *)
(* access port is not reset, and resets add at most one strobe each.       *)
THEOREM NoneLostCorrect == XdpSpec => []NoneLost
<1>1. XdpIInv => NoneLost
  BY DEF XdpIInv
<1>2. QED
  BY <1>1, XdpInvariance, PTL

(* The registers keep their types and the bounds on the clocks hold.       *)
THEOREM XdpTypeCorrect == XdpSpec => []XdpTypeOK
<1>1. XdpIInv => XdpTypeOK
  BY DEF XdpIInv
<1>2. QED
  BY <1>1, XdpInvariance, PTL
=============================================================================
