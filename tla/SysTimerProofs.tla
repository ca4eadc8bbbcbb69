--------------------------- MODULE SysTimerProofs ---------------------------
(***************************************************************************)
(* The system timer: its types, the account of ticks, the prescaler and the*)
(* pair of period and width, for every width of the counters, whatever     *)
(* dividers and periods the program asks for.                              *)
(***************************************************************************)
EXTENDS SysTimer, SequenceTheorems, TLAPS

Store == [to : {"CONFIG", "IMASK", "PWM_CONFIG", "WIDTH", "PERIOD", "START", "STOP", "GET"},
          v : Word]

(* What the proofs need of a call, and of what is left of it: a divider is *)
(* only written when a start follows, a width only just before its period, *)
(* and a period only just after its width.                                 *)
Shape(s) ==
  /\ \A i \in 1 .. Len(s) : s[i].to = "CONFIG" => i < Len(s) /\ s[Len(s)].to = "START"
  /\ \A i \in 1 .. Len(s) :
       s[i].to = "WIDTH" => i < Len(s) /\ s[i + 1].to = "PERIOD" /\ s[i + 1].v = s[i].v
  /\ \A i \in 2 .. Len(s) : s[i].to = "PERIOD" => s[i - 1].to = "WIDTH"

(* A store of a call is well typed.                                        *)
LEMMA AtStore ==
  ASSUME NEW to \in {"CONFIG", "IMASK", "PWM_CONFIG", "WIDTH", "PERIOD", "START", "STOP", "GET"},
         NEW v \in Word
  PROVE  At(to, v) \in Store /\ At(to, v).to = to /\ At(to, v).v = v
BY DEF At, Store

(* Words are at least one bit wide.                                        *)
LEMMA SmallWord == 0 \in Word /\ 1 \in Word
BY TimerAssumption DEF Word

(* The calls, access by access.                                            *)
LEMMA StoresTyped ==
  ASSUME NEW p \in Pulse
  PROVE  /\ \A d \in Div : At("CONFIG", d) \in Store
         /\ At("IMASK", 1) \in Store
         /\ At("PWM_CONFIG", 1) \in Store /\ At("WIDTH", p - 1) \in Store
         /\ At("PERIOD", p - 1) \in Store /\ At("START", 1) \in Store
         /\ At("STOP", 1) \in Store /\ At("GET", 0) \in Store
<1>1. p - 1 \in Word /\ Div \subseteq Word
  BY TimerAssumption DEF Word
<1>. QED BY <1>1, SmallWord, AtStore

(* systimer_init, access by access.                                        *)
LEMMA InitCall ==
  ASSUME NEW d \in Div, NEW p \in Pulse, NEW s, s = systimer_init(d, p)
  PROVE  /\ s \in Seq(Store) /\ Len(s) = 6
         /\ s[1] = At("CONFIG", d) /\ s[2] = At("IMASK", 1) /\ s[3] = At("PWM_CONFIG", 1)
         /\ s[4] = At("WIDTH", p - 1) /\ s[5] = At("PERIOD", p - 1) /\ s[6] = At("START", 1)
<1>1. s = <<At("CONFIG", d), At("IMASK", 1)>>
            \o <<At("PWM_CONFIG", 1), At("WIDTH", p - 1), At("PERIOD", p - 1)>>
            \o <<At("START", 1)>>
  BY DEF systimer_init, pwm_cfg
<1>2. /\ At("CONFIG", d) \in Store /\ At("IMASK", 1) \in Store
      /\ At("PWM_CONFIG", 1) \in Store /\ At("WIDTH", p - 1) \in Store
      /\ At("PERIOD", p - 1) \in Store /\ At("START", 1) \in Store
  BY StoresTyped
<1>. QED BY <1>1, <1>2, SMT

(* timer_set, access by access.                                            *)
LEMMA SetCall ==
  ASSUME NEW p \in Pulse, NEW s, s = timer_set(p)
  PROVE  /\ s \in Seq(Store) /\ Len(s) = 6
         /\ s[1] = At("STOP", 1) /\ s[2] = At("GET", 0) /\ s[3] = At("START", 1)
         /\ s[4] = At("PWM_CONFIG", 1) /\ s[5] = At("WIDTH", p - 1) /\ s[6] = At("PERIOD", p - 1)
<1>1. s = <<At("STOP", 1), At("GET", 0), At("START", 1)>>
            \o <<At("PWM_CONFIG", 1), At("WIDTH", p - 1), At("PERIOD", p - 1)>>
  BY DEF timer_set, pwm_cfg
<1>2. /\ At("STOP", 1) \in Store /\ At("GET", 0) \in Store /\ At("START", 1) \in Store
      /\ At("PWM_CONFIG", 1) \in Store /\ At("WIDTH", p - 1) \in Store
      /\ At("PERIOD", p - 1) \in Store
  BY StoresTyped
<1>. QED BY <1>1, <1>2, SMT

(* A call of six accesses with its pair in sequence has the shape.         *)
LEMMA SixShape ==
  ASSUME NEW s \in Seq(Store), Len(s) = 6, s[1].to # "PERIOD",
         \A i \in 1 .. 6 : s[i].to = "CONFIG" => i # 6 /\ s[6].to = "START",
         \A i \in 1 .. 6 : s[i].to = "WIDTH" => i # 6 /\ s[i + 1].to = "PERIOD" /\ s[i + 1].v = s[i].v,
         \A i \in 2 .. 6 : s[i].to = "PERIOD" => s[i - 1].to = "WIDTH"
  PROVE  Shape(s) /\ s # <<>>
BY DEF Shape

(* Both calls have it.                                                     *)
LEMMA CallShape ==
  ASSUME NEW s, \/ \E d \in Div, p \in Pulse : s = systimer_init(d, p)
                \/ \E p \in Pulse : s = timer_set(p)
  PROVE  s \in Seq(Store) /\ Shape(s) /\ s[1].to # "PERIOD" /\ s # <<>>
<1>1. ASSUME NEW d \in Div, NEW p \in Pulse, s = systimer_init(d, p)
      PROVE  s \in Seq(Store) /\ Shape(s) /\ s[1].to # "PERIOD" /\ s # <<>>
  <2>1. /\ s \in Seq(Store) /\ Len(s) = 6
        /\ s[1].to = "CONFIG" /\ s[2].to = "IMASK" /\ s[3].to = "PWM_CONFIG"
        /\ s[4].to = "WIDTH" /\ s[5].to = "PERIOD" /\ s[5].v = s[4].v /\ s[6].to = "START"
    <3>1. /\ s \in Seq(Store) /\ Len(s) = 6
          /\ s[1] = At("CONFIG", d) /\ s[2] = At("IMASK", 1) /\ s[3] = At("PWM_CONFIG", 1)
          /\ s[4] = At("WIDTH", p - 1) /\ s[5] = At("PERIOD", p - 1) /\ s[6] = At("START", 1)
      BY <1>1, InitCall
    <3>. QED BY <3>1 DEF At
  <2>2. \A i \in 1 .. 6 : i = 1 \/ i = 2 \/ i = 3 \/ i = 4 \/ i = 5 \/ i = 6
    OBVIOUS
  <2>3. /\ \A i \in 1 .. 6 : s[i].to = "CONFIG" => i # 6 /\ s[6].to = "START"
        /\ \A i \in 1 .. 6 : s[i].to = "WIDTH" => i # 6 /\ s[i + 1].to = "PERIOD" /\ s[i + 1].v = s[i].v
        /\ \A i \in 2 .. 6 : s[i].to = "PERIOD" => s[i - 1].to = "WIDTH"
    BY <2>1, <2>2
  <2>. QED BY <2>1, <2>3, SixShape
<1>2. ASSUME NEW p \in Pulse, s = timer_set(p)
      PROVE  s \in Seq(Store) /\ Shape(s) /\ s[1].to # "PERIOD" /\ s # <<>>
  <2>1. /\ s \in Seq(Store) /\ Len(s) = 6
        /\ s[1].to = "STOP" /\ s[2].to = "GET" /\ s[3].to = "START"
        /\ s[4].to = "PWM_CONFIG" /\ s[5].to = "WIDTH" /\ s[6].to = "PERIOD" /\ s[6].v = s[5].v
    <3>1. /\ s \in Seq(Store) /\ Len(s) = 6
          /\ s[1] = At("STOP", 1) /\ s[2] = At("GET", 0) /\ s[3] = At("START", 1)
          /\ s[4] = At("PWM_CONFIG", 1) /\ s[5] = At("WIDTH", p - 1) /\ s[6] = At("PERIOD", p - 1)
      BY <1>2, SetCall
    <3>. QED BY <3>1 DEF At
  <2>2. \A i \in 1 .. 6 : i = 1 \/ i = 2 \/ i = 3 \/ i = 4 \/ i = 5 \/ i = 6
    OBVIOUS
  <2>3. /\ \A i \in 1 .. 6 : s[i].to = "CONFIG" => i # 6 /\ s[6].to = "START"
        /\ \A i \in 1 .. 6 : s[i].to = "WIDTH" => i # 6 /\ s[i + 1].to = "PERIOD" /\ s[i + 1].v = s[i].v
        /\ \A i \in 2 .. 6 : s[i].to = "PERIOD" => s[i - 1].to = "WIDTH"
    BY <2>1, <2>2
  <2>. QED BY <2>1, <2>3, SixShape
<1>. QED BY <1>1, <1>2

(* What is left of a call keeps its shape.                                 *)
LEMMA TailShape ==
  ASSUME NEW s \in Seq(Store), s # <<>>, Shape(s)
  PROVE  /\ Tail(s) \in Seq(Store) /\ Shape(Tail(s)) /\ Head(s) \in Store /\ Head(s) = s[1]
         /\ Len(Tail(s)) = Len(s) - 1
         /\ \A i \in 1 .. Len(s) - 1 : Tail(s)[i] = s[i + 1]
<1>1. /\ Tail(s) \in Seq(Store) /\ Len(Tail(s)) = Len(s) - 1 /\ Head(s) \in Store /\ Head(s) = s[1]
      /\ \A i \in 1 .. Len(s) - 1 : Tail(s)[i] = s[i + 1]
  BY HeadTailProperties
<1> DEFINE t == Tail(s)
<1> HIDE DEF t
<1>2. t \in Seq(Store) /\ Len(t) = Len(s) - 1 /\ \A i \in 1 .. Len(t) : t[i] = s[i + 1]
  BY <1>1 DEF t
<1>3. Shape(t)
  <2>1. ASSUME NEW i \in 1 .. Len(t), t[i].to = "CONFIG"
        PROVE  i < Len(t) /\ t[Len(t)].to = "START"
    <3>1. i + 1 \in 1 .. Len(s) /\ Len(t) \in 1 .. Len(t) /\ Len(t) + 1 = Len(s)
      BY <1>2
    <3>. QED BY <1>2, <2>1, <3>1 DEF Shape
  <2>2. ASSUME NEW i \in 1 .. Len(t), t[i].to = "WIDTH"
        PROVE  i < Len(t) /\ t[i + 1].to = "PERIOD" /\ t[i + 1].v = t[i].v
    <3>1. i + 1 \in 1 .. Len(s) /\ Len(t) + 1 = Len(s) /\ s[i + 1].to = "WIDTH"
      BY <1>2, <2>2
    <3>2. i + 1 < Len(s) /\ s[i + 2].to = "PERIOD" /\ s[i + 2].v = s[i + 1].v
      BY <3>1 DEF Shape
    <3>3. i + 1 \in 1 .. Len(t) /\ t[i + 1] = s[i + 2] /\ t[i] = s[i + 1]
      BY <1>2, <3>1, <3>2
    <3>. QED BY <3>2, <3>3
  <2>3. ASSUME NEW i \in 2 .. Len(t), t[i].to = "PERIOD"
        PROVE  t[i - 1].to = "WIDTH"
    <3>1. i + 1 \in 2 .. Len(s) /\ i - 1 \in 1 .. Len(t) /\ t[i] = s[i + 1] /\ t[i - 1] = s[i]
      BY <1>2
    <3>. QED BY <2>3, <3>1 DEF Shape
  <2>. QED BY <2>1, <2>2, <2>3 DEF Shape
<1>. QED BY <1>1, <1>3 DEF t

-----------------------------------------------------------------------------
(* Counters stay within their words.                                       *)
LEMMA Numbers ==
  0 \in Word /\ 1 \in Word /\ \A x \in Word : Next16(x) \in Word
BY TimerAssumption DEF Word, Next16

(* A call that is over is typed.                                           *)
LEMMA EmptyTyped == <<>> \in Seq(Store)
BY EmptySeq, Zenon

(* An access of a step is none, or the next of the call under way.         *)
Accesses == Store \cup {None}

(* The next access is a store of the call, the rest its remainder.         *)
LEMMA HeadAccess ==
  ASSUME TypeOK, todo # <<>>
  PROVE  Head(todo) \in Store /\ Head(todo) \in Accesses /\ Tail(todo) \in Seq(Store)
<1>1. todo \in Seq(Store)
  BY Zenon DEF TypeOK, Store
<1>. QED BY <1>1, HeadTailProperties DEF Accesses

(* A clock of the hardware keeps every register in its width.              *)
LEMMA HardwareTyped ==
  ASSUME TypeOK, NEW w \in Accesses, NEW ack \in BOOLEAN, Hardware(w, ack)
  PROVE  /\ reg' \in [creset : BOOLEAN, div : Word, irqen : BOOLEAN, width : Word, period : Word]
         /\ {enable, running, irq, outp, ilat, ipend}' \subseteq BOOLEAN
         /\ {prescaler, counter, period, width}' \subseteq Word
<1>1. w.to \in {"CONFIG", "WIDTH", "PERIOD"} => w.v \in Word
  BY DEF Accesses, Store, None, At
<1>2. reg' \in [creset : BOOLEAN, div : Word, irqen : BOOLEAN, width : Word, period : Word]
  BY <1>1 DEF TypeOK, Hardware, registers
<1>3. enable' \in BOOLEAN /\ prescaler' \in Word
  BY Numbers DEF TypeOK, Hardware, tmr_core, clkdiv
<1>4. /\ {running, irq, outp}' \subseteq BOOLEAN
      /\ {counter, period, width}' \subseteq Word
  <2>1. pwm_core /\ reg.width \in Word /\ reg.period \in Word /\ reg.irqen \in BOOLEAN
    BY DEF TypeOK, Hardware
  <2>2. irq' \in BOOLEAN
    BY <2>1 DEF pwm_core, PeriodEnds, clken, TypeOK
  <2>3. CASE ~clken
    BY <2>1, <2>2, <2>3 DEF pwm_core, TypeOK
  <2>4. CASE clken /\ (~running \/ PeriodEnds)
    BY <2>1, <2>2, <2>4, Numbers DEF pwm_core, TypeOK, Load
  <2>5. CASE clken /\ ~(~running \/ PeriodEnds)
    BY <2>1, <2>2, <2>5, Numbers DEF pwm_core, TypeOK
  <2>. QED BY <2>3, <2>4, <2>5
<1>5. {ilat, ipend}' \subseteq BOOLEAN
  BY DEF TypeOK, Hardware, irq_mask
<1>. QED BY <1>2, <1>3, <1>4, <1>5

(* The history variables keep their types.                                 *)
LEMMA RememberTyped ==
  ASSUME TypeOK, isr' \in {"off", "entered", "counted"}, NEW w, NEW returns \in BOOLEAN,
         NEW counts \in BOOLEAN, Remember(w, returns, counts)
  PROVE  /\ waits' \in BOOLEAN /\ ticks' \in Word /\ since' \in Int
         /\ stale' \in [n : 0 .. 3, begun : BOOLEAN, over : BOOLEAN]
<1>1. waits' \in BOOLEAN
  BY Zenon DEF Remember, TypeOK
<1>2. ticks' \in Word
  BY Numbers DEF Remember, TypeOK
<1>3. since' \in Int
  <2>1. Cut(w) \in Int
    <3>1. prescaler \in Int /\ reg.div \in Int
      BY TimerAssumption DEF TypeOK, Word
    <3>. QED BY <3>1 DEF Cut
  <2>2. since' \in {0, 1 + Cut(w), since + 1 + Cut(w)}
    BY DEF Remember
  <2>. QED BY <2>1, <2>2 DEF TypeOK
<1>4. stale' \in [n : 0 .. 3, begun : BOOLEAN, over : BOOLEAN]
  BY DEF Remember, TypeOK, PeriodEnds, clken
<1>. QED BY <1>1, <1>2, <1>3, <1>4

(* A clock without an access is one, too.                                  *)
LEMMA NoneAccess == None \in Accesses
BY DEF Accesses

(* Every step is a clock of the hardware.                                  *)
LEMMA TypeStep == TypeOK /\ [Next]_vars => TypeOK'
<1> SUFFICES ASSUME TypeOK, [Next]_vars PROVE TypeOK'
  OBVIOUS
<1>0. todo \in Seq(Store) /\ imask \in BOOLEAN /\ g_count \in Word
  BY Zenon DEF TypeOK, Store
<1>1. ASSUME NEW w \in Accesses, NEW ack \in BOOLEAN, NEW returns \in BOOLEAN,
             NEW counts \in BOOLEAN, Hardware(w, ack), Remember(w, returns, counts),
             todo' \in Seq(Store), imask' \in BOOLEAN, g_count' \in Word,
             isr' \in {"off", "entered", "counted"}
      PROVE  TypeOK'
  <2>1. /\ reg' \in [creset : BOOLEAN, div : Word, irqen : BOOLEAN, width : Word, period : Word]
        /\ {enable, running, irq, outp, ilat, ipend}' \subseteq BOOLEAN
        /\ {prescaler, counter, period, width}' \subseteq Word
    BY <1>1, HardwareTyped
  <2>2. /\ waits' \in BOOLEAN /\ ticks' \in Word /\ since' \in Int
        /\ stale' \in [n : 0 .. 3, begun : BOOLEAN, over : BOOLEAN]
    BY <1>1, RememberTyped
  <2>3. todo' \in Seq([to : {"CONFIG", "IMASK", "PWM_CONFIG", "WIDTH", "PERIOD",
                             "START", "STOP", "GET"}, v : Word])
    BY <1>1, Zenon DEF Store
  <2>. QED BY <1>1, <2>1, <2>2, <2>3 DEF TypeOK
<1>2. CASE Stall
  BY <1>0, <1>1, <1>2, NoneAccess DEF Stall, TypeOK
<1>3. CASE Call
  <2>1. todo' \in Seq(Store)
    BY <1>3, CallShape, Zenon DEF Call
  <2>2. /\ Hardware(None, FALSE) /\ Remember(None, FALSE, FALSE)
        /\ UNCHANGED <<imask, isr, g_count>>
    BY <1>3 DEF Call
  <2>. QED BY <1>0, <1>1, <2>1, <2>2, NoneAccess DEF TypeOK
<1>4. CASE Access
  <2>1. todo # <<>> /\ todo' = Tail(todo)
    BY <1>4 DEF Access
  <2>2. Head(todo) \in Accesses /\ todo' \in Seq(Store)
    BY <2>1, HeadAccess
  <2>3. imask' = (imask \/ Head(todo).to = "IMASK")
    BY <1>4 DEF Access
  <2>4. /\ Hardware(Head(todo), FALSE) /\ Remember(Head(todo), todo' = <<>>, FALSE)
        /\ UNCHANGED <<isr, g_count>>
    BY <1>4 DEF Access
  <2>5. imask' \in BOOLEAN /\ (todo' = <<>>) \in BOOLEAN
    BY <2>3, <1>0
  <2>6. g_count' \in Word /\ isr' \in {"off", "entered", "counted"}
    BY <2>4, <1>0 DEF TypeOK
  <2>. QED BY <1>1, <2>2, <2>4, <2>5, <2>6
<1>5. CASE irq_timer_handler
  <2>1. \/ Hardware(None, FALSE) \/ Hardware(None, TRUE)
    BY <1>5 DEF irq_timer_handler
  <2>2. Remember(None, FALSE, FALSE) \/ Remember(None, FALSE, TRUE)
    BY <1>5 DEF irq_timer_handler
  <2>3. isr' \in {"off", "entered", "counted"} /\ UNCHANGED <<imask, todo>>
    BY <1>5 DEF irq_timer_handler
  <2>4. g_count' \in Word
    BY <1>5, <1>0, Numbers DEF irq_timer_handler
  <2>. QED BY <1>0, <1>1, <2>1, <2>2, <2>3, <2>4, NoneAccess
<1>6. CASE UNCHANGED vars
  BY <1>6 DEF TypeOK, vars, hwvars
<1>. QED BY <1>2, <1>3, <1>4, <1>5, <1>6 DEF Next

(* Registers, counters and histories stay in their widths.                 *)
THEOREM TypeCorrect == Spec => []TypeOK
<1>1. Init => TypeOK
  <2> SUFFICES ASSUME Init PROVE TypeOK
    OBVIOUS
  <2>1. todo \in Seq([to : {"CONFIG", "IMASK", "PWM_CONFIG", "WIDTH", "PERIOD",
                            "START", "STOP", "GET"}, v : Word])
    BY EmptyTyped, Zenon DEF Init, Store
  <2>2. reg \in [creset : BOOLEAN, div : Word, irqen : BOOLEAN, width : Word, period : Word]
    BY Numbers DEF Init
  <2>3. stale \in [n : 0 .. 3, begun : BOOLEAN, over : BOOLEAN]
    BY DEF Init
  <2>4. since \in Int
    BY DEF Init
  <2>5. /\ {enable, running, irq, outp, ilat, imask, ipend, waits} \subseteq BOOLEAN
        /\ {prescaler, counter, period, width} \subseteq Word
        /\ isr \in {"off", "entered", "counted"} /\ {g_count, ticks} \subseteq Word
    BY Numbers DEF Init
  <2>. QED BY <2>1, <2>2, <2>3, <2>4, <2>5, Zenon DEF TypeOK
<1>. QED BY <1>1, TypeStep, PTL DEF Spec

(* What TypeOK says of the words, for the proofs below.                    *)
LEMMA Typed ==
  ASSUME TypeOK
  PROVE  /\ reg \in [creset : BOOLEAN, div : Word, irqen : BOOLEAN, width : Word, period : Word]
         /\ {enable, running, irq, outp, ilat, imask, ipend} \subseteq BOOLEAN
         /\ {prescaler, counter, period, width} \subseteq Word
         /\ todo \in Seq(Store) /\ {g_count, ticks} \subseteq Word
         /\ stale \in [n : 0 .. 3, begun : BOOLEAN, over : BOOLEAN]
BY Zenon DEF TypeOK, Store

-----------------------------------------------------------------------------
(* An interrupt is pending, and none latched behind it, as long as the     *)
(* handler runs.                                                           *)
HandlerHolds == isr # "off" => ipend /\ ~ilat

(* The interrupt that waits is the one in the controller, and it alone may *)
(* not be counted yet.                                                     *)
Waiting ==
  /\ waits <=> ilat \/ ipend
  /\ ticks = IF waits /\ isr # "counted" THEN Next16(g_count) ELSE g_count

(* Every step keeps the account of ticks.                                  *)
LEMMA TickAccountStep ==
  TypeOK /\ HandlerHolds /\ Waiting /\ [Next]_vars => HandlerHolds' /\ Waiting'
<1> SUFFICES ASSUME TypeOK, HandlerHolds, Waiting, [Next]_vars
             PROVE  HandlerHolds' /\ Waiting'
  OBVIOUS
<1>0. /\ {irq, ilat, imask, ipend, waits} \subseteq BOOLEAN
      /\ isr \in {"off", "entered", "counted"}
  BY DEF TypeOK
<1>1. ASSUME NEW w, NEW ack, NEW returns, NEW counts, Hardware(w, ack), Remember(w, returns, counts)
      PROVE  /\ ilat' = ((ilat \/ irq) /\ ~ipend)
             /\ ipend' = IF ack THEN FALSE ELSE (ipend \/ (ilat /\ imask))
             /\ waits' = ((waits \/ irq) /\ (isr' = "off" => isr = "off"))
             /\ ticks' = IF irq /\ ~waits THEN Next16(ticks) ELSE ticks
  BY <1>1 DEF Hardware, irq_mask, Remember
<1>2. CASE Stall \/ Call \/ Access
  <2>1. /\ \E w, returns, counts : Hardware(w, FALSE) /\ Remember(w, returns, counts)
        /\ isr' = isr /\ g_count' = g_count
    BY <1>2 DEF Stall, Call, Access
  <2>2. /\ ilat' = ((ilat \/ irq) /\ ~ipend)
        /\ ipend' = (ipend \/ (ilat /\ imask))
        /\ waits' = (waits \/ irq)
        /\ ticks' = IF irq /\ ~waits THEN Next16(ticks) ELSE ticks
    BY <1>0, <1>1, <2>1
  <2>. QED BY <1>0, <2>1, <2>2 DEF HandlerHolds, Waiting
<1>3. CASE irq_timer_handler
  <2>1. CASE /\ isr = "off" /\ ipend /\ isr' = "entered"
             /\ Hardware(None, FALSE) /\ Remember(None, FALSE, FALSE) /\ UNCHANGED g_count
    <3>1. /\ ilat' = FALSE /\ ipend' = TRUE /\ waits' = TRUE /\ ticks' = ticks
      BY <2>1, <1>0, <1>1 DEF Waiting
    <3>. QED BY <2>1, <3>1, <1>0 DEF HandlerHolds, Waiting
  <2>2. CASE /\ isr = "entered" /\ isr' = "counted" /\ g_count' = Next16(g_count)
             /\ Hardware(None, FALSE) /\ Remember(None, FALSE, TRUE)
    <3>1. /\ ilat' = FALSE /\ ipend' = TRUE /\ waits' = TRUE /\ ticks' = ticks
      BY <2>2, <1>0, <1>1 DEF HandlerHolds, Waiting
    <3>. QED BY <2>2, <3>1, <1>0 DEF HandlerHolds, Waiting
  <2>3. CASE /\ isr = "counted" /\ isr' = "off" /\ UNCHANGED g_count
             /\ Hardware(None, TRUE) /\ Remember(None, FALSE, FALSE)
    <3>1. /\ ilat' = FALSE /\ ipend' = FALSE /\ waits' = FALSE /\ ticks' = ticks
      BY <2>3, <1>0, <1>1 DEF HandlerHolds, Waiting
    <3>. QED BY <2>3, <3>1, <1>0 DEF HandlerHolds, Waiting
  <2>. QED BY <1>3, <2>1, <2>2, <2>3 DEF irq_timer_handler
<1>4. CASE UNCHANGED vars
  BY <1>4 DEF HandlerHolds, Waiting, vars, hwvars
<1>. QED BY <1>2, <1>3, <1>4 DEF Next

(* A tick is counted, and once, unless another one waits when it is raised:*)
(* the handler counts before it clears the pending bit, which lets the     *)
(* controller latch the next one.                                          *)
THEOREM TickAccountCorrect == Spec => []TickAccount
<1>1. Init => HandlerHolds /\ Waiting
  BY DEF Init, HandlerHolds, Waiting
<1>2. Waiting => TickAccount
  BY DEF Waiting, TickAccount
<1>. QED BY <1>1, <1>2, TypeCorrect, TickAccountStep, PTL DEF Spec

-----------------------------------------------------------------------------
(* The prescaler may only be past its divider in a call that is about to   *)
(* restart it.                                                             *)
RestartDue == todo # <<>> /\ todo[Len(todo)].to = "START" /\ reg.creset
Prescaled == Shape(todo) /\ (prescaler <= reg.div \/ RestartDue)

(* A clock without a new divider keeps the prescaler below it.             *)
LEMMA ClockDivided ==
  ASSUME TypeOK, NEW w, NEW ack, Hardware(w, ack), w.to # "CONFIG"
  PROVE  /\ reg.creset' = reg.creset
         /\ prescaler <= reg.div \/ (reg.creset /\ w.to = "START") => prescaler' <= reg.div'
<1>1. /\ prescaler \in Word /\ reg.div \in Word /\ reg.creset \in BOOLEAN
  BY Typed
<1>2. /\ reg'.creset = reg.creset /\ reg'.div = reg.div
      /\ prescaler' = IF (reg.creset /\ w.to = "START") \/ prescaler = reg.div THEN 0
                      ELSE Next16(prescaler)
  BY <1>1 DEF Hardware, registers, tmr_core, clkdiv
<1>. QED BY <1>1, <1>2, TimerAssumption DEF Word, Next16

(* Every step keeps it there, or a restart is still in the call.           *)
LEMMA PrescaledStep == TypeOK /\ Prescaled /\ [Next]_vars => Prescaled'
<1> SUFFICES ASSUME TypeOK, Prescaled, [Next]_vars PROVE Prescaled'
  OBVIOUS
<1>0. todo \in Seq(Store)
  BY Typed
<1>n. None.to # "CONFIG" /\ None.to # "START"
  BY DEF None, At
<1>1. ASSUME NEW ack, Hardware(None, ack), todo' = todo PROVE Prescaled'
  <2>1. reg.creset' = reg.creset /\ (prescaler <= reg.div => prescaler' <= reg.div')
    BY <1>1, <1>n, ClockDivided
  <2>. QED BY <1>1, <2>1 DEF Prescaled, RestartDue
<1>2. CASE Stall \/ irq_timer_handler
  <2>1. (Hardware(None, FALSE) \/ Hardware(None, TRUE)) /\ todo' = todo
    BY <1>2 DEF Stall, irq_timer_handler
  <2>. QED BY <1>1, <2>1
<1>3. CASE Call
  <2>1. prescaler <= reg.div
    BY <1>3 DEF Call, Prescaled, RestartDue
  <2>2. prescaler' <= reg.div'
    BY <1>3, <1>n, <2>1, ClockDivided DEF Call
  <2>3. Shape(todo')
    BY <1>3, CallShape, Zenon DEF Call
  <2>. QED BY <2>2, <2>3 DEF Prescaled, Shape
<1>4. CASE Access
  <2>1. todo # <<>> /\ todo' = Tail(todo) /\ Hardware(Head(todo), FALSE)
    BY <1>4 DEF Access
  <2>2. /\ todo' \in Seq(Store) /\ Shape(todo)' /\ Head(todo) = todo[1] /\ Len(todo') = Len(todo) - 1
        /\ \A i \in 1 .. Len(todo) - 1 : todo'[i] = todo[i + 1]
    <3>1. Shape(Tail(todo))
      BY <1>0, <2>1, TailShape DEF Prescaled
    <3>2. Shape(todo)'
      BY <2>1, <3>1 DEF Shape
    <3>. QED BY <1>0, <2>1, <3>2, TailShape DEF Prescaled
  <2>3. Len(todo) # 1 => todo' # <<>> /\ todo'[Len(todo')] = todo[Len(todo)]
    <3>1. Len(todo) \in Nat \ {0}
      BY <1>0, <2>1
    <3>2. Len(todo) # 1 => Len(todo') \in 1 .. Len(todo) - 1
      BY <2>2, <3>1
    <3>. QED BY <2>2, <3>1, <3>2
  <2>4. CASE Head(todo).to = "CONFIG"
    <3>1. 1 \in 1 .. Len(todo) /\ todo[1].to = "CONFIG"
      BY <1>0, <2>1, <2>2, <2>4
    <3>2. 1 < Len(todo) /\ todo[Len(todo)].to = "START"
      BY <3>1 DEF Prescaled, Shape
    <3>3. reg'.creset
      BY <2>1, <2>4 DEF Hardware, registers
    <3>. QED BY <2>2, <2>3, <3>2, <3>3 DEF Prescaled, RestartDue
  <2>5. CASE Head(todo).to # "CONFIG"
    <3>1. /\ reg.creset' = reg.creset
          /\ prescaler <= reg.div \/ (reg.creset /\ Head(todo).to = "START")
               => prescaler' <= reg.div'
      BY <2>1, <2>5, ClockDivided
    <3>2. CASE RestartDue /\ Head(todo).to # "START"
      <4>1. Len(todo) # 1
        BY <2>2, <3>2 DEF RestartDue
      <4>. QED BY <2>2, <2>3, <3>1, <3>2, <4>1 DEF Prescaled, RestartDue
    <3>3. CASE ~RestartDue \/ Head(todo).to = "START"
      BY <2>2, <3>1, <3>3 DEF Prescaled, RestartDue
    <3>. QED BY <3>2, <3>3
  <2>. QED BY <2>4, <2>5
<1>5. CASE UNCHANGED vars
  BY <1>5 DEF Prescaled, RestartDue, Shape, vars, hwvars
<1>. QED BY <1>2, <1>3, <1>4, <1>5 DEF Next

(* systimer_init never leaves a prescaler running past its divider: the    *)
(* start it ends with resets the prescaler the divider was lowered under.  *)
THEOREM NoRunawayCorrect == Spec => []NoRunaway
<1>1. Init => Prescaled
  BY Numbers DEF Init, Prescaled, Shape
<1>2. Prescaled => NoRunaway
  BY DEF Prescaled, RestartDue, NoRunaway
<1>. QED BY <1>1, <1>2, TypeCorrect, PrescaledStep, PTL DEF Spec

-----------------------------------------------------------------------------
(* The registers hold a pair of equal values but between the two stores.   *)
Paired ==
  /\ Shape(todo)
  /\ IF todo # <<>> /\ todo[1].to = "PERIOD" THEN reg.width = todo[1].v
     ELSE reg.width = reg.period

(* The pair of registers changes by its own stores only.                   *)
LEMMA RegistersClock ==
  ASSUME NEW w, NEW ack, Hardware(w, ack)
  PROVE  /\ reg'.width = IF w.to = "WIDTH" THEN w.v ELSE reg.width
         /\ reg'.period = IF w.to = "PERIOD" THEN w.v ELSE reg.period
BY DEF Hardware, registers

(* Every step keeps the pair equal but between its two stores.             *)
LEMMA PairedStep == TypeOK /\ Paired /\ [Next]_vars => Paired'
<1> SUFFICES ASSUME TypeOK, Paired, [Next]_vars PROVE Paired'
  OBVIOUS
<1>0. todo \in Seq(Store)
  BY Typed
<1>n. None.to # "WIDTH" /\ None.to # "PERIOD"
  BY DEF None, At
<1>1. ASSUME NEW ack, Hardware(None, ack)
      PROVE  reg'.width = reg.width /\ reg'.period = reg.period
  BY <1>1, <1>n, RegistersClock
<1>2. CASE Stall \/ irq_timer_handler
  <2>1. (Hardware(None, FALSE) \/ Hardware(None, TRUE)) /\ todo' = todo
    BY <1>2 DEF Stall, irq_timer_handler
  <2>. QED BY <1>1, <2>1 DEF Paired
<1>3. CASE Call
  <2>1. todo = <<>> /\ Hardware(None, FALSE)
    BY <1>3 DEF Call
  <2>2. Shape(todo') /\ todo'[1].to # "PERIOD"
    BY <1>3, CallShape, Zenon DEF Call
  <2>3. reg'.width = reg'.period
    BY <1>1, <2>1 DEF Paired
  <2>. QED BY <2>2, <2>3 DEF Paired, Shape
<1>4. CASE Access
  <2>1. todo # <<>> /\ todo' = Tail(todo) /\ Hardware(Head(todo), FALSE)
    BY <1>4 DEF Access
  <2> DEFINE w == todo[1]
  <2>2. /\ todo' \in Seq(Store) /\ Head(todo) = w /\ Len(todo') = Len(todo) - 1
        /\ \A i \in 1 .. Len(todo) - 1 : todo'[i] = todo[i + 1]
    BY <1>0, <2>1, TailShape DEF Paired
  <2>3. Shape(todo)'
    <3>1. Shape(Tail(todo))
      BY <1>0, <2>1, TailShape DEF Paired
    <3>. QED BY <2>1, <3>1 DEF Shape
  <2>4. /\ reg'.width = IF w.to = "WIDTH" THEN w.v ELSE reg.width
        /\ reg'.period = IF w.to = "PERIOD" THEN w.v ELSE reg.period
    BY <2>1, <2>2, RegistersClock
  <2>5. Len(todo) \in Nat \ {0} /\ 1 \in 1 .. Len(todo)
    BY <1>0, <2>1
  <2>6. todo' # <<>> => Len(todo) >= 2 /\ todo'[1] = todo[2] /\ 2 \in 2 .. Len(todo)
    <3>1. todo' # <<>> => Len(todo') # 0
      BY <2>2
    <3>. QED BY <2>2, <2>5, <3>1
  <2>7. todo' # <<>> /\ todo'[1].to = "PERIOD" => w.to = "WIDTH"
    <3>1. todo' # <<>> /\ todo'[1].to = "PERIOD" => todo[2 - 1].to = "WIDTH"
      BY <2>6 DEF Paired, Shape
    <3>. QED BY <3>1
  <2>8. w.to = "WIDTH" => todo' # <<>> /\ todo'[1].to = "PERIOD" /\ todo'[1].v = w.v
    <3>1. w.to = "WIDTH" => 1 < Len(todo) /\ todo[1 + 1].to = "PERIOD" /\ todo[1 + 1].v = w.v
      BY <2>5 DEF Paired, Shape
    <3>. QED BY <2>2, <2>5, <2>6, <3>1
  <2>9. CASE w.to = "WIDTH"
    BY <2>3, <2>4, <2>8, <2>9 DEF Paired
  <2>10. CASE w.to = "PERIOD"
    <3>1. reg.width = w.v /\ ~(todo' # <<>> /\ todo'[1].to = "PERIOD")
      BY <2>1, <2>7, <2>10 DEF Paired
    <3>. QED BY <2>3, <2>4, <2>10, <3>1 DEF Paired
  <2>11. CASE w.to # "WIDTH" /\ w.to # "PERIOD"
    <3>1. reg.width = reg.period /\ ~(todo' # <<>> /\ todo'[1].to = "PERIOD")
      BY <2>7, <2>11 DEF Paired
    <3>. QED BY <2>3, <2>4, <2>11, <3>1 DEF Paired
  <2>. QED BY <2>9, <2>10, <2>11
<1>5. CASE UNCHANGED vars
  BY <1>5 DEF Paired, Shape, vars, hwvars
<1>. QED BY <1>2, <1>3, <1>4, <1>5 DEF Next

(* A clock without an access, once the pair in the registers is equal.     *)
LEMMA PairClock ==
  ASSUME TypeOK, NEW w, NEW ack, NEW counts, Hardware(w, ack), Remember(w, FALSE, counts),
         reg.width = reg.period, w.to # "WIDTH", w.to # "PERIOD",
         stale.begun => ~outp /\ period = reg.period /\ width = reg.width,
         stale'.begun
  PROVE  ~outp' /\ period' = reg'.period /\ width' = reg'.width
<1>1. /\ reg'.width = reg.width /\ reg'.period = reg.period
      /\ pwm_core
      /\ stale.begun \/ PeriodEnds \/ (clken /\ ~running /\ enable)
  BY RegistersClock DEF Hardware, Remember
<1>2. {running, outp} \subseteq BOOLEAN
  BY Typed
<1>3. CASE ~clken
  BY <1>1, <1>2, <1>3 DEF pwm_core, PeriodEnds
<1>4. CASE clken /\ (PeriodEnds \/ (~running /\ enable))
  <2>1. ~running \/ PeriodEnds
    BY <1>4
  <2>2. Load /\ outp' = FALSE
    BY <1>1, <1>4, <2>1 DEF pwm_core, PeriodEnds
  <2>. QED BY <1>1, <2>2 DEF Load
<1>5. CASE clken /\ ~running /\ ~enable
  <2>1. outp' = FALSE /\ UNCHANGED <<period, width>> /\ stale.begun
    BY <1>1, <1>5 DEF pwm_core, PeriodEnds
  <2>. QED BY <1>1, <2>1
<1>6. CASE clken /\ running /\ ~PeriodEnds
  <2>1. stale.begun /\ counter # period
    BY <1>1, <1>6 DEF PeriodEnds
  <2>2. UNCHANGED <<period, width>> /\ outp' = (outp \/ counter = width)
    BY <1>1, <1>6 DEF pwm_core
  <2>. QED BY <1>1, <2>1, <2>2
<1>. QED BY <1>2, <1>3, <1>4, <1>5, <1>6

(* Every step keeps the buffered pair equal to the one asked for.          *)
LEMMA PairSettlesStep ==
  TypeOK /\ Paired /\ PairSettles /\ [Next]_vars => PairSettles'
<1> SUFFICES ASSUME TypeOK, Paired, PairSettles, [Next]_vars, (todo = <<>>)', (stale.begun)'
             PROVE  ~outp' /\ period' = reg'.period /\ width' = reg'.width
  BY DEF PairSettles
<1>1. CASE Stall \/ irq_timer_handler
  <2>1. /\ todo = <<>>
        /\ Hardware(None, FALSE) \/ Hardware(None, TRUE)
        /\ Remember(None, FALSE, FALSE) \/ Remember(None, FALSE, TRUE)
    BY <1>1 DEF Stall, irq_timer_handler
  <2>2. None.to # "WIDTH" /\ None.to # "PERIOD" /\ reg.width = reg.period
    BY <2>1 DEF None, At, Paired
  <2>3. stale.begun => ~outp /\ period = reg.period /\ width = reg.width
    BY <2>1 DEF PairSettles
  <2>. QED BY <2>1, <2>2, <2>3, PairClock
<1>2. CASE Call
  <2>1. todo' # <<>>
    BY <1>2, CallShape, Zenon DEF Call
  <2>. QED BY <2>1
<1>3. CASE Access
  <2>1. (stale').begun = FALSE
    BY <1>3 DEF Access, Remember
  <2>. QED BY <2>1
<1>4. CASE UNCHANGED vars
  BY <1>4 DEF PairSettles, vars, hwvars
<1>. QED BY <1>1, <1>2, <1>3, <1>4 DEF Next

(* The two stores of a pair never leave the output pulsed for longer than  *)
(* the period they came in.                                                *)
THEOREM PairSettlesCorrect == Spec => []PairSettles
<1>1. Init => Paired /\ PairSettles
  BY DEF Init, Paired, PairSettles, Shape
<1>. QED BY <1>1, TypeCorrect, PairedStep, PairSettlesStep, PTL DEF Spec

-----------------------------------------------------------------------------
(* A tick not yet counted: at most one is on its way, from the unit's      *)
(* output over the latch and the pending bit to the handler.               *)
OnItsWay == ilat \/ (ipend /\ isr # "counted") \/ (irq /\ ~ilat /\ ~ipend)

(* What a call that returned may still see counted before a period begun   *)
(* after it is over: the tick on its way, and the period under way.        *)
Few ==
  ~stale.over =>
    stale.n + (IF OnItsWay THEN 1 ELSE 0) + (IF stale.begun THEN 0 ELSE 1) <= 2

(* A clock keeps the number of stale ticks, whatever the handler does in it.*)
LEMMA FewClock ==
  ASSUME TypeOK, HandlerHolds, Few,
         NEW w, NEW ack \in BOOLEAN, NEW returns \in BOOLEAN, NEW counts \in BOOLEAN,
         Hardware(w, ack), Remember(w, returns, counts),
         \/ ~ack /\ ~counts /\ (isr' = isr \/ (isr = "off" /\ ipend /\ isr' = "entered"))
         \/ ~ack /\ counts /\ isr = "entered" /\ isr' = "counted"
         \/ ack /\ ~counts /\ isr = "counted" /\ isr' = "off"
  PROVE  Few'
<1>1. /\ irq' = (PeriodEnds /\ reg.irqen)
      /\ ilat' = ((ilat \/ irq) /\ ~ipend)
      /\ ipend' = IF ack THEN FALSE ELSE (ipend \/ (ilat /\ imask))
  BY DEF Hardware, pwm_core, irq_mask
<1>2. /\ {irq, ilat, ipend, imask} \subseteq BOOLEAN /\ reg.irqen \in BOOLEAN
      /\ stale.n \in 0 .. 3 /\ stale.begun \in BOOLEAN /\ stale.over \in BOOLEAN
      /\ isr \in {"off", "entered", "counted"}
  <2>1. stale \in [n : 0 .. 3, begun : BOOLEAN, over : BOOLEAN]
    BY Typed
  <2>. QED BY <2>1, Typed DEF TypeOK
<1>3. CASE returns
  <2>1. stale'.n = 0 /\ stale'.begun = FALSE
    BY <1>3 DEF Remember
  <2>. QED BY <2>1 DEF Few
<1>4. CASE ~returns
  <2>1. /\ stale'.n = IF counts /\ stale.n < 3 THEN stale.n + 1 ELSE stale.n
        /\ stale'.begun = (stale.begun \/ PeriodEnds \/ (clken /\ ~running /\ enable))
        /\ stale'.over = (stale.over \/ (stale.begun /\ PeriodEnds))
    BY <1>4 DEF Remember
  <2>2. CASE counts
    <3>1. OnItsWay /\ ~OnItsWay'
      BY <1>1, <1>2, <2>2 DEF OnItsWay, HandlerHolds
    <3>2. stale'.n <= stale.n + 1
      BY <2>1, <1>2
    <3>3. stale.begun => stale'.begun
      BY <2>1, <1>2
    <3>4. ~stale'.over => ~stale.over
      BY <2>1, <1>2
    <3>5. stale'.n \in Int
      BY <2>1, <1>2
    <3>. QED BY <1>2, <3>1, <3>2, <3>3, <3>4, <3>5 DEF Few
  <2>3. CASE ~counts /\ ~PeriodEnds
    <3>1. OnItsWay' => OnItsWay
      BY <1>1, <1>2, <2>3 DEF OnItsWay, HandlerHolds
    <3>2. /\ stale'.n = stale.n /\ (stale.begun => stale'.begun)
          /\ (~stale'.over => ~stale.over)
      BY <2>1, <1>2, <2>3
    <3>. QED BY <1>2, <3>1, <3>2 DEF Few
  <2>4. CASE ~counts /\ PeriodEnds
    <3>1. /\ stale'.n = stale.n /\ stale'.begun
          /\ ~stale'.over => ~stale.over /\ ~stale.begun
      BY <2>1, <1>2, <2>4
    <3>. QED BY <1>2, <3>1 DEF Few
  <2>. QED BY <2>2, <2>3, <2>4
<1>. QED BY <1>3, <1>4

(* Every step keeps the number of stale ticks.                             *)
LEMMA FewStep == TypeOK /\ HandlerHolds /\ Few /\ [Next]_vars => Few'
<1> SUFFICES ASSUME TypeOK, HandlerHolds, Few, [Next]_vars PROVE Few'
  OBVIOUS
<1>1. CASE Stall \/ Call
  <2>1. Hardware(None, FALSE) /\ Remember(None, FALSE, FALSE) /\ isr' = isr
    BY <1>1 DEF Stall, Call
  <2>. QED BY <2>1, FewClock
<1>2. CASE Access
  <2>1. /\ Hardware(Head(todo), FALSE) /\ Remember(Head(todo), todo' = <<>>, FALSE)
        /\ isr' = isr /\ (todo' = <<>>) \in BOOLEAN
    BY <1>2 DEF Access
  <2>. QED BY <2>1, FewClock
<1>3. CASE irq_timer_handler
  <2>1. CASE /\ isr = "off" /\ ipend /\ isr' = "entered"
             /\ Hardware(None, FALSE) /\ Remember(None, FALSE, FALSE)
    BY <2>1, FewClock
  <2>2. CASE /\ isr = "entered" /\ isr' = "counted"
             /\ Hardware(None, FALSE) /\ Remember(None, FALSE, TRUE)
    BY <2>2, FewClock
  <2>3. CASE /\ isr = "counted" /\ isr' = "off"
             /\ Hardware(None, TRUE) /\ Remember(None, FALSE, FALSE)
    BY <2>3, FewClock
  <2>. QED BY <1>3, <2>1, <2>2, <2>3 DEF irq_timer_handler
<1>4. CASE UNCHANGED vars
  BY <1>4 DEF Few, OnItsWay, vars, hwvars
<1>. QED BY <1>1, <1>2, <1>3, <1>4 DEF Next

(* The third tick counted after a call returned ends a period begun after  *)
(* it: two may stem from before.                                           *)
THEOREM StaleTicksCorrect == Spec => []StaleTicks
<1>1. Init => HandlerHolds /\ Waiting /\ Few
  BY DEF Init, HandlerHolds, Waiting, Few, OnItsWay
<1>2. TypeOK /\ Few => StaleTicks
  <2> SUFFICES ASSUME TypeOK, Few, stale.n = 3, ~stale.over PROVE FALSE
    BY DEF StaleTicks
  <2>. QED BY DEF Few
<1>. QED BY <1>1, <1>2, TypeCorrect, TickAccountStep, FewStep, PTL DEF Spec
-----------------------------------------------------------------------------
(* The clocks since the last interrupt: as many prescaled ones as were     *)
(* counted, and those of the one under way.                                *)
Elapsed == counter * (reg.div + 1) + IF prescaler = 0 THEN reg.div + 1 ELSE prescaler

Spaced ==
  /\ counter <= period
  /\ since # 0 => reg.irqen /\ running /\ prescaler <= reg.div /\ since = Elapsed

(* One more of n times d.                                                  *)
LEMMA OneMore ==
  ASSUME NEW n \in Nat, NEW d \in Nat
  PROVE  n * d \in Nat /\ (n + 1) * d = n * d + d
OBVIOUS

(* A clock of the prescaler, which a start may cut.                        *)
LEMMA PrescalerClock ==
  ASSUME TypeOK, prescaler <= reg.div, NEW w, NEW ack, Hardware(w, ack), w.to # "CONFIG"
  PROVE  /\ reg'.div = reg.div /\ prescaler' \in Word /\ prescaler' <= reg.div
         /\ (IF prescaler' = 0 THEN reg.div + 1 ELSE prescaler') = prescaler + 1 + Cut(w)
<1>1. prescaler \in Word /\ reg.div \in Word /\ Wrap \in Nat /\ Wrap >= 2
  BY Typed, TimerAssumption
<1>2. /\ reg'.div = reg.div
      /\ prescaler' = IF (reg.creset /\ w.to = "START") \/ prescaler = reg.div THEN 0
                      ELSE Next16(prescaler)
  BY DEF Hardware, registers, tmr_core, clkdiv
<1>3. CASE reg.creset /\ w.to = "START"
  <2>1. prescaler' = 0 /\ Cut(w) = reg.div - prescaler
    BY <1>2, <1>3 DEF Cut
  <2>. QED BY <1>1, <1>2, <2>1 DEF Word
<1>4. CASE ~(reg.creset /\ w.to = "START")
  <2>1. Cut(w) = 0
    BY <1>4 DEF Cut
  <2>2. prescaler' = IF prescaler = reg.div THEN 0 ELSE prescaler + 1
    BY <1>1, <1>2, <1>4 DEF Next16, Word
  <2>. QED BY <1>1, <1>2, <2>1, <2>2 DEF Word
<1>. QED BY <1>3, <1>4

(* The clock of the prescaler at which the unit counts, and others.        *)
LEMMA ElapsedClock ==
  ASSUME TypeOK, Spaced, NEW w, NEW ack, Hardware(w, ack), since # 0, ~irq', w.to # "CONFIG"
  PROVE  running' /\ prescaler' <= reg'.div /\ Elapsed' = Elapsed + 1 + Cut(w)
<1>1. /\ {prescaler, prescaler', counter, period} \subseteq Word /\ reg.div \in Word
      /\ reg.irqen /\ running /\ counter <= period /\ prescaler <= reg.div
      /\ Wrap \in Nat /\ Wrap >= 2
  BY Typed, TimerAssumption, PrescalerClock DEF Spaced
<1>2. PICK d \in Nat : d = reg.div + 1
  BY <1>1 DEF Word
<1>3. PICK x \in Int : x = IF prescaler' = 0 THEN d ELSE prescaler'
  BY <1>1, <1>2 DEF Word
<1>4. reg'.div + 1 = d /\ prescaler' <= reg'.div /\ x = prescaler + 1 + Cut(w)
  BY <1>1, <1>2, <1>3, PrescalerClock
<1>5. Cut(w) \in Int
  BY <1>1 DEF Cut, Word
<1>6. ~PeriodEnds
  BY <1>1 DEF Hardware, pwm_core
<1>7. Elapsed' = counter' * d + x
  BY <1>3, <1>4 DEF Elapsed
<1>8. CASE prescaler # 0
  <2>1. counter' = counter /\ running' = running
    BY <1>8 DEF Hardware, pwm_core, clken
  <2>2. Elapsed = counter * d + prescaler
    BY <1>2, <1>8 DEF Elapsed
  <2>3. PICK y \in Nat : y = counter * d
    BY <1>1, <1>2, OneMore DEF Word
  <2>4. Elapsed' = y + x /\ Elapsed = y + prescaler
    BY <1>7, <2>1, <2>2, <2>3
  <2>. QED BY ONLY <1>1, <1>4, <1>5, <2>1, <2>3, <2>4, x \in Int DEF Word
<1>9. CASE prescaler = 0
  <2>1. counter' = Next16(counter) /\ running' = running
    BY <1>1, <1>6, <1>9 DEF Hardware, pwm_core, clken
  <2>2. counter # period
    BY <1>1, <1>6, <1>9 DEF PeriodEnds, clken
  <2>3. counter' = counter + 1
    BY <1>1, <2>1, <2>2 DEF Next16, Word
  <2>4. PICK y \in Nat : y = counter * d
    BY <1>1, <1>2, OneMore DEF Word
  <2>5. counter' * d = y + d
    BY <1>1, <1>2, <2>3, <2>4, OneMore DEF Word
  <2>6. Elapsed' = y + d + x /\ Elapsed = y + d
    BY <1>2, <1>7, <1>9, <2>4, <2>5 DEF Elapsed
  <2>. QED BY ONLY <1>1, <1>4, <1>5, <1>9, <2>1, <2>4, <2>6, d \in Nat, x \in Int DEF Word
<1>. QED BY <1>8, <1>9

(* The count stays within the period, which is loaded with a count of zero.*)
LEMMA CountClock ==
  ASSUME TypeOK, counter <= period, NEW w, NEW ack, Hardware(w, ack)
  PROVE  counter' <= period'
<1>1. {counter, period} \subseteq Word /\ reg.period \in Word
  BY Typed
<1>2. pwm_core
  BY DEF Hardware
<1>3. CASE ~clken
  BY <1>2, <1>3 DEF pwm_core
<1>4. CASE clken /\ (~running \/ PeriodEnds)
  BY <1>1, <1>2, <1>4 DEF pwm_core, Load, Word
<1>5. CASE clken /\ ~(~running \/ PeriodEnds)
  <2>1. counter' = Next16(counter) /\ period' = period /\ counter # period
    BY <1>2, <1>5 DEF pwm_core, PeriodEnds
  <2>2. QED
    BY <1>1, <2>1, TimerAssumption DEF Next16, Word
<1>6. QED
  BY <1>3, <1>4, <1>5

(* Every clock keeps the account of clocks, and one with an interrupt ends *)
(* the period.                                                             *)
LEMMA SpacedClock ==
  ASSUME TypeOK, Spaced, NEW w, NEW ack, NEW returns, NEW counts,
         Hardware(w, ack), Remember(w, returns, counts)
  PROVE  Spaced' /\ (since # 0 /\ irq' => since = (period + 1) * (reg.div + 1))
<1>1. /\ {prescaler, counter, period} \subseteq Word /\ reg.div \in Word
      /\ reg.irqen \in BOOLEAN /\ running \in BOOLEAN /\ enable \in BOOLEAN
      /\ since \in Int
  BY Typed DEF TypeOK
<1>2. /\ since' = IF w.to = "CONFIG" \/ (irq' /\ ~enable) THEN 0
                  ELSE IF irq' THEN 1 + Cut(w)
                  ELSE IF since # 0 THEN since + 1 + Cut(w) ELSE 0
      /\ irq' = (PeriodEnds /\ reg.irqen)
      /\ reg'.irqen = (reg.irqen \/ w.to = "PWM_CONFIG")
  BY DEF Remember, Hardware, registers, pwm_core
<1>3. counter' <= period'
  BY CountClock DEF Spaced
<1>4. ASSUME since' # 0
      PROVE  reg'.irqen /\ running' /\ prescaler' <= reg'.div /\ since' = Elapsed'
  <2>0. w.to # "CONFIG"
    BY <1>2, <1>4
  <2>1. CASE irq'
    <3>1. PeriodEnds /\ clken /\ prescaler = 0 /\ since' = 1 + Cut(w) /\ enable /\ reg'.irqen
      BY <1>1, <1>2, <1>4, <2>1 DEF PeriodEnds, clken
    <3>2. counter' = 0 /\ running'
      BY <3>1 DEF Hardware, pwm_core
    <3>3. /\ reg'.div = reg.div /\ prescaler' <= reg'.div
          /\ (IF prescaler' = 0 THEN reg.div + 1 ELSE prescaler') = 0 + 1 + Cut(w)
      BY <1>1, <2>0, <3>1, PrescalerClock DEF Word
    <3>4. 0 * (reg'.div + 1) = 0
      BY <1>1, <3>3 DEF Word
    <3>5. Cut(w) \in Int
      BY <1>1 DEF Cut, Word
    <3>6. Elapsed' = 0 + (IF prescaler' = 0 THEN reg.div + 1 ELSE prescaler')
      BY <3>2, <3>3, <3>4 DEF Elapsed
    <3>. QED BY <3>1, <3>2, <3>3, <3>5, <3>6
  <2>2. CASE ~irq'
    <3>1. since # 0 /\ since' = since + 1 + Cut(w)
      BY <1>1, <1>2, <1>4, <2>2
    <3>2. running' /\ prescaler' <= reg'.div /\ Elapsed' = Elapsed + 1 + Cut(w)
      BY <2>0, <2>2, <3>1, ElapsedClock
    <3>. QED BY <1>2, <3>1, <3>2 DEF Spaced
  <2>. QED BY <2>1, <2>2
<1>5. ASSUME since # 0, irq' PROVE since = (period + 1) * (reg.div + 1)
  <2>1. prescaler = 0 /\ counter = period
    BY <1>2, <1>5 DEF PeriodEnds, clken
  <2>2. since = period * (reg.div + 1) + (reg.div + 1)
    BY <1>5, <2>1 DEF Spaced, Elapsed
  <2>. QED BY <1>1, <2>2, OneMore DEF Word
<1>. QED BY <1>3, <1>4, <1>5 DEF Spaced

(* Every step is such a clock.                                             *)
LEMMA SpacedStep ==
  TypeOK /\ Spaced /\ [Next]_vars =>
    /\ Spaced'
    /\ [since # 0 /\ irq' => since = (period + 1) * (reg.div + 1)]_vars
<1> SUFFICES ASSUME TypeOK, Spaced, [Next]_vars
             PROVE  /\ Spaced'
                    /\ vars' = vars \/ (since # 0 /\ irq' => since = (period + 1) * (reg.div + 1))
  OBVIOUS
<1>1. CASE Next
  <2>1. PICK w, ack, returns, counts : Hardware(w, ack) /\ Remember(w, returns, counts)
    BY <1>1, Zenon DEF Next, Stall, Call, Access, irq_timer_handler
  <2>2. QED
    BY <2>1, SpacedClock
<1>2. CASE UNCHANGED vars
  BY <1>2 DEF Spaced, Elapsed, vars, hwvars
<1>3. QED
  BY <1>1, <1>2

(* Interrupts come the loaded period apart, in prescaled clocks but for    *)
(* what starts cut off, whatever pair is stored and however often the unit *)
(* is stopped and started within the period, for every divider and width.  *)
THEOREM TickSpacingCorrect == Spec => TickSpacing
<1>1. Init => Spaced
  BY DEF Init, Spaced
<1>2. QED
  BY <1>1, TypeCorrect, SpacedStep, PTL DEF Spec, TickSpacing
=============================================================================
