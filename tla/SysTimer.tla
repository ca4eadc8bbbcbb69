------------------------------- MODULE SysTimer -----------------------------
(***************************************************************************)
(* The system timer: prescaler and start register (perio/tmr.vhdl), the    *)
(* unit that counts periods (perio/pwm.vhdl), its bit of the interrupt     *)
(* controller (perio/sic.vhdl), and the software on it (sw/timer.c,        *)
(* sw/pwm.c).  A step is one clock, in which the CPU makes one register    *)
(* access or none: a program or a handler may stall anywhere.              *)
(***************************************************************************)
EXTENDS Integers, Sequences

CONSTANTS
  Wrap,   \* 2^16: counters and registers are that wide
  Div,    \* dividers systimer_init computes
  Pulse   \* bound: periods asked for, in prescaled clocks

ASSUME TimerAssumption ==
  /\ Wrap \in Nat \ {0, 1}
  /\ Div \subseteq 0 .. Wrap - 1
  /\ Pulse \subseteq 1 .. Wrap

VARIABLES
  reg,       \* registers TIMER_CONFIG (creset, div) and PWM_* (irqen, width, period)
  enable, prescaler,                 \* tmr_core
  running, counter, period, width,   \* pwm_core: state, counter and the buffered pair
  irq, outp,                         \*   and its outputs
  ilat, imask, ipend,                \* the timer's bit of the SIC
  todo,      \* the accesses the program still has to make in its call
  isr,       \* irq_timer_handler: "off", "entered", "counted"
  g_count,   \* modulo Wrap
  waits,     \* history: no handler has returned since an interrupt was raised
  ticks,     \* history: interrupts raised while none waited, modulo Wrap
  since,     \* history: clocks since the last interrupt and those cut off since;
             \*   0 if the unit stopped with it or the divider was written since
  stale      \* history: ticks counted since a call returned and before a period
             \*   that was begun after it has ended; at most 3

hwvars == <<reg, enable, prescaler, running, counter, period, width, irq, outp>>
vars == <<hwvars, ilat, imask, ipend, todo, isr, g_count, waits, ticks, since, stale>>

Word == 0 .. Wrap - 1
Next16(x) == IF x = Wrap - 1 THEN 0 ELSE x + 1    \* (x + 1) % Wrap

TypeOK ==
  /\ reg \in [creset : BOOLEAN, div : Word, irqen : BOOLEAN, width : Word, period : Word]
  /\ {enable, running, irq, outp, ilat, imask, ipend, waits} \subseteq BOOLEAN
  /\ {prescaler, counter, period, width} \subseteq Word
  /\ todo \in Seq([to : {"CONFIG", "IMASK", "PWM_CONFIG", "WIDTH", "PERIOD",
                         "START", "STOP", "GET"}, v : Word])
  /\ isr \in {"off", "entered", "counted"}
  /\ {g_count, ticks} \subseteq Word
  /\ since \in Int
  /\ stale \in [n : 0 .. 3, begun : BOOLEAN, over : BOOLEAN]

Init ==
  /\ reg = [creset |-> FALSE, div |-> 0, irqen |-> FALSE, width |-> 0, period |-> 0]
  /\ enable = FALSE /\ prescaler = 0
  /\ running = FALSE /\ counter = 0 /\ period = 0 /\ width = 0
  /\ irq = FALSE /\ outp = FALSE
  /\ ilat = FALSE /\ imask = FALSE /\ ipend = FALSE
  /\ todo = <<>> /\ isr = "off" /\ g_count = 0
  /\ waits = FALSE /\ ticks = 0 /\ since = 0
  /\ stale = [n |-> 0, begun |-> FALSE, over |-> FALSE]

-----------------------------------------------------------------------------
(* The calls of the program, as the accesses they make.                    *)
At(to, v) == [to |-> to, v |-> v]

pwm_cfg(p) == <<At("PWM_CONFIG", 1), At("WIDTH", p - 1), At("PERIOD", p - 1)>>

systimer_init(d, p) ==
  <<At("CONFIG", d), At("IMASK", 1)>> \o pwm_cfg(p) \o <<At("START", 1)>>

timer_set(p) ==
  <<At("STOP", 1), At("GET", 0), At("START", 1)>> \o pwm_cfg(p)

None == At("None", 0)

-----------------------------------------------------------------------------
(* The hardware in a clock with access w.                                  *)

registers(w) ==
  reg' = [creset |-> reg.creset \/ w.to = "CONFIG",
          div    |-> IF w.to = "CONFIG" THEN w.v ELSE reg.div,
          irqen  |-> reg.irqen \/ w.to = "PWM_CONFIG",
          width  |-> IF w.to = "WIDTH" THEN w.v ELSE reg.width,
          period |-> IF w.to = "PERIOD" THEN w.v ELSE reg.period]

clken == prescaler = 0

clkdiv_NoReset(w) ==     \* a start leaves the prescaler where it is
  prescaler' = IF prescaler = reg.div THEN 0 ELSE Next16(prescaler)

clkdiv(w) ==
  prescaler' = IF (reg.creset /\ w.to = "START") \/ prescaler = reg.div THEN 0
               ELSE Next16(prescaler)

tmr_core(w) ==
  /\ enable' = IF w.to = "STOP" THEN FALSE ELSE (enable \/ w.to = "START")
  /\ clkdiv(w)

Load == period' = reg.period /\ width' = reg.width
PeriodEnds == clken /\ running /\ counter = period

pwm_core_StopAtOnce ==     \* a stop does not wait for the end of the period
  /\ irq' = (PeriodEnds /\ reg.irqen)
  /\ IF ~clken THEN UNCHANGED <<running, counter, period, width, outp>>
     ELSE IF ~running \/ PeriodEnds \/ ~enable
       THEN /\ running' = enable
            /\ counter' = 0 /\ outp' = FALSE
            /\ IF running \/ enable THEN Load ELSE UNCHANGED <<period, width>>
       ELSE /\ counter' = Next16(counter)
            /\ outp' = (outp \/ counter = width)
            /\ UNCHANGED <<running, period, width>>

pwm_core_Live ==     \* only the width is buffered
  /\ irq' = (clken /\ running /\ counter = reg.period /\ reg.irqen)
  /\ IF ~clken THEN UNCHANGED <<running, counter, period, width, outp>>
     ELSE IF ~running \/ counter = reg.period
       THEN /\ running' = enable
            /\ counter' = 0 /\ outp' = FALSE
            /\ IF running \/ enable THEN Load ELSE UNCHANGED <<period, width>>
       ELSE /\ counter' = Next16(counter)
            /\ outp' = (outp \/ counter = width)
            /\ UNCHANGED <<running, period, width>>

pwm_core_LoadsOnce ==     \* the pair is only loaded when the unit starts
  /\ irq' = (PeriodEnds /\ reg.irqen)
  /\ IF ~clken THEN UNCHANGED <<running, counter, period, width, outp>>
     ELSE IF ~running \/ PeriodEnds
       THEN /\ running' = enable
            /\ counter' = 0 /\ outp' = FALSE
            /\ IF ~running /\ enable THEN Load ELSE UNCHANGED <<period, width>>
       ELSE /\ counter' = Next16(counter)
            /\ outp' = (outp \/ counter = width)
            /\ UNCHANGED <<running, period, width>>

(* outp is relative to the default level.                                  *)
pwm_core ==
  /\ irq' = (PeriodEnds /\ reg.irqen)
  /\ IF ~clken THEN UNCHANGED <<running, counter, period, width, outp>>
     ELSE IF ~running \/ PeriodEnds
       THEN /\ running' = enable
            /\ counter' = 0 /\ outp' = FALSE
            /\ IF running \/ enable THEN Load ELSE UNCHANGED <<period, width>>
       ELSE /\ counter' = Next16(counter)
            /\ outp' = (outp \/ counter = width)
            /\ UNCHANGED <<running, period, width>>

irq_mask_KeepsLatch(ack) ==     \* ILAT goes on latching while IPEND is set
  /\ ilat' = (ilat \/ irq)
  /\ ipend' = IF ack THEN FALSE ELSE (ipend \/ (ilat /\ imask))

irq_mask(ack) ==
  /\ ilat' = ((ilat \/ irq) /\ ~ipend)
  /\ ipend' = IF ack THEN FALSE ELSE (ipend \/ (ilat /\ imask))

-----------------------------------------------------------------------------
(* History: what the hardware did in this clock, and the program (a call   *)
(* returns) or the handler (a tick is counted, the handler returns).       *)

(* Clocks a start cuts off the prescaled clock under way.                  *)
Cut(w) == IF reg.creset /\ w.to = "START" THEN reg.div - prescaler ELSE 0

Remember(w, returns, counts) ==
  /\ waits' = ((waits \/ irq) /\ (isr' = "off" => isr = "off"))
  /\ ticks' = IF irq /\ ~waits THEN Next16(ticks) ELSE ticks
  /\ since' = IF w.to = "CONFIG" \/ (irq' /\ ~enable) THEN 0
              ELSE IF irq' THEN 1 + Cut(w)
              ELSE IF since # 0 THEN since + 1 + Cut(w) ELSE 0
  /\ stale' = IF returns THEN [n |-> 0, begun |-> FALSE, over |-> FALSE]
              ELSE [n |-> IF counts /\ stale.n < 3 THEN stale.n + 1 ELSE stale.n,
                    begun |-> stale.begun \/ PeriodEnds \/ (clken /\ ~running /\ enable),
                    over |-> stale.over \/ (stale.begun /\ PeriodEnds)]

Hardware(w, ack) ==
  /\ registers(w) /\ tmr_core(w) /\ pwm_core /\ irq_mask(ack)

-----------------------------------------------------------------------------
Stall ==
  /\ UNCHANGED <<imask, todo, isr, g_count>>
  /\ Hardware(None, FALSE)
  /\ Remember(None, FALSE, FALSE)

(* The program begins its next call; the first is systimer_init.           *)
Call ==
  /\ isr = "off" /\ todo = <<>>
  /\ \/ \E d \in Div, p \in Pulse : todo' = systimer_init(d, p)
     \/ imask /\ \E p \in Pulse : todo' = timer_set(p)
  /\ UNCHANGED <<imask, isr, g_count>>
  /\ Hardware(None, FALSE)
  /\ Remember(None, FALSE, FALSE)

Access ==
  /\ isr = "off" /\ todo # <<>>
  /\ todo' = Tail(todo)
  /\ imask' = (imask \/ Head(todo).to = "IMASK")
  /\ UNCHANGED <<isr, g_count>>
  /\ Hardware(Head(todo), FALSE)
  /\ Remember(Head(todo), todo' = <<>>, FALSE)

irq_timer_handler_NoRearm ==     \* the handler returns without clearing IPEND
  /\ Hardware(None, FALSE)
  /\ \/ /\ isr = "off" /\ ipend
        /\ isr' = "entered"
        /\ UNCHANGED g_count
        /\ Remember(None, FALSE, FALSE)
     \/ /\ isr = "entered"
        /\ isr' = "counted"
        /\ g_count' = Next16(g_count)
        /\ Remember(None, FALSE, TRUE)
     \/ /\ isr = "counted"
        /\ isr' = "off"
        /\ UNCHANGED g_count
        /\ Remember(None, FALSE, FALSE)
  /\ UNCHANGED <<imask, todo>>

(* The tick is counted first and IPEND cleared last.                       *)
irq_timer_handler ==
  /\ \/ /\ isr = "off" /\ ipend
        /\ isr' = "entered"
        /\ Hardware(None, FALSE)
        /\ Remember(None, FALSE, FALSE)
        /\ UNCHANGED g_count
     \/ /\ isr = "entered"
        /\ isr' = "counted"
        /\ g_count' = Next16(g_count)
        /\ Hardware(None, FALSE)
        /\ Remember(None, FALSE, TRUE)
     \/ /\ isr = "counted"
        /\ isr' = "off"
        /\ Hardware(None, TRUE)
        /\ Remember(None, FALSE, FALSE)
        /\ UNCHANGED g_count
  /\ UNCHANGED <<imask, todo>>

Next == Stall \/ Call \/ Access \/ irq_timer_handler

(* The clock runs, the CPU goes on, and a call that was begun ends.        *)
Spec ==
  /\ Init /\ [][Next]_vars
  /\ WF_vars(Next) /\ WF_vars(Access) /\ WF_vars(irq_timer_handler)

-----------------------------------------------------------------------------
(* An interrupt is counted, and once, unless it is raised between another  *)
(* one and the return of its handler: those are lost, and no others.  The  *)
(* count lags by the one that waits at most.                               *)
TickAccount ==
  ticks = g_count \/ (waits /\ ticks = Next16(g_count))

(* Interrupts come the period that was loaded apart: stopping and starting *)
(* the unit within it and new values for the pair do not cut it short, but *)
(* for what a start cuts off one prescaled clock.                          *)
TickSpacing == [][since # 0 /\ irq' => since = (period + 1) * (reg.div + 1)]_vars

(* The prescaler never runs past its divider once systimer_init is over,   *)
(* although the divider may be lowered under a running prescaler.          *)
NoRunaway == todo = <<>> \/ todo[Len(todo)].to = "PERIOD" => prescaler <= reg.div

(* Period and width are two stores.  When the call is over, the output may *)
(* be pulsed by a pair of one old and one new value in the period under    *)
(* way only, and the next one is as long as asked.                         *)
PairSettles ==
  todo = <<>> /\ stale.begun => ~outp /\ period = reg.period /\ width = reg.width

(* A program that waits for ticks after timer_set: two of them may stem    *)
(* from before the call, the third ends a period asked for.                *)
StaleTicks == todo = <<>> /\ stale.n = 3 => stale.over

(* The timer goes on whatever calls of timer_set and systimer_init meet it,*)
(* though each of them stops it or restarts its prescaler.                 *)
KeepsTicking == enable ~> irq
=============================================================================
