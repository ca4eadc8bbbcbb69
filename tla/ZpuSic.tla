------------------------------- MODULE ZpuSic -------------------------------
(***************************************************************************)
(* The interrupt path of a ZPUng system: the SIC (module Sic), the         *)
(* interrupt flags of the CPU (ZPUNG_EXECUTE_VLIW0_FSM in                  *)
(* hdl/zpu/zpung/ZPUng.vhd) and interrupt handlers as sw/timer.c writes    *)
(* them: clear the IPEND bit, return with POPINT.  One step is a clock.    *)
(*                                                                         *)
(* Of an instruction the flags see only whether it branches, is an IM,     *)
(* takes more than one clock or is POPINT.  A store reaches the register a *)
(* clock after its last one, whatever the CPU executes then.  The          *)
(* configuration is the one without exceptions (exc, nmi) and without a    *)
(* debugger (emuack).                                                      *)
(***************************************************************************)
EXTENDS Integers, Sequences

CONSTANTS
  NUM_CHANNELS,  \* interrupt sources
  Assignment,    \* SIC_IAR: the channel of each source
  Epilogue,      \* instructions from the store to IPEND_W1C to POPINT
  Refire,        \* whether a source may fire again before its handler returned
  MaxNest        \* bound: handlers on the stack

ASSUME ZpuSicAssumption ==
  /\ NUM_CHANNELS \in Nat \ {0}
  /\ Assignment \in [0 .. NUM_CHANNELS - 1 -> 0 .. 3]
  /\ Epilogue \in Nat
  /\ Refire \in BOOLEAN
  /\ MaxNest \in Nat

VARIABLES
  ilat, ipend, imiss, imask, iar, imap, irq_d, nmi_d,   \* see Sic
  override, irqo, ivaddr, bus, owed,
  state,                      \* "S_EXEC", "S_IRQ", "S_BRANCH_SYNC", or "busy"
  irqlatch, irqack, irqprio,  \* the flags
  mmr,                        \* the write on the bus in this clock: mmr_we and its data
  stack,                      \* the handlers entered and not left, innermost first
  cleared                     \* cleared[i]: instructions since handler stack[i]
                              \*   cleared its IPEND bit, -1 if it has not

sicvars == <<ilat, ipend, imiss, imask, iar, imap, irq_d, nmi_d,
             override, irqo, ivaddr, bus, owed>>
cpuvars == <<state, irqlatch, irqack, irqprio, mmr, stack, cleared>>
vars == <<sicvars, cpuvars>>

Source == 0 .. NUM_CHANNELS - 1
Channel == 0 .. 3

Stores == [to : {"IPEND_W1C"}, bits : (SUBSET Source) \ {{}}]

SIC == INSTANCE Sic WITH
  Assignments <- {Assignment},
  Masks <- {Source},
  Writes <- Stores

TypeOK ==
  /\ SIC!TypeOK
  /\ state \in {"S_EXEC", "S_IRQ", "S_BRANCH_SYNC", "busy"}
  /\ {irqlatch, irqack, irqprio} \subseteq BOOLEAN
  /\ mmr \in Stores \cup {SIC!NoWrite}
  /\ stack \in Seq(Channel) /\ Len(stack) <= MaxNest
  /\ cleared \in Seq(-1 .. Epilogue) /\ Len(cleared) = Len(stack)

-----------------------------------------------------------------------------
(* ZPUNG_EXECUTE_VLIW0_FSM.  popint is vliw(16), branches vliw(14); next   *)
(* is nextstate.                                                           *)

flags_PrioInverted(popint, branches) ==    \* the test of irqprio inverted
  IF irqack
  THEN /\ irqack' = ~(override \/ (popint /\ irqprio))
       /\ irqprio' = IF popint /\ irqprio THEN FALSE ELSE override \/ irqprio
       /\ irqlatch' = FALSE
  ELSE /\ UNCHANGED irqprio
       /\ irqlatch' = IF state = "S_EXEC" /\ ~branches THEN irqo ELSE irqlatch

flags_LatchKept(popint, branches) ==       \* irqlatch outlives the acknowledge
  /\ IF irqack
     THEN /\ irqack' = ~(override \/ (popint /\ ~irqprio))
          /\ irqprio' = IF popint /\ irqprio THEN FALSE ELSE override \/ irqprio
     ELSE UNCHANGED irqprio
  /\ irqlatch' = IF ~irqack /\ state = "S_EXEC" /\ ~branches THEN irqo ELSE irqlatch

flags_AnyBranch(popint, branches) ==       \* tests vliw(14) in place of vliw(16)
  IF irqack
  THEN /\ irqack' = ~(override \/ (branches /\ ~irqprio))
       /\ irqprio' = IF branches /\ irqprio THEN FALSE ELSE override \/ irqprio
       /\ irqlatch' = FALSE
  ELSE /\ UNCHANGED irqprio
       /\ irqlatch' = IF state = "S_EXEC" /\ ~branches THEN irqo ELSE irqlatch

flags(popint, branches) ==
  IF irqack
  THEN /\ irqack' = ~(override \/ (popint /\ ~irqprio))
       /\ irqprio' = IF popint /\ irqprio THEN FALSE ELSE override \/ irqprio
       /\ irqlatch' = FALSE
  ELSE /\ UNCHANGED irqprio
       /\ irqlatch' = IF state = "S_EXEC" /\ ~branches THEN irqo ELSE irqlatch

can_interrupt(is_im) == irqlatch /\ ~irqack /\ ~is_im

FSM(next, is_im, popint, branches) ==
  /\ flags(popint, branches)
  /\ IF next = "S_EXEC" /\ can_interrupt(is_im)
     THEN state' = "S_IRQ" /\ irqack' = TRUE
     ELSE state' = next /\ (~irqack => UNCHANGED irqack)

-----------------------------------------------------------------------------
(* The clock of the SIC, with the write on the bus and the lines that are  *)
(* high.  w is what this clock of the CPU puts on the bus for the next one:*)
(* execute_vliw0_write is a register.                                      *)

Own(channel) == {i \in Source : Assignment[i] = channel}
InService == UNION {Own(stack[i]) : i \in 1 .. Len(stack)}

Sources(w) == \E irq_in \in SUBSET Source :
  /\ Refire \/ irq_in \cap (owed \cup InService) = {}
  /\ SIC!Clock(mmr, irq_in, FALSE)
  /\ UNCHANGED <<imask, iar>>
  /\ mmr' = w

(* An instruction of one clock, or the first clock of a longer one.  The   *)
(* counter of the handler it belongs to advances.                          *)
Count == IF cleared # <<>> /\ Head(cleared) \in 0 .. Epilogue - 1
         THEN cleared' = <<Head(cleared) + 1>> \o Tail(cleared) ELSE UNCHANGED cleared

Instruction ==
  /\ state = "S_EXEC"
  /\ FSM("S_EXEC", FALSE, FALSE, FALSE)
  /\ Sources(SIC!NoWrite)
  /\ Count
  /\ UNCHANGED stack

Immediate ==                  \* IM: no interrupt at its end
  /\ state = "S_EXEC"
  /\ FSM("S_EXEC", TRUE, FALSE, FALSE)
  /\ Sources(SIC!NoWrite)
  /\ UNCHANGED <<stack, cleared>>

Branch ==                     \* POPPC and microcode calls
  /\ state = "S_EXEC"
  /\ FSM("S_BRANCH_SYNC", FALSE, FALSE, TRUE)
  /\ Sources(SIC!NoWrite)
  /\ UNCHANGED <<stack, cleared>>

LongInstruction ==
  /\ state = "S_EXEC"
  /\ FSM("busy", FALSE, FALSE, FALSE)
  /\ Sources(SIC!NoWrite)
  /\ UNCHANGED <<stack, cleared>>

Busy(next) ==                 \* a further clock of a long instruction
  /\ state = "busy"
  /\ FSM(next, FALSE, FALSE, FALSE)
  /\ Sources(SIC!NoWrite)
  /\ UNCHANGED <<stack, cleared>>

(* The last clock of MMR(Reg_SIC_IPEND_W1C) = bits: the bits of this       *)
(* channel that are pending, the bit it serves if none is.  The SIC clears *)
(* them a clock later.                                                     *)
ClearPending ==
  /\ state = "busy"
  /\ stack # <<>> /\ Head(cleared) = -1
  /\ LET mine == Own(Head(stack))
         bits == IF mine \cap ipend = {} THEN mine ELSE mine \cap ipend
     IN  Sources([to |-> "IPEND_W1C", bits |-> bits])
  /\ FSM("S_EXEC", FALSE, FALSE, FALSE)
  /\ cleared' = <<0>> \o Tail(cleared)
  /\ UNCHANGED stack

PopInt ==                     \* the handler returns
  /\ state = "S_EXEC"
  /\ stack # <<>> /\ Head(cleared) = Epilogue
  /\ FSM("S_BRANCH_SYNC", FALSE, TRUE, TRUE)
  /\ Sources(SIC!NoWrite)
  /\ stack' = Tail(stack)
  /\ cleared' = Tail(cleared)

BranchSync(next) ==           \* stays there while cache_wait is high
  /\ state = "S_BRANCH_SYNC"
  /\ FSM(next, FALSE, FALSE, FALSE)
  /\ Sources(SIC!NoWrite)
  /\ UNCHANGED <<stack, cleared>>

Enter ==                      \* S_IRQ: pc is loaded from evaddr
  /\ state = "S_IRQ"
  /\ Len(stack) < MaxNest
  /\ FSM("S_BRANCH_SYNC", FALSE, FALSE, FALSE)
  /\ Sources(SIC!NoWrite)
  /\ stack' = <<ivaddr>> \o stack
  /\ cleared' = <<-1>> \o cleared

Init ==
  /\ SIC!Init /\ ivaddr = 0
  /\ state = "S_EXEC"
  /\ irqlatch = FALSE /\ irqack = FALSE /\ irqprio = FALSE
  /\ mmr = SIC!NoWrite
  /\ stack = <<>> /\ cleared = <<>>

Next == \/ Instruction \/ Immediate \/ Branch \/ LongInstruction
        \/ Busy("busy") \/ Busy("S_EXEC") \/ ClearPending \/ PopInt
        \/ BranchSync("S_BRANCH_SYNC") \/ BranchSync("S_EXEC") \/ Enter

(* clk runs; programs execute instructions that are neither IM nor branch, *)
(* long ones end, the cache gets its line, and a handler clears its IPEND  *)
(* bit and returns.                                                        *)
Spec ==
  /\ Init /\ [][Next]_vars
  /\ WF_vars(Next)
  /\ SF_vars(Instruction)
  /\ SF_vars(Busy("S_EXEC"))
  /\ SF_vars(LongInstruction)
  /\ SF_vars(BranchSync("S_EXEC"))
  /\ SF_vars(ClearPending)
  /\ SF_vars(PopInt)

-----------------------------------------------------------------------------
(* A handler is interrupted only by one of a channel of higher priority,   *)
(* and so never by itself.                                                 *)
Nesting == \A i \in 1 .. Len(stack) - 1 : stack[i] < stack[i + 1]

(* The flag that keeps interrupts out is cleared when the last handler has *)
(* returned: nothing else would ever clear it.                             *)
FlagCleared ==
  stack = <<>> /\ state \in {"S_EXEC", "busy"} => ~irqack

(* A handler is entered for an event, never for one already handled.       *)
Solicited ==
  [][Len(stack') > Len(stack) => Own(Head(stack')) \cap ipend # {}]_vars

(* Every event on the channel of highest priority in use is handled: its   *)
(* handler clears the bit.  Lower ones may starve.                         *)
EventHandled == \A i \in Source :
  (\A j \in Source : Assignment[i] <= Assignment[j]) => (i \in owed ~> i \notin owed)

=============================================================================
