---------------------------- MODULE ZpuSicProofs ----------------------------
(***************************************************************************)
(* What the interrupt path guarantees.  For every assignment of sources to *)
(* channels the CPU drives the controller as module Sic allows, so that    *)
(* the account of the events stays exact.  When all sources share a        *)
(* channel, for any number of them and any length of handler: handlers do  *)
(* not nest and irqack is cleared; and none is entered without an event if *)
(* an instruction comes between the store to IPEND_W1C and POPINT.         *)
(***************************************************************************)
EXTENDS ZpuSic, TLAPS

(* The lemmas about the controller, for this assignment.                   *)
SicP == INSTANCE SicProofs WITH
  Assignments <- {Assignment},
  Masks <- {Source},
  Writes <- Stores

(* The constants given to the controller are as it assumes.                *)
LEMMA Configuration == SicP!SicAssumption
  BY ZpuSicAssumption
     DEF SicP!SicAssumption, SicP!AllWrites, SicP!Source, SicP!Output, Source, Stores

(* Its lines, and a number they make.                                      *)
LEMMA SameLines ==
  /\ SIC!irq = SicP!irq
  /\ \A S : SIC!Value(S) = SicP!Value(S)
  /\ \A S : SIC!Highest(S) = SicP!Highest(S)
  BY DEF SIC!irq, SicP!irq, SIC!Source, SicP!Source, SIC!Value, SicP!Value,
         SIC!Highest, SicP!Highest

(* The two instances speak of the same clock.                              *)
LEMMA SameClock ==
  ASSUME NEW w, NEW irq_in, NEW nmi
  PROVE  SIC!Clock(w, irq_in, nmi) <=> SicP!Clock(w, irq_in, nmi)
<1>1. SIC!irq_mask(w, irq_in) <=> SicP!irq_mask(w, irq_in)
  BY DEF SIC!irq_mask, SicP!irq_mask
<1>2. SIC!irq_map <=> SicP!irq_map
  BY DEF SIC!irq_map, SicP!irq_map, SIC!Source, SicP!Source
<1>3. SIC!prio_glitch(w, nmi) <=> SicP!prio_glitch(w, nmi)
  BY SameLines DEF SIC!prio_glitch, SicP!prio_glitch
<1>4. SIC!irq_vector_generate(nmi) <=> SicP!irq_vector_generate(nmi)
  BY SameLines DEF SIC!irq_vector_generate, SicP!irq_vector_generate, SIC!EV0, SicP!EV0
<1>5. SIC!Remember(w, irq_in) <=> SicP!Remember(w, irq_in)
  BY DEF SIC!Remember, SicP!Remember
<1>6. SIC!Access(w) <=> SicP!Access(w)
  BY DEF SIC!Access, SicP!Access, SIC!NoWrite, SicP!NoWrite
<1>7. QED
  BY <1>1, <1>2, <1>3, <1>4, <1>5, <1>6 DEF SIC!Clock, SicP!Clock

(* And of the same types.                                                  *)
LEMMA SameType == SIC!TypeOK <=> SicP!TypeOK
  BY DEF SIC!TypeOK, SicP!TypeOK, SIC!Source, SicP!Source, SIC!Output,
         SicP!Output, SIC!EV0, SicP!EV0

-----------------------------------------------------------------------------
(* The invariant for every assignment: a source drives its own channel,    *)
(* and the vector the CPU is about to take, like those of the handlers it  *)
(* is in, is that of a channel with a source.                              *)
Vectored ==
  /\ iar = Assignment /\ nmi_d = FALSE /\ ivaddr \in Channel
  /\ \A i \in Source : imap[i] \subseteq {Assignment[i]}
  /\ irqo \/ irqlatch \/ state = "S_IRQ" => Own(ivaddr) # {}
  /\ \A i \in 1 .. Len(stack) : Own(stack[i]) # {}

(* What a clock of the controller does, as far as the flags depend on it.  *)
LEMMA SourcesStep ==
  ASSUME TypeOK, Vectored, NEW w \in Stores \cup {SIC!NoWrite}, Sources(w)
  PROVE  /\ SIC!TypeOK'
         /\ mmr' \in Stores \cup {SIC!NoWrite}
         /\ SicP!Clear
         /\ iar' = Assignment /\ nmi_d' = FALSE /\ ivaddr' \in Channel
         /\ \A i \in Source : imap'[i] \subseteq {Assignment[i]}
         /\ irqo' => Own(ivaddr') # {}
         /\ Own(ivaddr) # {} => Own(ivaddr') # {}
<1>0. SIC!TypeOK /\ mmr \in Stores \cup {SIC!NoWrite}
  BY DEF TypeOK
<1>1. PICK irq_in \in SUBSET Source :
         SIC!Clock(mmr, irq_in, FALSE) /\ UNCHANGED <<imask, iar>>
  BY DEF Sources
<1> mmr' \in Stores \cup {SIC!NoWrite}
  BY DEF Sources
<1>2. SicP!Clear
  <2>1. mmr \in Stores \cup {SicP!NoWrite}
    BY <1>0 DEF SIC!NoWrite, SicP!NoWrite
  <2>2. irq_in \in SUBSET SicP!Source
    BY DEF Source, SicP!Source
  <2>3. SicP!Clock(mmr, irq_in, FALSE)
    BY <1>1, SameClock
  <2>4. QED
    BY <1>1, <2>1, <2>2, <2>3 DEF SicP!Clear, SicP!Run
<1>3. SIC!TypeOK'
  <2>1. SicP!TypeOK'
    BY <1>0, <1>2, SameType, Configuration, SicP!NextType DEF SicP!Next
  <2>2. QED
    BY <2>1 DEF SIC!TypeOK, SicP!TypeOK, SIC!Source, SicP!Source, SIC!Output,
                SicP!Output, SIC!EV0, SicP!EV0
<1>4. iar' = Assignment /\ nmi_d' = FALSE
  BY <1>1 DEF Vectored, SIC!Clock, SIC!prio_glitch
<1>5. \A i \in Source : imap'[i] \subseteq {Assignment[i]}
  BY <1>1 DEF Vectored, SIC!Clock, SIC!irq_map, SIC!Source, Source
<1>6. \A n \in SIC!irq : n \in Channel /\ Own(n) # {}
  <2>1. SUFFICES ASSUME NEW n \in SIC!irq PROVE n \in Channel /\ Own(n) # {}
    OBVIOUS
  <2>2. PICK i \in Source : n \in imap[i]
    BY DEF SIC!irq, SIC!Source, Source
  <2>3. n = Assignment[i]
    BY <2>2 DEF Vectored
  <2>4. QED
    BY <2>3, ZpuSicAssumption DEF Own, Channel, Source
<1>7. SIC!irq # {} => SIC!Highest(SIC!irq) \in SIC!irq
  <2>1. SIC!irq \subseteq SicP!Output
    BY <1>6 DEF SicP!Output, Channel
  <2>2. QED
    BY <2>1, SameLines, Configuration, SicP!HighestType
<1>8. /\ ivaddr' = ivaddr \/ ivaddr' \in SIC!irq
      /\ irqo' => ivaddr' \in SIC!irq
  BY <1>1, <1>7 DEF SIC!Clock, SIC!irq_vector_generate
<1>9. QED
  BY <1>2, <1>3, <1>4, <1>5, <1>6, <1>8 DEF Vectored

(* The flags of the CPU keep their types, and none is set without irqo.    *)
LEMMA FlagsStep ==
  ASSUME TypeOK, NEW next \in {"S_EXEC", "S_BRANCH_SYNC", "busy"},
         NEW is_im \in BOOLEAN, NEW popint \in BOOLEAN, NEW branches \in BOOLEAN,
         FSM(next, is_im, popint, branches)
  PROVE  /\ state' \in {"S_EXEC", "S_IRQ", "S_BRANCH_SYNC", "busy"}
         /\ {irqlatch', irqack', irqprio'} \subseteq BOOLEAN
         /\ irqlatch' => irqlatch \/ irqo
         /\ state' = "S_IRQ" => irqlatch
<1>1. {irqlatch, irqack, irqprio, irqo, override} \subseteq BOOLEAN
  BY DEF TypeOK, SIC!TypeOK
<1>2. state' \in {"S_EXEC", "S_IRQ", "S_BRANCH_SYNC", "busy"} /\ (state' = "S_IRQ" => irqlatch)
  BY DEF FSM, can_interrupt
<1>3. irqprio' \in BOOLEAN
  BY <1>1 DEF FSM, flags
<1>4. irqlatch' \in BOOLEAN /\ (irqlatch' => irqlatch \/ irqo)
  BY <1>1 DEF FSM, flags
<1>5. irqack' \in BOOLEAN
  BY <1>1 DEF FSM, flags
<1>6. QED
  BY <1>2, <1>3, <1>4, <1>5

(* What the handlers on the stack and their progress become.               *)
Handlers ==
  \/ UNCHANGED stack /\ (UNCHANGED cleared \/ Count)
  \/ stack # <<>> /\ UNCHANGED stack /\ cleared' = <<0>> \o Tail(cleared)
  \/ stack # <<>> /\ stack' = Tail(stack) /\ cleared' = Tail(cleared)
  \/ /\ state = "S_IRQ" /\ Len(stack) < MaxNest
     /\ stack' = <<ivaddr>> \o stack /\ cleared' = <<-1>> \o cleared

(* Every step is a clock of the controller and one of the CPU.             *)
LEMMA Clocked ==
  ASSUME TypeOK, Vectored, Next
  PROVE  /\ \E w \in Stores \cup {SIC!NoWrite} : Sources(w)
         /\ \E next \in {"S_EXEC", "S_BRANCH_SYNC", "busy"},
               is_im \in BOOLEAN, popint \in BOOLEAN, branches \in BOOLEAN :
              FSM(next, is_im, popint, branches)
         /\ Handlers
<1>1. CASE Instruction
  BY <1>1 DEF Instruction, Handlers
<1>2. CASE Immediate
  BY <1>2 DEF Immediate, Handlers
<1>3. CASE Branch
  BY <1>3 DEF Branch, Handlers
<1>4. CASE LongInstruction
  BY <1>4 DEF LongInstruction, Handlers
<1>5. CASE Busy("busy") \/ Busy("S_EXEC")
  BY <1>5 DEF Busy, Handlers
<1>6. CASE ClearPending
  <2>1. stack # <<>> /\ Own(Head(stack)) # {}
    <3>1. stack # <<>> /\ Len(stack) \in Nat /\ Len(stack) # 0
      BY <1>6 DEF ClearPending, TypeOK
    <3>2. Head(stack) = stack[1] /\ 1 \in 1 .. Len(stack)
      BY <3>1 DEF TypeOK
    <3>3. QED
      BY <3>1, <3>2 DEF Vectored
  <2>2. Own(Head(stack)) \subseteq Source
    BY DEF Own
  <2>3. \E bits \in (SUBSET Source) \ {{}} : Sources([to |-> "IPEND_W1C", bits |-> bits])
    BY <1>6, <2>1, <2>2 DEF ClearPending
  <2> \A bits \in (SUBSET Source) \ {{}} : [to |-> "IPEND_W1C", bits |-> bits] \in Stores
    BY DEF Stores
  <2>4. QED
    BY <1>6, <2>3 DEF ClearPending, Handlers
<1>7. CASE PopInt
  BY <1>7 DEF PopInt, Handlers
<1>8. CASE BranchSync("S_BRANCH_SYNC") \/ BranchSync("S_EXEC")
  BY <1>8 DEF BranchSync, Handlers
<1>9. CASE Enter
  BY <1>9 DEF Enter, Handlers
<1>10. QED
  BY <1>1, <1>2, <1>3, <1>4, <1>5, <1>6, <1>7, <1>8, <1>9 DEF Next

(* The stack keeps its type and its bound, and holds channels with sources.*)
LEMMA HandlersStep ==
  ASSUME TypeOK, Vectored, Handlers
  PROVE  /\ stack' \in Seq(Channel) /\ Len(stack') <= MaxNest
         /\ cleared' \in Seq(-1 .. Epilogue) /\ Len(cleared') = Len(stack')
         /\ \A i \in 1 .. Len(stack') : Own(stack'[i]) # {}
<1>1. /\ stack \in Seq(Channel) /\ Len(stack) <= MaxNest
      /\ cleared \in Seq(-1 .. Epilogue) /\ Len(cleared) = Len(stack)
      /\ Epilogue \in Nat /\ MaxNest \in Nat
  BY ZpuSicAssumption DEF TypeOK
<1>2. CASE UNCHANGED stack /\ (UNCHANGED cleared \/ Count)
  <2>1. CASE UNCHANGED cleared
    BY <1>1, <1>2, <2>1 DEF Vectored
  <2>2. CASE cleared # <<>> /\ Head(cleared) \in 0 .. Epilogue - 1
             /\ cleared' = <<Head(cleared) + 1>> \o Tail(cleared)
    <3>1. Head(cleared) + 1 \in -1 .. Epilogue /\ Tail(cleared) \in Seq(-1 .. Epilogue)
          /\ Len(Tail(cleared)) = Len(cleared) - 1
      BY <1>1, <2>2
    <3>2. cleared' \in Seq(-1 .. Epilogue) /\ Len(cleared') = Len(cleared)
      BY <1>1, <2>2, <3>1
    <3>3. QED
      BY <1>1, <1>2, <3>2 DEF Vectored
  <2>3. QED
    BY <1>2, <2>1, <2>2 DEF Count
<1>3. CASE stack # <<>> /\ UNCHANGED stack /\ cleared' = <<0>> \o Tail(cleared)
  <2>1. Len(cleared) # 0 /\ cleared # <<>>
    BY <1>1, <1>3
  <2>2. 0 \in -1 .. Epilogue /\ Tail(cleared) \in Seq(-1 .. Epilogue)
        /\ Len(Tail(cleared)) = Len(cleared) - 1
    BY <1>1, <2>1
  <2>3. cleared' \in Seq(-1 .. Epilogue) /\ Len(cleared') = Len(cleared)
    BY <1>1, <1>3, <2>2
  <2>4. QED
    BY <1>1, <1>3, <2>3 DEF Vectored
<1>4. CASE stack # <<>> /\ stack' = Tail(stack) /\ cleared' = Tail(cleared)
  <2>1. Len(cleared) # 0 /\ cleared # <<>>
    BY <1>1, <1>4
  <2>2. /\ stack' \in Seq(Channel) /\ Len(stack') = Len(stack) - 1
        /\ \A i \in 1 .. Len(stack') : stack'[i] = stack[i + 1]
    BY <1>1, <1>4
  <2>3. cleared' \in Seq(-1 .. Epilogue) /\ Len(cleared') = Len(cleared) - 1
    BY <1>1, <1>4, <2>1
  <2>4. \A i \in 1 .. Len(stack') : i + 1 \in 1 .. Len(stack)
    BY <1>1, <2>2
  <2>5. \A i \in 1 .. Len(stack') : Own(stack'[i]) # {}
    BY <2>2, <2>4 DEF Vectored
  <2>6. Len(stack') <= MaxNest /\ Len(cleared') = Len(stack')
    BY <1>1, <2>2, <2>3
  <2>7. QED
    BY <2>2, <2>3, <2>5, <2>6
<1>5. CASE /\ state = "S_IRQ" /\ Len(stack) < MaxNest
           /\ stack' = <<ivaddr>> \o stack /\ cleared' = <<-1>> \o cleared
  <2>1. ivaddr \in Channel /\ Own(ivaddr) # {}
    BY <1>5 DEF Vectored
  <2>2. /\ stack' \in Seq(Channel) /\ Len(stack') = Len(stack) + 1
        /\ stack'[1] = ivaddr
        /\ \A i \in 1 .. Len(stack) : stack'[i + 1] = stack[i]
    BY <1>1, <1>5, <2>1
  <2>3. cleared' \in Seq(-1 .. Epilogue) /\ Len(cleared') = Len(cleared) + 1
    BY <1>1, <1>5
  <2>4. \A i \in 1 .. Len(stack') : i = 1 \/ (i - 1 \in 1 .. Len(stack) /\ stack'[i] = stack[i - 1])
    BY <1>1, <2>2
  <2>5. \A i \in 1 .. Len(stack') : Own(stack'[i]) # {}
    BY <2>1, <2>2, <2>4 DEF Vectored
  <2>6. Len(stack') <= MaxNest /\ Len(cleared') = Len(stack')
    BY <1>1, <1>5, <2>2, <2>3
  <2>7. QED
    BY <2>2, <2>3, <2>5, <2>6
<1>6. QED
  BY <1>2, <1>3, <1>4, <1>5 DEF Handlers

(* Every step keeps the types and the vectors.                             *)
LEMMA VectoredStep ==
  ASSUME TypeOK, Vectored, [Next]_vars
  PROVE  TypeOK' /\ Vectored'
<1>1. CASE Next
  <2>1. PICK w \in Stores \cup {SIC!NoWrite} : Sources(w)
    BY <1>1, Clocked
  <2>2. PICK next \in {"S_EXEC", "S_BRANCH_SYNC", "busy"},
             is_im \in BOOLEAN, popint \in BOOLEAN, branches \in BOOLEAN :
          FSM(next, is_im, popint, branches)
    BY <1>1, Clocked
  <2>3. Handlers
    BY <1>1, Clocked
  <2>4. TypeOK'
    BY <2>1, <2>2, <2>3, SourcesStep, FlagsStep, HandlersStep DEF TypeOK
  <2>5. Own(ivaddr) # {} => Own(ivaddr') # {}
    BY <2>1, SourcesStep DEF TypeOK
  <2>6. irqo' \/ irqlatch' \/ state' = "S_IRQ" => Own(ivaddr') # {}
    BY <2>1, <2>2, <2>5, SourcesStep, FlagsStep DEF TypeOK, Vectored
  <2>7. \A n : Own(n)' = Own(n)
    OBVIOUS
  <2>8. QED
    BY <2>1, <2>3, <2>4, <2>6, SourcesStep, HandlersStep DEF TypeOK, Vectored, Own
<1>2. CASE UNCHANGED vars
  BY <1>2 DEF TypeOK, Vectored, SIC!TypeOK, Own, SIC!irq, vars, sicvars, cpuvars
<1>3. QED
  BY <1>1, <1>2

(* They hold at the start.                                                 *)
LEMMA VectoredInit == Init => TypeOK /\ Vectored
<1>1. SUFFICES ASSUME Init PROVE TypeOK /\ Vectored
  OBVIOUS
<1>2. SIC!TypeOK
  <2>1. SicP!Init
    BY <1>1 DEF Init, SIC!Init, SicP!Init, SIC!Source, SicP!Source, SIC!Output,
                SicP!Output, SIC!EV0, SicP!EV0
  <2>2. QED
    BY <2>1, SameType, Configuration, SicP!InitType
<1>3. stack = <<>> /\ cleared = <<>> /\ ivaddr = 0
  BY <1>1 DEF Init
<1>4. TypeOK
  BY <1>1, <1>2, <1>3, ZpuSicAssumption DEF Init, TypeOK
<1>5. Vectored
  BY <1>1, <1>3 DEF Init, SIC!Init, Vectored, SIC!Source, Source, Channel
<1>6. QED
  BY <1>4, <1>5

(* The registers of the controller and of the CPU keep their types.        *)
THEOREM TypeCorrect == Spec => []TypeOK
  BY VectoredInit, VectoredStep, PTL DEF Spec

(* A handler is only ever entered, and the vector only ever taken, for a   *)
(* channel some source is assigned to.                                     *)
THEOREM VectoredCorrect == Spec => []Vectored
  BY VectoredInit, VectoredStep, PTL DEF Spec

(* A step of the system is a step of the controller, as module Sic has it, *)
(* or leaves the controller alone.                                         *)
LEMMA ImplementsStep ==
  ASSUME TypeOK, Vectored, [Next]_vars
  PROVE  [SicP!Next]_(SicP!vars)
<1>1. CASE Next
  BY <1>1, Clocked, SourcesStep DEF TypeOK, SicP!Next
<1>2. CASE UNCHANGED vars
  BY <1>2 DEF vars, sicvars, SicP!vars, SicP!latches, SicP!outputs
<1>3. QED
  BY <1>1, <1>2

(* The system drives the controller as module Sic allows: with one write   *)
(* at a time, of bits that are there, and a clock between two writes.      *)
THEOREM ImplementsSic == Spec => SicP!Init /\ [][SicP!Next]_(SicP!vars)
<1>1. Init => SicP!Init
  BY DEF Init, SIC!Init, SicP!Init, SIC!Source, SicP!Source, SIC!Output,
         SicP!Output, SIC!EV0, SicP!EV0
<1>2. QED
  BY <1>1, VectoredInit, VectoredStep, ImplementsStep, PTL DEF Spec

(* So the account of the events of module Sic is exact in the system too:  *)
(* the writes of the handlers lose none and take none twice.               *)
THEOREM EventsExactCorrect == Spec => [](SIC!EventsExact)
<1>1. SicP!Init => SicP!EventsExact
  BY DEF SicP!Init, SicP!EventsExact
<1>2. SicP!EventsExact /\ [SicP!Next]_(SicP!vars) => SicP!EventsExact'
  BY Configuration, SicP!NextExact
<1>3. SicP!EventsExact <=> SIC!EventsExact
  BY DEF SicP!EventsExact, SIC!EventsExact
<1>4. QED
  BY <1>1, <1>2, <1>3, ImplementsSic, PTL

-----------------------------------------------------------------------------
(* All sources on one channel, as a system that must not nest configures   *)
(* SIC_IAR.                                                                *)
Shared == \A i, j \in Source : Assignment[i] = Assignment[j]

(* Nothing overrides: the lines are that channel's or none, now and a      *)
(* clock ago.  irqack tells whether a handler runs or is about to, and at  *)
(* most one does.                                                          *)
OneHandler ==
  /\ override = FALSE /\ irqprio = FALSE
  /\ irq_d = 0 \/ \A i \in Source : irq_d = 2 * SIC!Value({Assignment[i]})
  /\ irqack <=> (state = "S_IRQ" \/ stack # <<>>)
  /\ state = "S_IRQ" => stack = <<>>
  /\ Len(stack) <= 1

(* A write is on the bus only in the clock after the store of a handler    *)
(* that has executed nothing since.                                        *)
Written == mmr # SIC!NoWrite => stack # <<>> /\ Head(cleared) = 0

(* While no handler runs, an interrupt that is latched, requested or on    *)
(* its way has its source still pending.  A request left over from the     *)
(* handler's own event dies in S_BRANCH_SYNC after POPINT.                 *)
Pending ==
  /\ state = "S_IRQ" => ipend # {}
  /\ ~irqack => /\ irqlatch => ipend # {}
                /\ SIC!irq # {} => ipend # {}
                /\ state # "S_BRANCH_SYNC" /\ irqo => ipend # {}

(* The lines that are driven are those of the one channel.                 *)
LEMMA OneLine ==
  ASSUME Shared, Vectored
  PROVE  SIC!irq = {} \/ \A i \in Source : SIC!irq = {Assignment[i]}
<1>1. SUFFICES ASSUME NEW n \in SIC!irq, NEW i \in Source
               PROVE  SIC!irq = {Assignment[i]}
  OBVIOUS
<1>2. \A m \in SIC!irq : m = Assignment[i]
  <2>1. SUFFICES ASSUME NEW m \in SIC!irq PROVE m = Assignment[i]
    OBVIOUS
  <2>2. PICK j \in Source : m \in imap[j]
    BY DEF SIC!irq, SIC!Source, Source
  <2>3. QED
    BY <2>2 DEF Vectored, Shared
<1>3. QED
  BY <1>2

(* A channel with a source has all of them.                                *)
LEMMA OwnAll ==
  ASSUME Shared, NEW n, Own(n) # {}
  PROVE  Own(n) = Source
  BY DEF Shared, Own

(* What a clock of the controller does to one channel.                     *)
LEMMA OneLineStep ==
  ASSUME Shared, TypeOK, Vectored, OneHandler,
         NEW w \in Stores \cup {SIC!NoWrite}, Sources(w)
  PROVE  /\ override' = FALSE
         /\ irq_d' = 0 \/ \A i \in Source : irq_d' = 2 * SIC!Value({Assignment[i]})
         /\ SIC!irq' # {} => ipend # {}
         /\ irqo' => SIC!irq # {}
         /\ mmr = SIC!NoWrite => ipend \subseteq ipend'
         /\ mmr' = w
<1>1. PICK irq_in \in SUBSET Source :
         SIC!Clock(mmr, irq_in, FALSE) /\ UNCHANGED <<imask, iar>>
  BY DEF Sources
<1>2. 0 \in Source
  BY ZpuSicAssumption, SMT DEF Source
<1>3. /\ SIC!Value({}) = 0
      /\ SIC!Value({Assignment[0]}) \in 0 .. 15
  BY SameLines, Configuration, SicP!ValueType, SMT DEF SIC!Value
<1>4. SIC!irq = {} \/ SIC!irq = {Assignment[0]}
  BY <1>2, OneLine
<1>5. irq_d = 0 \/ irq_d = 2 * SIC!Value({Assignment[0]})
  BY <1>2 DEF OneHandler
<1>6. override' = (SIC!Value(SIC!irq) < irq_d /\ irq_d \div 2 < SIC!Value(SIC!irq))
  BY <1>1 DEF SIC!Clock, SIC!prio_glitch
<1>7. override' = FALSE
  <2> DEFINE v == SIC!Value({Assignment[0]})
  <2>1. v \in 0 .. 15
    BY <1>3
  <2> HIDE DEF v
  <2>2. /\ SIC!Value(SIC!irq) = 0 \/ SIC!Value(SIC!irq) = v
        /\ irq_d = 0 \/ irq_d = 2 * v
    BY <1>3, <1>4, <1>5 DEF v
  <2>3. ~(SIC!Value(SIC!irq) < irq_d /\ irq_d \div 2 < SIC!Value(SIC!irq))
    BY <2>1, <2>2, SMT
  <2>4. QED
    BY <1>6, <2>3
<1>8. irq_d' = 0 \/ irq_d' = 2 * SIC!Value(SIC!irq)
  BY <1>1 DEF SIC!Clock, SIC!prio_glitch
<1>9. irq_d' = 0 \/ \A i \in Source : irq_d' = 2 * SIC!Value({Assignment[i]})
  <2>1. CASE SIC!irq = {}
    BY <1>3, <1>8, <2>1
  <2>2. CASE SIC!irq # {}
    BY <1>8, <2>2, OneLine
  <2>3. QED
    BY <2>1, <2>2
<1>10. SIC!irq' # {} => ipend # {}
  BY <1>1 DEF SIC!Clock, SIC!irq_map, SIC!irq, SIC!Source
<1>11. irqo' => SIC!irq # {}
  BY <1>1 DEF SIC!Clock, SIC!irq_vector_generate
<1>12. mmr = SIC!NoWrite => ipend \subseteq ipend'
  BY <1>1 DEF SIC!Clock, SIC!irq_mask, SIC!NoWrite
<1>13. mmr' = w
  BY DEF Sources
<1>14. QED
  BY <1>13, <1>7, <1>9, <1>10, <1>11, <1>12

(* The flags when nothing overrides: the latch follows irqo at the end of  *)
(* an instruction, a latched request is taken when the next one starts,    *)
(* and POPINT alone clears irqack.                                         *)
LEMMA PlainFlags ==
  ASSUME TypeOK, OneHandler, NEW next \in {"S_EXEC", "S_BRANCH_SYNC", "busy"},
         NEW is_im \in BOOLEAN, NEW popint \in BOOLEAN, NEW branches \in BOOLEAN,
         FSM(next, is_im, popint, branches)
  PROVE  /\ irqprio' = FALSE
         /\ irqack => state' = next /\ irqack' = ~popint /\ irqlatch' = FALSE
         /\ ~irqack => /\ \/ state' = "S_IRQ" /\ irqack' = TRUE /\ irqlatch
                          \/ state' = next /\ irqack' = FALSE
                       /\ irqlatch' = IF state = "S_EXEC" /\ ~branches THEN irqo ELSE irqlatch
<1>1. {irqlatch, irqack, irqprio, irqo, override} \subseteq BOOLEAN
  BY DEF TypeOK, SIC!TypeOK
<1>2. override = FALSE /\ irqprio = FALSE
  BY DEF OneHandler
<1>3. CASE irqack
  BY <1>1, <1>2, <1>3 DEF FSM, flags, can_interrupt
<1>4. CASE ~irqack
  BY <1>1, <1>2, <1>4 DEF FSM, flags, can_interrupt
<1>5. QED
  BY <1>3, <1>4

(* A clock that enters and leaves no handler and stores nothing.           *)
Quiet ==
  /\ state # "S_IRQ" /\ UNCHANGED stack
  /\ Sources(SIC!NoWrite)
  /\ \E next \in {"S_EXEC", "S_BRANCH_SYNC", "busy"}, is_im \in BOOLEAN, branches \in BOOLEAN :
       FSM(next, is_im, FALSE, branches)

(* It keeps the invariants.                                                *)
LEMMA QuietStep ==
  ASSUME Shared, TypeOK, Vectored, OneHandler, Quiet
  PROVE  OneHandler' /\ (Written /\ Pending => Pending')
<1>1. PICK next \in {"S_EXEC", "S_BRANCH_SYNC", "busy"}, is_im \in BOOLEAN, branches \in BOOLEAN :
        FSM(next, is_im, FALSE, branches)
  BY DEF Quiet
<1>2. /\ override' = FALSE
      /\ irq_d' = 0 \/ \A i \in Source : irq_d' = 2 * SIC!Value({Assignment[i]})
      /\ SIC!irq' # {} => ipend # {}
      /\ irqo' => SIC!irq # {}
      /\ mmr = SIC!NoWrite => ipend \subseteq ipend'
  BY OneLineStep DEF Quiet
<1>3. state # "S_IRQ" /\ UNCHANGED stack
  BY DEF Quiet
<1>4. CASE irqack
  <2>1. irqprio' = FALSE /\ state' = next /\ irqack' = TRUE
    BY <1>1, <1>4, PlainFlags
  <2>2. QED
    BY <1>2, <1>3, <1>4, <2>1 DEF OneHandler, Pending
<1>5. CASE ~irqack
  <2>1. /\ irqprio' = FALSE
        /\ \/ state' = "S_IRQ" /\ irqack' = TRUE /\ irqlatch
           \/ state' = next /\ irqack' = FALSE
        /\ irqlatch' = IF state = "S_EXEC" /\ ~branches THEN irqo ELSE irqlatch
    BY <1>1, <1>5, PlainFlags
  <2>2. OneHandler'
    BY <1>2, <1>3, <1>5, <2>1 DEF OneHandler
  <2>3. ASSUME Written, Pending PROVE Pending'
    <3>1. irqlatch' \/ state' = "S_IRQ" => ipend # {}
      BY <1>5, <2>1, <2>3 DEF Pending
    <3>2. mmr = SIC!NoWrite
      BY <1>5, <2>3 DEF Written, OneHandler
    <3>3. irqo' /\ state' # "S_BRANCH_SYNC" => ipend # {}
      BY <1>2, <1>5, <2>3 DEF Pending
    <3>4. QED
      BY <1>2, <1>5, <3>1, <3>2, <3>3 DEF Pending
  <2>4. QED
    BY <2>2, <2>3
<1>6. QED
  BY <1>4, <1>5

(* Every step keeps the account of the handlers, and what is pending while *)
(* none runs if an instruction comes between its store and POPINT.         *)
LEMMA PendingStep ==
  ASSUME Shared, TypeOK, Vectored, OneHandler, [Next]_vars
  PROVE  OneHandler' /\ (Epilogue # 0 /\ Written /\ Pending => Pending')
<1>1. CASE Instruction \/ Immediate \/ Branch \/ LongInstruction \/ Busy("busy") \/ Busy("S_EXEC")
             \/ BranchSync("S_BRANCH_SYNC") \/ BranchSync("S_EXEC")
  <2>1. Quiet
    BY <1>1 DEF Quiet, Instruction, Immediate, Branch, LongInstruction, Busy, BranchSync
  <2>2. QED
    BY <2>1, QuietStep
<1>2. CASE ClearPending \/ PopInt \/ Enter
  <2>2. PICK w \in Stores \cup {SIC!NoWrite} : Sources(w)
    BY <1>2, Clocked DEF Next
  <2>3. /\ override' = FALSE
        /\ irq_d' = 0 \/ \A i \in Source : irq_d' = 2 * SIC!Value({Assignment[i]})
        /\ SIC!irq' # {} => ipend # {}
        /\ mmr = SIC!NoWrite => ipend \subseteq ipend'
    BY <2>2, OneLineStep
  <2>4. CASE ClearPending
    <3>1. irqack /\ FSM("S_EXEC", FALSE, FALSE, FALSE) /\ UNCHANGED stack
      BY <2>4 DEF ClearPending, OneHandler
    <3>2. irqprio' = FALSE /\ state' = "S_EXEC" /\ irqack' = TRUE
      BY <3>1, PlainFlags
    <3>3. QED
      BY <2>3, <2>4, <3>1, <3>2 DEF ClearPending, OneHandler, Pending
  <2>5. CASE PopInt
    <3>1. irqack /\ FSM("S_BRANCH_SYNC", FALSE, TRUE, TRUE) /\ stack' = Tail(stack)
      BY <2>5 DEF PopInt, OneHandler
    <3>2. irqprio' = FALSE /\ state' = "S_BRANCH_SYNC" /\ irqack' = FALSE /\ irqlatch' = FALSE
      BY <3>1, PlainFlags
    <3>3. stack' = <<>> /\ Len(stack') <= 1
      BY <2>5, <3>1 DEF PopInt, OneHandler, TypeOK
    <3>4. Epilogue # 0 /\ Written => ipend \subseteq ipend'
      BY <2>3, <2>5 DEF PopInt, Written
    <3>5. QED
      BY <2>3, <3>2, <3>3, <3>4 DEF OneHandler, Pending
  <2>6. CASE Enter
    <3>1. irqack /\ FSM("S_BRANCH_SYNC", FALSE, FALSE, FALSE) /\ stack = <<>>
          /\ stack' = <<ivaddr>> \o stack
      BY <2>6 DEF Enter, OneHandler
    <3>2. irqprio' = FALSE /\ state' = "S_BRANCH_SYNC" /\ irqack' = TRUE
      BY <3>1, PlainFlags
    <3>3. stack' = <<ivaddr>> /\ stack' # <<>> /\ Len(stack') = 1
      BY <3>1
    <3>4. QED
      BY <2>3, <3>2, <3>3 DEF OneHandler, Pending
  <2>7. QED
    BY <1>2, <2>4, <2>5, <2>6
<1>3. CASE UNCHANGED vars
  BY <1>3 DEF OneHandler, Pending, SIC!irq, SIC!Source, vars, sicvars, cpuvars
<1>4. QED
  BY <1>1, <1>2, <1>3 DEF Next

(* Only the store of a handler puts a write on the bus.                    *)
LEMMA WrittenStep ==
  ASSUME TypeOK, Written, [Next]_vars
  PROVE  Written'
<1>1. CASE ClearPending
  <2>1. stack' # <<>> /\ cleared' = <<0>> \o Tail(cleared)
    BY <1>1 DEF ClearPending
  <2>2. Tail(cleared) \in Seq(-1 .. Epilogue)
    <3>1. cleared # <<>>
      BY <1>1 DEF ClearPending, TypeOK
    <3>2. QED
      BY <3>1 DEF TypeOK
  <2>3. Head(cleared') = 0
    BY <2>1, <2>2
  <2>4. QED
    BY <2>1, <2>3 DEF Written
<1>2. CASE Next /\ ~ClearPending
  <2>1. mmr' = SIC!NoWrite
    BY <1>2 DEF Next, Sources, Instruction, Immediate, Branch, LongInstruction, Busy, PopInt,
                BranchSync, Enter
  <2>2. SIC!NoWrite' = SIC!NoWrite
    BY DEF SIC!NoWrite
  <2>3. QED
    BY <2>1, <2>2 DEF Written
<1>3. CASE UNCHANGED vars
  BY <1>3 DEF Written, SIC!NoWrite, vars, cpuvars
<1>4. QED
  BY <1>1, <1>2, <1>3

(* The invariants hold at the start.                                       *)
LEMMA PendingInit == Init => OneHandler /\ Written /\ Pending
<1>1. SUFFICES ASSUME Init PROVE OneHandler /\ Written /\ Pending
  OBVIOUS
<1>2. SIC!irq = {}
  BY <1>1 DEF Init, SIC!Init, SIC!irq
<1>3. QED
  BY <1>1, <1>2 DEF Init, SIC!Init, OneHandler, Written, Pending

(* The invariant of a system with one channel.                             *)
LEMMA Invariance ==
  ASSUME Shared
  PROVE  Spec => [](TypeOK /\ Vectored /\ OneHandler)
<1>1. TypeOK /\ Vectored /\ OneHandler /\ [Next]_vars => TypeOK' /\ Vectored' /\ OneHandler'
  BY VectoredStep, PendingStep
<1>2. QED
  BY <1>1, VectoredInit, PendingInit, PTL DEF Spec

(* On one channel no handler is interrupted, by another or by itself,      *)
(* however many sources share it and however often they fire.              *)
THEOREM NestingShared ==
  ASSUME Shared
  PROVE  Spec => []Nesting
<1>1. OneHandler /\ TypeOK => Nesting
  BY DEF OneHandler, TypeOK, Nesting
<1>2. QED
  BY <1>1, Invariance, PTL

(* On one channel the flag that keeps interrupts out is cleared when the   *)
(* handler has returned, however few instructions follow its last store.   *)
THEOREM FlagClearedShared ==
  ASSUME Shared
  PROVE  Spec => []FlagCleared
<1>1. OneHandler => FlagCleared
  BY DEF OneHandler, FlagCleared
<1>2. QED
  BY <1>1, Invariance, PTL

(* On one channel a handler is entered only while an event of its own is   *)
(* pending, if an instruction comes between its store to IPEND_W1C and     *)
(* POPINT: the request still driven by the event it has just cleared does  *)
(* not enter it a second time.                                             *)
THEOREM SolicitedShared ==
  ASSUME Shared, Epilogue # 0
  PROVE  Spec => Solicited
<1>1. TypeOK /\ Vectored /\ OneHandler /\ Written /\ Pending /\ [Next]_vars
        => [Len(stack') > Len(stack) => Own(Head(stack')) \cap ipend # {}]_vars
  <2>1. SUFFICES ASSUME TypeOK, Vectored, OneHandler, Pending, Next,
                        Len(stack') > Len(stack)
                 PROVE  Own(Head(stack')) \cap ipend # {}
    OBVIOUS
  <2>2. Handlers
    BY <2>1, Clocked
  <2>3. state = "S_IRQ" /\ stack' = <<ivaddr>> \o stack
    <3>1. stack \in Seq(Channel)
      BY <2>1 DEF TypeOK
    <3>2. stack # <<>> => Len(Tail(stack)) = Len(stack) - 1
      BY <3>1
    <3>3. QED
      BY <2>1, <2>2, <3>1, <3>2 DEF Handlers
  <2>4. Head(stack') = ivaddr
    BY <2>1, <2>3 DEF TypeOK
  <2>5. Own(ivaddr) = Source
    BY <2>1, <2>3, OwnAll DEF Vectored
  <2>6. ipend # {} /\ ipend \subseteq Source
    BY <2>1, <2>3 DEF Pending, TypeOK, SIC!TypeOK, SIC!Source, Source
  <2>7. QED
    BY <2>4, <2>5, <2>6
<1>2. TypeOK /\ Vectored /\ OneHandler /\ Written /\ Pending /\ [Next]_vars
        => TypeOK' /\ Vectored' /\ OneHandler' /\ Written' /\ Pending'
  BY VectoredStep, PendingStep, WrittenStep
<1>3. QED
  BY <1>1, <1>2, VectoredInit, PendingInit, PTL DEF Spec, Solicited

=============================================================================
