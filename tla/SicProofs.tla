----------------------------- MODULE SicProofs -----------------------------
(***************************************************************************)
(* What the interrupt controller guarantees for every number of sources,   *)
(* assignment, mask and order of register writes: its registers keep their *)
(* types, and ILAT and IPEND together hold exactly the events that are     *)
(* owed to the software.                                                   *)
(***************************************************************************)
EXTENDS Sic, TLAPS

OneOrNone == {{}} \cup {{n} : n \in Output}

(* Part of a write that the register bank can see.                         *)
LEMMA WriteType ==
  ASSUME NEW w \in Writes \cup {NoWrite}
  PROVE  w.bits \subseteq Source
  BY SicAssumption DEF AllWrites, NoWrite

(* The outputs that are driven are outputs, and have a value of 4 bits.    *)
LEMMA IrqType ==
  ASSUME TypeOK
  PROVE  irq \subseteq Output
  BY DEF TypeOK, irq

(* Four lines make a number of four bits.                                  *)
LEMMA ValueType == \A S : Value(S) \in 0 .. 15
  BY SMT DEF Value

(* The priority encoder yields one of the lines set.                       *)
LEMMA HighestType ==
  ASSUME NEW S \in SUBSET Output, S # {}
  PROVE  Highest(S) \in S
<1>1. \E n \in S : \A k \in S : n <= k
  <2>1. CASE 0 \in S
    BY <2>1, SMT DEF Output
  <2>2. CASE 0 \notin S /\ 1 \in S
    BY <2>2, SMT DEF Output
  <2>3. CASE 0 \notin S /\ 1 \notin S /\ 2 \in S
    BY <2>3, SMT DEF Output
  <2>4. CASE 0 \notin S /\ 1 \notin S /\ 2 \notin S
    <3>1. \A k \in S : k = 3
      BY <2>4, SMT DEF Output
    <3>2. QED
      BY <3>1
  <2>5. QED
    BY <2>1, <2>2, <2>3, <2>4
<1>2. QED
  BY <1>1 DEF Highest

(* Each process of sic.vhdl keeps the types of what it drives.             *)
LEMMA MaskType ==
  ASSUME TypeOK, NEW w \in Writes \cup {NoWrite}, NEW irq_in \in SUBSET Source,
         irq_mask(w, irq_in), Remember(w, irq_in)
  PROVE  {ilat', ipend', imiss', owed'} \subseteq SUBSET Source
<1>1. w.bits \subseteq Source
  BY WriteType
<1>2. ilat' \subseteq Source /\ ipend' \subseteq Source /\ imiss' \subseteq Source
  BY <1>1 DEF TypeOK, irq_mask
<1>3. owed' \subseteq Source
  BY <1>1 DEF TypeOK, Remember
<1>4. QED
  BY <1>2, <1>3

(* Sources map to the four outputs.                                        *)
LEMMA OutputsType ==
  ASSUME TypeOK, NEW w, NEW nmi \in BOOLEAN,
         irq_map, prio_glitch(w, nmi), irq_vector_generate(nmi)
  PROVE  /\ imap' \in [Source -> OneOrNone]
         /\ irq_d' \in {2 * v : v \in 0 .. 15}
         /\ {nmi_d', override', irqo'} \subseteq BOOLEAN
         /\ ivaddr' \in Output \cup {EV0}
<1>1. imap' \in [Source -> OneOrNone]
  <2>1. iar \in [Source -> Output]
    BY SicAssumption DEF TypeOK
  <2>2. \A i \in Source : (IF i \in ipend THEN {iar[i]} ELSE {}) \in OneOrNone
    BY <2>1 DEF OneOrNone
  <2>3. QED
    BY <2>2 DEF irq_map
<1>2. irq_d' \in {2 * v : v \in 0 .. 15}
  <2>1. 2 * Value(irq) \in {2 * v : v \in 0 .. 15} /\ 0 \in {2 * v : v \in 0 .. 15}
    BY ValueType, SMT
  <2>2. QED
    BY <2>1 DEF prio_glitch
<1>3. nmi_d' \in BOOLEAN /\ override' \in BOOLEAN
  <2>1. nmi_d' \in BOOLEAN
    BY DEF prio_glitch
  <2>2. CASE nmi
    BY <2>2 DEF TypeOK, prio_glitch
  <2>3. CASE ~nmi
    BY <2>3 DEF prio_glitch
  <2>4. QED
    BY <2>1, <2>2, <2>3
<1>4. irqo' \in BOOLEAN
  BY DEF irq_vector_generate
<1>5. ivaddr' \in Output \cup {EV0}
  BY IrqType, HighestType DEF TypeOK, irq_vector_generate
<1>6. QED
  BY <1>1, <1>2, <1>3, <1>4, <1>5

(* The registers have their types at the start.                            *)
LEMMA InitType == Init => TypeOK
<1>1. SUFFICES ASSUME Init PROVE TypeOK
  OBVIOUS
<1>2. 0 \in {2 * v : v \in 0 .. 15} /\ 1 \in 0 .. 2
  BY SMT
<1>3. imap \in [Source -> {{}} \cup {{n} : n \in Output}]
  BY <1>1 DEF Init
<1>4. QED
  BY <1>1, <1>2, <1>3 DEF Init, TypeOK

(* A clock keeps the types of the registers the CPU does not write.        *)
LEMMA RunType ==
  ASSUME TypeOK, NEW w \in Writes \cup {NoWrite}, Run(w)
  PROVE  /\ {ilat', ipend', imiss', owed'} \subseteq SUBSET Source
         /\ imap' \in [Source -> OneOrNone]
         /\ irq_d' \in {2 * v : v \in 0 .. 15}
         /\ {nmi_d', override', irqo'} \subseteq BOOLEAN
         /\ ivaddr' \in Output \cup {EV0}
         /\ bus' \in 0 .. 2
<1>1. PICK irq_in \in SUBSET Source, nmi \in BOOLEAN : Clock(w, irq_in, nmi)
  BY DEF Run
<1>2. bus' \in 0 .. 2
  BY <1>1 DEF Clock, Access
<1>3. QED
  BY <1>1, <1>2, MaskType, OutputsType DEF Clock

(* Every step keeps the types.                                             *)
LEMMA NextType ==
  ASSUME TypeOK, [Next]_vars
  PROVE  TypeOK'
<1>1. CASE Clear
  <2>1. PICK w \in Writes \cup {NoWrite} : Run(w) /\ UNCHANGED <<imask, iar>>
    BY <1>1 DEF Clear
  <2>2. QED
    BY <2>1, RunType DEF TypeOK, OneOrNone
<1>2. CASE SetMask
  BY <1>2, RunType DEF SetMask, TypeOK, OneOrNone
<1>3. CASE SetAssignment
  BY <1>3, RunType DEF SetAssignment, TypeOK, OneOrNone
<1>4. CASE Reset
  <2>1. PICK nmi \in BOOLEAN :
           /\ ilat' = {} /\ ipend' = {} /\ imiss' = {} /\ owed' = {}
           /\ irq_map
           /\ prio_glitch(NoWrite, nmi)
           /\ irq_vector_generate(nmi)
           /\ Access(NoWrite)
           /\ UNCHANGED <<imask, iar>>
    BY <1>4 DEF Reset
  <2>2. bus' \in 0 .. 2
    BY <2>1 DEF Access
  <2>3. QED
    BY <2>1, <2>2, OutputsType DEF TypeOK, OneOrNone
<1>5. CASE UNCHANGED vars
  BY <1>5 DEF TypeOK, vars, latches, outputs
<1>6. QED
  BY <1>1, <1>2, <1>3, <1>4, <1>5 DEF Next

(* The registers and outputs of the controller keep their types.           *)
THEOREM TypeCorrect == Spec => []TypeOK
  BY InitType, NextType, PTL DEF Spec

(* One clock edge keeps the account of the events exact, whatever the      *)
(* software writes and whichever lines are high.                           *)
LEMMA ClockExact ==
  ASSUME EventsExact, NEW w, NEW irq_in, NEW nmi, Clock(w, irq_in, nmi)
  PROVE  EventsExact'
<1>1. CASE w.to = "ILAT_W1C"
  BY <1>1 DEF EventsExact, Clock, irq_mask, Remember
<1>2. CASE w.to = "IPEND_W1C"
  BY <1>2 DEF EventsExact, Clock, irq_mask, Remember
<1>3. CASE w.to # "ILAT_W1C" /\ w.to # "IPEND_W1C"
  BY <1>3 DEF EventsExact, Clock, irq_mask, Remember
<1>4. QED
  BY <1>1, <1>2, <1>3

(* Every step keeps the account exact.                                     *)
LEMMA NextExact ==
  ASSUME EventsExact, [Next]_vars
  PROVE  EventsExact'
<1>1. CASE Clear
  BY <1>1, ClockExact DEF Clear, Run
<1>2. CASE SetMask
  BY <1>2, ClockExact DEF SetMask, Run
<1>3. CASE SetAssignment
  BY <1>3, ClockExact DEF SetAssignment, Run
<1>4. CASE Reset
  BY <1>4 DEF Reset, EventsExact
<1>5. CASE UNCHANGED vars
  BY <1>5 DEF EventsExact, vars, latches
<1>6. QED
  BY <1>1, <1>2, <1>3, <1>4, <1>5 DEF Next

(* No event is lost, taken twice or made up between the input lines and    *)
(* the pending register, for every assignment and mask.                    *)
THEOREM EventsExactCorrect == Spec => []EventsExact
<1>1. Init => EventsExact
  BY DEF Init, EventsExact
<1>2. QED
  BY <1>1, NextExact, PTL DEF Spec

-----------------------------------------------------------------------------
(* The override pulse.  A set of outputs and its value tell the same.      *)
LEMMA ValueIsSum ==
  ASSUME NEW S \in SUBSET Output
  PROVE  Value(S) = (IF 0 \in S THEN 1 ELSE 0) + (IF 1 \in S THEN 2 ELSE 0)
                      + (IF 2 \in S THEN 4 ELSE 0) + (IF 3 \in S THEN 8 ELSE 0)
  BY DEF Value

(* A number of four bits stands for a set of outputs.                      *)
LEMMA ValueOnto ==
  ASSUME NEW v \in 0 .. 15
  PROVE  \E S \in SUBSET Output : Value(S) = v
<1>1. \E a, b, c, d \in {0, 1} : v = a + 2 * b + 4 * c + 8 * d
  <2>1. \E w \in 0 .. 7, d \in {0, 1} : v = w + 8 * d
    BY SMT
  <2>2. \A w \in 0 .. 7 : \E u \in 0 .. 3, c \in {0, 1} : w = u + 4 * c
    BY SMT
  <2>3. \A u \in 0 .. 3 : \E a, b \in {0, 1} : u = a + 2 * b
    BY SMT
  <2>4. QED
    BY <2>1, <2>2, <2>3, SMT
<1>2. PICK a \in {0, 1}, b \in {0, 1}, c \in {0, 1}, d \in {0, 1} :
        v = a + 2 * b + 4 * c + 8 * d
  BY <1>1
<1>3. DEFINE S == {n \in Output : \/ n = 0 /\ a = 1
                                  \/ n = 1 /\ b = 1
                                  \/ n = 2 /\ c = 1
                                  \/ n = 3 /\ d = 1}
<1>4. /\ 0 \in S <=> a = 1
      /\ 1 \in S <=> b = 1
      /\ 2 \in S <=> c = 1
      /\ 3 \in S <=> d = 1
  BY SMT DEF Output
<1>5. S \in SUBSET Output
  OBVIOUS
<1> HIDE DEF S
<1>6. Value(S) = v
  BY <1>2, <1>4, <1>5, ValueIsSum, SMT
<1>7. QED
  BY <1>5, <1>6

(* Doubling the value of A and comparing it with that of a larger B asks   *)
(* whether all that B adds is above the lowest in A.                       *)
LEMMA LowestIs ==
  ASSUME NEW S \in SUBSET Output, NEW m \in S, \A k \in S : k <= m
  PROVE  Lowest(S) = m
<1>1. \A n \in S : (\A k \in S : k <= n) => n = m
  BY SMT DEF Output
<1>2. QED
  BY <1>1 DEF Lowest

(* What the comparison of two binary values says of the sets they stand for.*)
LEMMA Comparison ==
  ASSUME NEW A \in SUBSET Output, NEW B \in SUBSET Output, A \subseteq B, A # {}
  PROVE  (Value(B) < 2 * Value(A) /\ Value(A) < Value(B))
           <=> (B \ A # {} /\ \A n \in B \ A : n < Lowest(A))
<1>1. /\ Value(A) = (IF 0 \in A THEN 1 ELSE 0) + (IF 1 \in A THEN 2 ELSE 0)
                      + (IF 2 \in A THEN 4 ELSE 0) + (IF 3 \in A THEN 8 ELSE 0)
      /\ Value(B) = (IF 0 \in B THEN 1 ELSE 0) + (IF 1 \in B THEN 2 ELSE 0)
                      + (IF 2 \in B THEN 4 ELSE 0) + (IF 3 \in B THEN 8 ELSE 0)
  BY ValueIsSum
<1>2. \A n \in B : n \in {0, 1, 2, 3}
  BY SMT DEF Output
<1> DEFINE joins(n) == n \in B /\ n \notin A
<1>3. ASSUME NEW m \in A, \A k \in A : k <= m
      PROVE  (Value(B) < 2 * Value(A) /\ Value(A) < Value(B))
               <=> (B \ A # {} /\ \A n \in B \ A : n < m)
  <2>1. B \ A # {} <=> joins(0) \/ joins(1) \/ joins(2) \/ joins(3)
    BY <1>2
  <2>2. (\A n \in B \ A : n < m)
          <=> /\ joins(0) => 0 < m
              /\ joins(1) => 1 < m
              /\ joins(2) => 2 < m
              /\ joins(3) => 3 < m
    BY <1>2, SMT
  <2>3. m \in {0, 1, 2, 3}
    BY <1>2
  <2>4. /\ 0 \in A => 0 \in B
        /\ 1 \in A => 1 \in B
        /\ 2 \in A => 2 \in B
        /\ 3 \in A => 3 \in B
    OBVIOUS
  <2>5. /\ m < 3 => 3 \notin A
        /\ m < 2 => 2 \notin A
        /\ m < 1 => 1 \notin A
    BY <1>3, <2>3, SMT
  <2>6. CASE m = 0
    BY <1>1, <2>1, <2>2, <2>4, <2>5, <2>6, SMT
  <2>7. CASE m = 1
    BY <1>1, <2>1, <2>2, <2>4, <2>5, <2>7, SMT
  <2>8. CASE m = 2
    BY <1>1, <2>1, <2>2, <2>4, <2>5, <2>8, SMT
  <2>9. CASE m = 3
    BY <1>1, <2>1, <2>2, <2>4, <2>5, <2>9, SMT
  <2>10. QED
    BY <2>3, <2>6, <2>7, <2>8, <2>9
<1>4. \E m \in A : \A k \in A : k <= m
  BY <1>2, SMT
<1>5. QED
  BY <1>3, <1>4, LowestIs

(* The outputs irq_d stands for.                                           *)
LEMMA BeforeFacts ==
  ASSUME TypeOK
  PROVE  Before \in SUBSET Output /\ irq_d = 2 * Value(Before)
<1>1. PICK v \in 0 .. 15 : irq_d = 2 * v
  BY DEF TypeOK
<1>2. \E S \in SUBSET Output : irq_d = 2 * Value(S)
  BY <1>1, ValueOnto
<1>3. QED
  BY <1>2 DEF Before

(* The override process compares the pending outputs with those joining.   *)
LEMMA GlitchExact ==
  ASSUME TypeOK, NEW w, NEW nmi \in BOOLEAN, prio_glitch(w, nmi),
         ~nmi_d', Before # {}, Before \subseteq irq
  PROVE  override' <=> Joined # {} /\ \A n \in Joined : n < Lowest(Before)
<1>1. override' <=> Value(irq) < irq_d /\ irq_d \div 2 < Value(irq)
  BY DEF prio_glitch
<1>2. Before \in SUBSET Output /\ irq_d = 2 * Value(Before)
  BY BeforeFacts
<1>3. Value(Before) \in 0 .. 15
  BY ValueType
<1>4. irq_d \div 2 = Value(Before)
  BY <1>2, <1>3, SMT
<1>5. QED
  BY <1>1, <1>2, <1>4, IrqType, Comparison DEF Joined

(* Given channels pending, override is raised exactly if channels join     *)
(* them and all that join are above the lowest pending one, for any number *)
(* of sources and any assignment.                                          *)
THEOREM OverrideExactCorrect == Spec => OverrideExact
<1>1. TypeOK /\ [Next]_vars
        => [~nmi_d' /\ Before # {} /\ Before \subseteq irq =>
              (override' <=> Joined # {} /\ \A n \in Joined : n < Lowest(Before))]_vars
  <2>1. SUFFICES ASSUME TypeOK, Next, ~nmi_d', Before # {}, Before \subseteq irq
                 PROVE  override' <=> Joined # {} /\ \A n \in Joined : n < Lowest(Before)
    OBVIOUS
  <2>2. \E w \in Writes \cup {NoWrite} : \E nmi \in BOOLEAN : prio_glitch(w, nmi)
    BY <2>1 DEF Next, Clear, SetMask, SetAssignment, Reset, Run, Clock
  <2>3. QED
    BY <2>1, <2>2, GlitchExact
<1>2. QED
  BY <1>1, TypeCorrect, PTL DEF Spec, OverrideExact

=============================================================================
