-------------------------------- MODULE Sic --------------------------------
(***************************************************************************)
(* The system interrupt controller (hdl/perio/sic.vhdl), one step per      *)
(* rising clock edge.  Sets of bits stand for the registers: a source is   *)
(* one of NUM_CHANNELS input lines, an output one of the four prioritized  *)
(* channels, 0 first.  irq_in, nmi and the register write of the clock are *)
(* the parameters of the step.                                             *)
(*                                                                         *)
(* ivaddr is kept as the index of the vector register it was loaded from:  *)
(* 0 .. 3 for SIC_IVx, 4 for SIC_EV0.                                      *)
(***************************************************************************)
EXTENDS Integers

CONSTANTS
  NUM_CHANNELS,  \* number of sources
  Assignments,   \* values SIC_IAR takes: functions from sources to outputs
  Masks,         \* values SIC_IMASK takes
  Writes         \* writes to the write-one-to-clear registers

Source == 0 .. NUM_CHANNELS - 1
Output == 0 .. 3
EV0 == 4

(* A write is [to |-> register, bits |-> written ones]; "none" is a clock  *)
(* without a write to a write-one-to-clear register.                       *)
NoWrite == [to |-> "none", bits |-> {}]
AllWrites == [to : {"ILAT_W1C", "IPEND_W1C", "MISS_W1C"}, bits : (SUBSET Source) \ {{}}]

ASSUME SicAssumption ==
  /\ NUM_CHANNELS \in Nat \ {0}
  /\ Assignments \subseteq [Source -> Output] /\ Assignments # {}
  /\ Masks \subseteq SUBSET Source /\ Masks # {}
  /\ Writes \subseteq AllWrites

VARIABLES
  ilat, ipend, imiss,      \* latched, pending, missed sources
  imask, iar,              \* the configuration registers of the decoder
  imap,                    \* imap[i]: the output source i drives, as a set
  irq_d, nmi_d,            \* last value of irq, shifted left, and of nmi
  override, irqo, ivaddr,  \* what the CPU sees
  bus,                     \* 0 in the clock after a write, then 1, 2, 1, 2 ...
  owed                     \* history: sources with an event that software has
                           \*   not cleared

latches == <<ilat, ipend, imiss, owed>>
outputs == <<imap, irq_d, nmi_d, override, irqo, ivaddr>>
vars == <<latches, outputs, bus, imask, iar>>

irq == UNION {imap[i] : i \in Source}    \* gen_irqmap, gen_or

Value(S) ==                              \* a set of outputs as unsigned
  LET bit(n, weight) == IF n \in S THEN weight ELSE 0
  IN  bit(0, 1) + bit(1, 2) + bit(2, 4) + bit(3, 8)

Highest(S) == CHOOSE n \in S : \A k \in S : n <= k

TypeOK ==
  /\ {ilat, ipend, imiss, owed} \subseteq SUBSET Source
  /\ imask \in Masks /\ iar \in Assignments
  /\ imap \in [Source -> {{}} \cup {{n} : n \in Output}]
  /\ irq_d \in {2 * v : v \in 0 .. 15}
  /\ {nmi_d, override, irqo} \subseteq BOOLEAN
  /\ ivaddr \in Output \cup {EV0}
  /\ bus \in 0 .. 2

-----------------------------------------------------------------------------
irq_mask_MaskedClear(w, irq_in) ==   \* the latch is cleared by the mask
  /\ ilat' = IF w.to = "ILAT_W1C" THEN ilat \ w.bits
             ELSE (ilat \cup irq_in) \ (ilat \cap imask)
  /\ ipend' = IF w.to = "IPEND_W1C" THEN ipend \ w.bits ELSE ipend \cup (ilat \cap imask)
  /\ imiss' = IF w.to = "MISS_W1C" THEN imiss \ w.bits ELSE ipend \cap irq_in

irq_mask(w, irq_in) ==
  /\ ilat' = IF w.to = "ILAT_W1C" THEN ilat \ w.bits ELSE (ilat \cup irq_in) \ ipend
  /\ ipend' = IF w.to = "IPEND_W1C" THEN ipend \ w.bits ELSE ipend \cup (ilat \cap imask)
  /\ imiss' = IF w.to = "MISS_W1C" THEN imiss \ w.bits ELSE ipend \cap irq_in

irq_map_OneLatched == \* an output once driven stays driven
  imap' = [i \in Source |-> IF i \in ipend THEN {iar[i]} ELSE imap[i]]

irq_map == imap' = [i \in Source |-> IF i \in ipend THEN {iar[i]} ELSE {}]

prio_glitch_NoShift(w, nmi) ==    \* the comparison without its factor of two
  /\ nmi_d' = nmi
  /\ irq_d' = IF w.to = "IPEND_W1C" THEN 0 ELSE Value(irq)
  /\ override' = IF nmi THEN ~nmi_d ELSE Value(irq) < irq_d

prio_glitch_NoUpper(w, nmi) ==    \* any addition overrides, whatever its rank
  /\ nmi_d' = nmi
  /\ irq_d' = IF w.to = "IPEND_W1C" THEN 0 ELSE 2 * Value(irq)
  /\ override' = IF nmi THEN ~nmi_d
                 ELSE irq_d # 0 /\ irq_d \div 2 < Value(irq)

prio_glitch(w, nmi) ==
  /\ nmi_d' = nmi
  /\ irq_d' = IF w.to = "IPEND_W1C" THEN 0 ELSE 2 * Value(irq)
  /\ override' = IF nmi THEN ~nmi_d
                 ELSE Value(irq) < irq_d /\ irq_d \div 2 < Value(irq)

irq_vector_generate(nmi) ==
  IF override THEN irqo' = FALSE /\ UNCHANGED ivaddr
  ELSE /\ irqo' = (nmi \/ irq # {})
       /\ ivaddr' = IF nmi THEN EV0 ELSE IF irq # {} THEN Highest(irq) ELSE ivaddr

(* What the software is owed: an event on a line that is not pending, until*)
(* it clears IPEND, or ILAT before the event is on its way to IPEND.       *)
Remember(w, irq_in) ==
  LET arrived == irq_in \ ipend
      moving  == ilat \cap imask
  IN  owed' = IF w.to = "ILAT_W1C" THEN owed \ (w.bits \ (ipend \cup moving))
              ELSE IF w.to = "IPEND_W1C" THEN (owed \ (w.bits \cap ipend)) \cup arrived
              ELSE owed \cup arrived

-----------------------------------------------------------------------------

(* The CPU takes several clocks from one store to the next: there is one   *)
(* without a write after each write.                                       *)
Access(w) ==
  /\ w # NoWrite => bus # 0
  /\ bus' = IF w # NoWrite THEN 0 ELSE IF bus = 1 THEN 2 ELSE 1

Clock(w, irq_in, nmi) ==
  /\ irq_mask(w, irq_in)
  /\ irq_map
  /\ prio_glitch(w, nmi)
  /\ irq_vector_generate(nmi)
  /\ Remember(w, irq_in)
  /\ Access(w)

Run(w) == \E irq_in \in SUBSET Source, nmi \in BOOLEAN : Clock(w, irq_in, nmi)

Clear == \E w \in Writes \cup {NoWrite} : Run(w) /\ UNCHANGED <<imask, iar>>

SetMask == Run(NoWrite) /\ imask' \in Masks /\ UNCHANGED iar

SetAssignment == Run(NoWrite) /\ iar' \in Assignments /\ UNCHANGED imask

(* A clock edge with reset high clears the latches only. *)
Reset == \E nmi \in BOOLEAN :
  /\ ilat' = {} /\ ipend' = {} /\ imiss' = {} /\ owed' = {}
  /\ irq_map
  /\ prio_glitch(NoWrite, nmi)
  /\ irq_vector_generate(nmi)
  /\ Access(NoWrite)
  /\ UNCHANGED <<imask, iar>>

Init ==
  /\ ilat = {} /\ ipend = {} /\ imiss = {} /\ owed = {}
  /\ imask \in Masks /\ iar \in Assignments
  /\ imap = [i \in Source |-> {}]
  /\ irq_d = 0 /\ nmi_d = FALSE
  /\ override = FALSE /\ irqo = FALSE /\ ivaddr \in Output \cup {EV0} /\ bus = 1

Next == Clear \/ SetMask \/ SetAssignment \/ Reset

(* clk runs. *)
Spec == Init /\ [][Next]_vars /\ WF_vars(Next)

-----------------------------------------------------------------------------
(* No event is lost on its way from ILAT to IPEND, whatever the software   *)
(* clears in other bits meanwhile, none is taken twice, and none is made   *)
(* up: the two registers hold exactly what the software has yet to handle. *)
(* Not counted: pulses while the source is pending, and pulses that meet a *)
(* write to ILAT_W1C.                                                      *)
EventsExact == owed = ilat \cup ipend

(* What the comparison irq < irq_d and irq_d(4 downto 1) < irq computes    *)
(* when channels join the ones pending a clock ago: a new channel above    *)
(* the lowest priority pending one, and none below it.                     *)
Before == CHOOSE S \in SUBSET Output : irq_d = 2 * Value(S)
Joined == irq \ Before
Lowest(S) == CHOOSE n \in S : \A k \in S : k <= n

OverrideExact ==
  [][~nmi_d' /\ Before # {} /\ Before \subseteq irq =>
       (override' <=> Joined # {} /\ \A n \in Joined : n < Lowest(Before))]_vars

(* An event that stays unmasked, none of higher priority being owed to the *)
(* software, reaches the CPU with the vector of its channel, however     *)
(* often other sources fire, override and are cleared.                     *)
TopServed == \A i \in Source, map \in Assignments :
  <>[](/\ i \in owed /\ i \in imask /\ iar = map /\ ~nmi_d
       /\ \A j \in owed \ {i} : map[i] <= map[j])
    => []<>(irqo /\ ivaddr = map[i])
=============================================================================
