------------------------------- MODULE RxRing -------------------------------
(***************************************************************************)
(* The receive ring of the 16550 driver: filled by the interrupt handler   *)
(* (_zpu_interrupt in sw/irqhandler.c), emptied by uart_read and set up by *)
(* uart_init (sw/uart16650.c).  The handler interrupts the program between *)
(* any two accesses to the ring and is not interrupted itself; the line    *)
(* goes on during both.  The echo of the handler is output only and left   *)
(* out.                                                                    *)
(***************************************************************************)
EXTENDS Naturals, Sequences

CONSTANTS
  Byte,
  Size     \* FIFO_SIZE_UART

ASSUME RingAssumption == Byte # {} /\ Size \in Nat \ {0, 1}

VARIABLES
  rbr,      \* bytes in the receive register of the 16550: at most one
  brk,      \* LSR_BI
  buf, head, tail, flags,  \* g_uart
  imask, ipend,            \* the UART's bit of the SIC registers
  handler,  \* "off", "entered", "served": where _zpu_interrupt is
  pc,       \* where the program is: in uart_init or in the loop of uart_read
  got,      \* the byte uart_read copied last
  puts      \* history: parity of the bytes taken from the receiver

hwvars == <<rbr, brk>>
ringvars == <<rbr, brk, buf, head, tail, flags, imask, ipend, handler, pc, got, puts>>

Slot == 0 .. Size - 1

(* i & (Size - 1): indices are masked before they reach 2 * Size.          *)
Mask(i) == IF i < Size THEN i ELSE i - Size

RingTypeOK ==
  /\ rbr \in {{}} \cup {{b} : b \in Byte}
  /\ brk \in BOOLEAN
  /\ buf \in [Slot -> Byte]
  /\ head \in Slot
  /\ tail \in 0 .. Size
  /\ tail = Size => pc = "mask"
  /\ flags \in SUBSET {"F_BREAK"}
  /\ imask \in BOOLEAN /\ ipend \in BOOLEAN
  /\ handler \in {"off", "entered", "served"}
  /\ pc \in {"init", "enable", "test", "copy", "mask"}
  /\ got \in Byte
  /\ puts \in {0, 1}

Zero == CHOOSE b \in Byte : TRUE     \* static storage

RingInit ==
  /\ rbr = {} /\ brk = FALSE
  /\ buf = [i \in Slot |-> Zero] /\ head = 0 /\ tail = 0 /\ flags = {}
  /\ imask = FALSE /\ ipend = FALSE
  /\ handler = "off" /\ pc = "init"
  /\ got = Zero /\ puts = 0

-----------------------------------------------------------------------------
(* The 16550 with its FIFOs disabled: a byte not read is overwritten; the  *)
(* line of its interrupt stays up while there is something to serve.       *)

ReceiveByte(b) ==
  /\ rbr' = {b}
  /\ UNCHANGED <<brk, buf, head, tail, flags, imask, ipend, handler, pc, got, puts>>

ReceiveBreak ==
  /\ brk' = TRUE
  /\ UNCHANGED <<rbr, buf, head, tail, flags, imask, ipend, handler, pc, got, puts>>

Latch ==
  /\ imask /\ ~ipend
  /\ rbr # {} \/ brk
  /\ ipend' = TRUE
  /\ UNCHANGED <<rbr, brk, buf, head, tail, flags, imask, handler, pc, got, puts>>

-----------------------------------------------------------------------------
Enter ==
  /\ ipend /\ handler = "off"
  /\ handler' = "entered"
  /\ UNCHANGED <<rbr, brk, buf, head, tail, flags, imask, ipend, pc, got, puts>>

Store_NoMask(b) ==   \* the index runs on to the last slot and stays there
  /\ buf' = [buf EXCEPT ![head] = b]
  /\ head' = IF head = Size - 1 THEN head ELSE head + 1

Store(b) ==
  /\ buf' = [buf EXCEPT ![head] = b]
  /\ head' = Mask(head + 1)

(* Reading LSR clears BI; a byte goes before a break.                      *)
Serve ==
  /\ handler = "entered"
  /\ handler' = "served"
  /\ brk' = FALSE
  /\ rbr' = {}
  /\ \/ /\ \E b \in rbr : Store(b)
        /\ puts' = 1 - puts
        /\ UNCHANGED <<flags, imask>>
     \/ /\ rbr = {} /\ brk
        /\ imask' = FALSE
        /\ flags' = {"F_BREAK"}
        /\ UNCHANGED <<buf, head, puts>>
     \/ /\ rbr = {} /\ ~brk
        /\ UNCHANGED <<buf, head, flags, imask, puts>>
  /\ UNCHANGED <<tail, ipend, pc, got>>

Rearm_Masked ==     \* the acknowledge also clears the mask
  /\ handler = "served"
  /\ handler' = "off"
  /\ ipend' = FALSE /\ imask' = FALSE
  /\ UNCHANGED <<rbr, brk, buf, head, tail, flags, pc, got, puts>>

Rearm ==
  /\ handler = "served"
  /\ handler' = "off"
  /\ ipend' = FALSE
  /\ UNCHANGED <<rbr, brk, buf, head, tail, flags, imask, pc, got, puts>>

-----------------------------------------------------------------------------
(* uart_init: empty the receiver and the ring, then allow the interrupt.   *)
InitDrain ==
  /\ pc = "init"
  /\ rbr' = {}
  /\ head' = 0 /\ tail' = 0
  /\ pc' = "enable"
  /\ UNCHANGED <<brk, buf, flags, imask, ipend, handler, got, puts>>

InitEnable ==
  /\ pc = "enable"
  /\ imask' = TRUE
  /\ pc' = "test"
  /\ UNCHANGED <<rbr, brk, buf, head, tail, flags, ipend, handler, got, puts>>

(* uart_read, which the program calls over and over.                       *)
ReadTest ==
  /\ pc = "test" /\ handler = "off"
  /\ tail # head
  /\ pc' = "copy"
  /\ UNCHANGED <<hwvars, buf, head, tail, flags, imask, ipend, handler, got, puts>>

ReadCopy ==
  /\ pc = "copy" /\ handler = "off"
  /\ got' = buf[tail]
  /\ tail' = tail + 1
  /\ pc' = "mask"
  /\ UNCHANGED <<hwvars, buf, head, flags, imask, ipend, handler, puts>>

ReadMask ==
  /\ pc = "mask" /\ handler = "off"
  /\ tail' = Mask(tail)
  /\ pc' = "test"
  /\ UNCHANGED <<hwvars, buf, head, flags, imask, ipend, handler, got, puts>>

-----------------------------------------------------------------------------
Handler == Enter \/ Serve \/ Rearm
Program == InitDrain \/ InitEnable \/ ReadTest \/ ReadCopy \/ ReadMask

RingNext ==
  \/ Handler \/ Program \/ Latch \/ ReceiveBreak
  \/ \E b \in Byte : ReceiveByte(b)

RingSafe == RingInit /\ [][RingNext]_ringvars

(* Interrupts are taken and served, and the program keeps reading.         *)
RingFair == WF_ringvars(Latch) /\ WF_ringvars(Handler) /\ WF_ringvars(Program)

RingSpec == RingSafe /\ RingFair

-----------------------------------------------------------------------------
(* The bytes in the ring.  Once past its test, the reader takes equal      *)
(* indices for a full ring.                                                *)
Count == IF pc = "copy" /\ head = tail THEN Size
         ELSE Mask(head + Size - Mask(tail))

(* n slots of ring m from index o on.                                      *)
Slice(m, o, n) == [k \in 1 .. n |-> m[Mask(o + k - 1)]]

Queued == Slice(buf, Mask(tail), Count)

Abstract == INSTANCE LossyQueue WITH queue <- Queued

(* uart_read returns the bytes the handler stored in their order, each     *)
(* once; none is lost before Size - 1 bytes wait, however the handler falls*)
(* between the reader's steps.                                             *)
RingImplements == Abstract!Spec

(* A byte in the receiver is fetched, unless a break has switched the      *)
(* interrupt off, after which nothing ever switches it on again.           *)
ByteFetched ==
  (pc \in {"test", "copy", "mask"} /\ rbr # {}) ~> (rbr = {} \/ flags # {})
=============================================================================
