----------------------------- MODULE LossyQueue -----------------------------
(***************************************************************************)
(* What the receive ring of the 16550 driver (sw/driver.h, sw/irqhandler.c,*)
(* sw/uart16650.c) promises: a queue in order of arrival that loses nothing*)
(* while fewer than Size - 1 bytes wait.  The next byte drops the whole    *)
(* queue, unless the reader already is at its head; then one more byte     *)
(* replaces everything that waits.                                         *)
(***************************************************************************)
EXTENDS Naturals, Sequences

CONSTANTS
  Size,   \* slots of the ring
  Byte

VARIABLES
  queue,  \* bytes received and not read
  got,    \* the byte read last
  puts    \* parity of the bytes that arrived: each arrival is a step

Init ==
  /\ queue = <<>>
  /\ got \in Byte
  /\ puts = 0

Put(b) ==
  /\ \/ Len(queue) < Size - 1 /\ queue' = Append(queue, b)
     \/ Len(queue) = Size - 1 /\ queue' \in {<<>>, Append(queue, b)}
     \/ Len(queue) = Size /\ queue' = <<b>>
  /\ puts' = 1 - puts
  /\ UNCHANGED got

Get ==
  /\ queue # <<>>
  /\ got' = Head(queue)
  /\ queue' = Tail(queue)
  /\ UNCHANGED puts

Clear ==   \* uart_init
  /\ queue' = <<>>
  /\ UNCHANGED <<got, puts>>

Next == Get \/ Clear \/ \E b \in Byte : Put(b)

Spec == Init /\ [][Next]_<<queue, got, puts>>
=============================================================================
