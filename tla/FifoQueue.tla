----------------------------- MODULE FifoQueue ------------------------------
(***************************************************************************)
(* What hdl/core/fifobuf.vhdl promises its two clients: a bounded queue    *)
(* with a writer and a reader acting at the same clock edge, which fails   *)
(* as a whole when it is written while full, until it is reset.            *)
(*                                                                         *)
(* `shown' is the word on odata.  It lags by one clock: an edge copies the *)
(* head the queue had before the edge.  With nothing in the queue, or with *)
(* its last free word being exchanged, the word shown is unspecified.      *)
(***************************************************************************)
EXTENDS Naturals, Sequences

CONSTANTS
  Capacity,   \* words the queue can hold
  Data        \* the words

VARIABLES queue, failed, shown

qvars == <<queue, failed, shown>>

Full == Len(queue) = Capacity

Show == IF queue = <<>> THEN Data ELSE {Head(queue)}

Init ==
  /\ queue = <<>>
  /\ failed = FALSE
  /\ shown \in Data

Idle ==
  /\ ~failed
  /\ UNCHANGED <<queue, failed>>
  /\ shown' \in Show

Put(d) ==
  /\ ~failed
  /\ ~Full
  /\ queue' = Append(queue, d)
  /\ UNCHANGED failed
  /\ shown' \in Show

Get ==
  /\ queue # <<>>
  /\ queue' = Tail(queue)
  /\ UNCHANGED failed
  /\ shown' \in Show

Exchange(d) ==   \* write and read at the same edge, allowed while full
  /\ queue # <<>>
  /\ queue' = Append(Tail(queue), d)
  /\ UNCHANGED failed
  /\ shown' \in IF Full THEN Data ELSE Show

Overrun ==       \* written while full: everything queued is lost
  /\ ~failed
  /\ Full
  /\ queue' = <<>>
  /\ failed' = TRUE
  /\ shown' \in Data

Failed ==        \* until reset, nothing is accepted or delivered
  /\ failed
  /\ UNCHANGED <<queue, failed>>
  /\ shown' \in Data

Reset ==
  /\ queue' = <<>>
  /\ failed' = FALSE
  /\ shown' \in Data

Next ==
  \/ Idle \/ Get \/ Overrun \/ Failed \/ Reset
  \/ \E d \in Data : Put(d) \/ Exchange(d)

Spec == Init /\ [][Next]_qvars
=============================================================================
