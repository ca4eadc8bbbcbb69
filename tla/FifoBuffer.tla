----------------------------- MODULE FifoBuffer -----------------------------
(***************************************************************************)
(* The configurable FIFO of the UART (hdl/core/fifobuf.vhdl), one step per *)
(* rising clock edge, in the variant the UART instantiates                 *)
(* (EXTRA_REGISTER = false).  The ports wren, idata, rden and reset are    *)
(* the parameters of the step; the remaining signals are derived.          *)
(*                                                                         *)
(* The memory is the dual port RAM hdl/ram/bram.vhdl: both ports are       *)
(* clocked, so the word at optr reaches odata one clock after optr points  *)
(* to it, and a read of the very address written at the same edge races    *)
(* with the write (shared variable `ram').                                 *)
(***************************************************************************)
EXTENDS Naturals

CONSTANTS
  Depth,   \* number of words, 2**ADDR_W
  Data     \* the words idata can carry

ASSUME DepthAssumption == Depth \in Nat /\ Depth >= 2
ASSUME DataAssumption == Data # {}

VARIABLES
  iptr,    \* write pointer
  optr,    \* read pointer
  state,   \* FSM
  mem,     \* the dual port RAM
  rdata    \* output register of its read port: odata

vars == <<iptr, optr, state, mem, rdata>>

Addr == 0 .. Depth - 1
State == {"S_IDLE", "S_READY", "S_FULL", "S_ERROR"}

TypeOK ==
  /\ iptr \in Addr
  /\ optr \in Addr
  /\ state \in State
  /\ mem \in [Addr -> Data]
  /\ rdata \in Data

-----------------------------------------------------------------------------
(* Combinational signals. *)

Succ(p) == IF p = Depth - 1 THEN 0 ELSE p + 1   \* ADDR_W bits: p + 1 wraps

maybe_full  == optr = Succ(iptr)
maybe_empty == iptr = Succ(optr)
dready      == state \in {"S_READY", "S_FULL"}   \* oready
over        == state = "S_ERROR"                 \* err
iready      == state # "S_FULL"

-----------------------------------------------------------------------------
(* The clocked processes. *)

Count(wren, rden) ==
  /\ iptr' = IF wren THEN Succ(iptr) ELSE iptr
  /\ optr' = IF rden THEN Succ(optr) ELSE optr

Fsm_FullIgnoresRead(wren, rden) ==
  \/ state = "S_IDLE" /\ state' = IF wren THEN "S_READY" ELSE "S_IDLE"
  \/ /\ state = "S_READY"
     /\ state' = IF wren /\ maybe_full THEN "S_FULL"
                ELSE IF ~wren /\ rden /\ maybe_empty THEN "S_IDLE" ELSE "S_READY"
  \/ state = "S_FULL" /\ state' = IF rden THEN "S_READY" ELSE "S_FULL"
  \/ state = "S_ERROR" /\ UNCHANGED state

Fsm_ExchangeOverruns(wren, rden) ==
  \/ /\ state = "S_FULL"
     /\ state' = IF wren THEN "S_ERROR" ELSE IF rden THEN "S_READY" ELSE "S_FULL"
  \/ state # "S_FULL" /\ Fsm_FullIgnoresRead(wren, rden)

Fsm(wren, rden) ==
  \/ /\ state = "S_IDLE"
     /\ state' = IF wren THEN "S_READY" ELSE "S_IDLE"
  \/ /\ state = "S_READY"
     /\ state' = IF wren /\ ~rden /\ maybe_full THEN "S_FULL"
                ELSE IF ~wren /\ rden /\ maybe_empty THEN "S_IDLE"
                ELSE "S_READY"
  \/ /\ state = "S_FULL"
     /\ state' = IF wren = rden THEN "S_FULL"
                ELSE IF wren THEN "S_ERROR" ELSE "S_READY"
  \/ /\ state = "S_ERROR"
     /\ UNCHANGED state

Ram_ReadsAtIptr(wren, idata) ==
  /\ mem' = IF wren THEN [mem EXCEPT ![iptr] = idata] ELSE mem
  /\ rdata' = mem[iptr]

Ram(wren, idata) ==
  /\ mem' = IF wren THEN [mem EXCEPT ![iptr] = idata] ELSE mem
  /\ \/ rdata' = mem[optr]
     \/ wren /\ optr = iptr /\ rdata' = idata

Init ==
  /\ iptr = 0
  /\ optr = 0
  /\ state = "S_IDLE"
  /\ mem \in [Addr -> Data]
  /\ rdata \in Data

Clock(wren, idata, rden) ==
  /\ Count(wren, rden)
  /\ Fsm(wren, rden)
  /\ Ram(wren, idata)

(* A clock edge with reset high: pointers and state clear, the RAM does    *)
(* not see reset.                                                          *)
Reset(wren, idata) ==
  /\ iptr' = 0
  /\ optr' = 0
  /\ state' = "S_IDLE"
  /\ Ram(wren, idata)

(* The reader honours oready, as rxfifo_rden = select_rxr and rxdata_ready *)
(* does in uart.vhdl; the writer is unconstrained.                         *)
Next ==
  \E wren \in BOOLEAN, idata \in Data :
    \/ \E rden \in BOOLEAN : (rden => dready) /\ Clock(wren, idata, rden)
    \/ Reset(wren, idata)

Spec == Init /\ [][Next]_vars

-----------------------------------------------------------------------------
(* The FSM state alone tells "empty" from "full": the pointers are equal   *)
(* in both (the "ambiguous signals" maybe_full and maybe_empty of the fsm  *)
(* process), for every interleaving of writes, reads, both and resets.     *)
PtrState ==
  /\ state \in {"S_IDLE", "S_FULL"} => iptr = optr
  /\ state = "S_READY" => iptr # optr

(* A word that was not popped at an edge is on odata after it, and is the  *)
(* one optr points to: a reader that leaves one clock between two pops, or *)
(* between the first write and its pop, never sees a stale word.           *)
HeadShown ==
  [][dready /\ dready' /\ optr' = optr => rdata' = mem'[optr']]_vars

-----------------------------------------------------------------------------
(* Refinement: the words from optr up to iptr are the queue.               *)

Wrap(a) == IF a < Depth THEN a ELSE a - Depth

Fill ==
  IF state = "S_READY"
  THEN IF optr < iptr THEN iptr - optr ELSE iptr + Depth - optr
  ELSE IF state = "S_FULL" THEN Depth ELSE 0

Slice(m, o, n) == [k \in 1 .. n |-> m[Wrap(o + k - 1)]]

Contents == Slice(mem, optr, Fill)

Queue == INSTANCE FifoQueue WITH
  Capacity <- Depth, queue <- Contents, failed <- over, shown <- rdata

(* Words leave in the order they were written, none is lost or duplicated, *)
(* until an overrun, which is reported on err and loses all of them.       *)
ImplementsQueue == Queue!Spec

=============================================================================
