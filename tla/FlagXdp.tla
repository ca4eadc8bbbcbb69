------------------------------ MODULE FlagXdp ------------------------------
(***************************************************************************)
(* The pulse synchronizer that carries emuexec of the test access port     *)
(* into the clock domain of the CPU (hdl/core/flagxdp.vhd, instance        *)
(* exec_pulse of the SoC files).  A rising edge of datai flips toggle on   *)
(* clki; clko shifts toggle through syncpipe; two bits that differ are a   *)
(* strobe.  A step is an edge of one of the clocks.  A register sampled    *)
(* while it changes yields either value: the two orders of the edges.      *)
(***************************************************************************)
EXTENDS Integers

CONSTANTS
  Gap,        \* least number of clki periods from one rise of datai to the next
  Ratio,      \* largest number of clki edges between two edges of clko
  MaxResets   \* bound: tap resets

(* Two pulses are at least as far apart as two edges of the slower clock.  *)
ASSUME FlagXdpAssumption ==
  /\ Gap \in Nat \ {0}
  /\ Ratio \in Nat \ {0}
  /\ Ratio <= Gap
  /\ MaxResets \in Nat

VARIABLES
  datai, isig_d, toggle,   \* clki domain
  syncpipe,                \* clko domain
  since,                   \* clki edges since datai rose, at most Gap
  run,                     \* clki edges since the last edge of clko
  flips,                   \* flips of toggle not yet seen as a strobe
  resets                   \* tap resets

clki == <<datai, isig_d, toggle>>
xdpvars == <<clki, syncpipe, since, run, flips, resets>>

Logic == {0, 1}
Xor(a, b) == IF a = b THEN 0 ELSE 1

sig == IF datai = 1 /\ isig_d = 0 THEN 1 ELSE 0
datao == Xor(syncpipe[1], syncpipe[2])

XdpTypeOK ==
  /\ {datai, isig_d, toggle} \subseteq Logic
  /\ syncpipe \in [0 .. 2 -> Logic]
  /\ since \in 0 .. Gap
  /\ run \in 0 .. Ratio
  /\ flips \in Nat
  /\ resets \in 0 .. MaxResets

-----------------------------------------------------------------------------
in_worker_Level ==           \* no edge detection
  /\ toggle' = Xor(toggle, datai)
  /\ isig_d' = datai

in_worker ==
  /\ toggle' = Xor(toggle, sig)
  /\ isig_d' = datai

out_worker_Skip ==           \* one stage too few
  syncpipe' = [n \in 0 .. 2 |-> IF n = 0 THEN toggle ELSE syncpipe[0]]

out_worker == syncpipe' = [n \in 0 .. 2 |-> IF n = 0 THEN toggle ELSE syncpipe[n - 1]]

(* The access port raises or drops emuexec. *)
Drive(next) ==
  /\ datai' = next
  /\ next = 1 /\ datai = 0 => since + 1 >= Gap
  /\ since' = IF next = 1 /\ datai = 0 THEN 0
              ELSE IF since < Gap THEN since + 1 ELSE Gap

In == \E next \in Logic :    \* rising edge of clki
  /\ run < Ratio
  /\ in_worker
  /\ Drive(next)
  /\ run' = run + 1
  /\ flips' = flips + sig
  /\ UNCHANGED <<syncpipe, resets>>

(* A rising edge of clki with reset high.  The fall of toggle is a flip.   *)
Reset == \E next \in Logic :
  /\ run < Ratio
  /\ resets < MaxResets
  /\ toggle' = 0 /\ isig_d' = 0
  /\ Drive(next)
  /\ run' = run + 1
  /\ flips' = flips + toggle
  /\ resets' = resets + 1
  /\ UNCHANGED syncpipe

Out ==                       \* rising edge of clko: the CPU samples datao
  /\ out_worker
  /\ run' = 0
  /\ flips' = flips - datao
  /\ UNCHANGED <<clki, since, resets>>

XdpInit ==
  /\ datai = 0 /\ isig_d = 0 /\ toggle = 0
  /\ syncpipe = [n \in 0 .. 2 |-> 0]
  /\ since = Gap /\ run = 0
  /\ flips = 0 /\ resets = 0

XdpNext == In \/ Reset \/ Out

(* clko, the clock of the CPU, runs; tapclk may stop. *)
XdpSpec == XdpInit /\ [][XdpNext]_xdpvars /\ WF_xdpvars(Out)

-----------------------------------------------------------------------------
(* The flips on their way through the pipe. *)
InFlight == Xor(toggle, syncpipe[0]) + Xor(syncpipe[0], syncpipe[1])
              + Xor(syncpipe[1], syncpipe[2])

(* No pulse is lost between the clock domains and none is doubled.  Resets *)
(* of the access port may lose pulses and may each add one strobe, never   *)
(* more: the strobes to come are at most the flips not yet seen.           *)
NoneLost == IF resets = 0 THEN flips = InFlight ELSE flips >= InFlight

(* Every pulse becomes a strobe: once emuexec stays low, all are out.      *)
Drained == <>[](datai = 0) => <>[](flips = 0 \/ resets > 0)

=============================================================================
