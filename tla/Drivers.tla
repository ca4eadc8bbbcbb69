------------------------------- MODULE Drivers ------------------------------
(***************************************************************************)
(* The drivers of the serial busses, and the functions on text.  The       *)
(* firmware is one program, which makes one call at a time, and they share *)
(* no state: as a bound, a behaviour uses one of them.                     *)
(***************************************************************************)
EXTENDS SpiFlash, I2cOc, Twi, Text

VARIABLE device    \* the one in use

vars == <<device, spivars, ocvars, twivars, sample>>

(* Those not in use have one initial state.                                *)
Init ==
  /\ device \in {"flash", "i2c", "twi", "text"}
  /\ SpiInit /\ OcInit /\ TwiInit /\ TextInit
  /\ device # "flash" => spi32
  /\ device # "i2c" =>
       /\ ptr = (CHOOSE r \in Reg : TRUE)
       /\ regs = [r \in Reg |-> CHOOSE v \in Value : TRUE]

Flash == device = "flash" /\ SpiNext /\ UNCHANGED <<device, ocvars, twivars, sample>>
I2c == device = "i2c" /\ OcNext /\ UNCHANGED <<device, spivars, twivars, sample>>
TwoWire == device = "twi" /\ TwiNext /\ UNCHANGED <<device, spivars, ocvars, sample>>
Library == device = "text" /\ TextNext /\ UNCHANGED <<device, spivars, ocvars, twivars>>

Next == Flash \/ I2c \/ TwoWire \/ Library

Spec == Init /\ [][Next]_vars /\ SpiFair /\ TwiFair

(* The states of every driver have their types.                            *)
TypeOK == FlashTypeOK /\ OcTypeOK /\ TwiTypeOK

(* Both two-wire drivers let the bus go at the end of a call, but for the  *)
(* cases named in their modules.                                           *)
BusReleased == OcReleased /\ TwiReleased

(* Every call of the flash and the two-wire driver returns, whatever the   *)
(* calls before it have left under way.                                    *)
CallsReturn == FlashReturns /\ TwiReturns
=============================================================================
