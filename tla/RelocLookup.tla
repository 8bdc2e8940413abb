---------------------------- MODULE RelocLookup ----------------------------
(***************************************************************************)
(* What relocation promises: an instruction that has an immediate and asks *)
(* for it gets the value that the relocation of its own address stands     *)
(* for, found by looking its address up, and the two halves of an address  *)
(* add up to it, the low one being a signed number.                        *)
(***************************************************************************)
EXTENDS Integers

CONSTANTS
    Half,  \* half of what the low part of an address ranges over
    Highs  \* number of values of the high part; neither is 0

Low == 2 * Half
W   == Highs * Low
Word == 0 .. W - 1

\* Nothing: an instruction without a relocation.
NoValue == -1

VARIABLES
    pos,    \* address of the next instruction
    wanted, \* for each address, the part of which value its instruction wants
    given   \* for each address, what its instruction was given

\* v is the high part of x, or its low part.
IsHigh(v, x) == /\ v \in 0 .. Highs - 1
                /\ \E l \in -Half .. Half - 1 : (v * Low + l - x) % W = 0
IsLow(v, x)  == \E l \in -Half .. Half - 1 :
                    /\ v = l % W
                    /\ \E h \in 0 .. Highs - 1 : (h * Low + l - x) % W = 0

Fits(v, want) ==
    CASE want.part = "high"  -> IsHigh(v, want.of)
      [] want.part = "low"   -> IsLow(v, want.of)
      [] want.part = "whole" -> v = want.of
      [] want.part = "none"  -> v = NoValue

Give == \E v \in Word \cup {NoValue} :
    /\ Fits(v, wanted[pos])
    /\ given' = [given EXCEPT ![pos] = v]
    /\ pos' = pos + 1
    /\ UNCHANGED wanted

\* An instruction that does not ask.
Ignore ==
    /\ wanted[pos].part = "none"
    /\ pos' = pos + 1
    /\ UNCHANGED <<wanted, given>>

LookupInit == given = [a \in DOMAIN wanted |-> NoValue]
LookupNext == pos \in DOMAIN wanted /\ (Give \/ Ignore)
LookupSpec == LookupInit /\ [][LookupNext]_<<pos, wanted, given>>
=============================================================================
