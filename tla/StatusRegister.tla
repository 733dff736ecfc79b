--------------------------- MODULE StatusRegister ---------------------------
(***************************************************************************)
(* What a slot of HardenedStore promises: an atomic register.  A read        *)
(* returns the publication that stands at one moment of the read, or says    *)
(* that it has none to offer; it never returns another one.                  *)
(***************************************************************************)
EXTENDS Naturals

CONSTANT MaxPub     \* bound: publications

VARIABLES
    value,      \* the publication that stands, 0 for none
    answer      \* what the last read returned: a publication, or 0 for none

absVars == <<value, answer>>

Init == value = 0 /\ answer = 0

\* A writer that dies leaves a gap in the numbering.
Publish == value' \in value + 1 .. MaxPub /\ UNCHANGED answer

Answer == answer' \in {0, value} /\ UNCHANGED value

Next == Publish \/ Answer

Spec == Init /\ [][Next]_absVars
=============================================================================
