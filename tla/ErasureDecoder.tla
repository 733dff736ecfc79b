--------------------------- MODULE ErasureDecoder ---------------------------
(***************************************************************************)
(* What a decoder of YoloFountain frames promises, without its data          *)
(* structures: frames arrive in any order, any number of times, some never;  *)
(* as soon as the frames received leave exactly one block of one of them     *)
(* unknown, that block becomes known, and no other way of knowing exists.    *)
(***************************************************************************)
EXTENDS Droplets

VARIABLES
    received,   \* the frames the decoder was given so far
    known       \* the source blocks recovered so far

absVars == <<received, known>>

Init == received = {} /\ known = {}

\* The next frame is taken only once everything the earlier ones allow is known.
Receive(i) ==
    /\ PeelClosed(known, received)
    /\ received' = received \cup {i}
    /\ UNCHANGED known

Recover(b) ==
    /\ \E i \in received : BlocksFor(i) \ known = {b}
    /\ known' = known \cup {b}
    /\ UNCHANGED received

RecoverSome == \E b \in Blocks : Recover(b)

Next == RecoverSome \/ \E i \in Frames : Receive(i)

Spec == Init /\ [][Next]_absVars
FairSpec == Spec /\ WF_absVars(RecoverSome)
=============================================================================
