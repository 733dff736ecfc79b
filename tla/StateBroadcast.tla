--------------------------- MODULE StateBroadcast ---------------------------
(***************************************************************************)
(* What softstate promises a subscriber, without frames, sessions and       *)
(* decoders: for every publisher it shows nothing yet or one whole          *)
(* publication, and the one it shows only ever moves forward.               *)
(***************************************************************************)
EXTENDS Naturals

CONSTANTS Pids, MaxPub

VARIABLES
    published,  \* how many states each publisher has published
    view        \* the publication shown of each publisher, 0 for none

absVars == <<published, view>>

Init == published = [p \in Pids |-> 0] /\ view = [p \in Pids |-> 0]

Publish(p) ==
    /\ published[p] < MaxPub
    /\ published' = [published EXCEPT ![p] = @ + 1]
    /\ UNCHANGED view

Advance(p) ==
    /\ \E n \in view[p] + 1 .. published[p] : view' = [view EXCEPT ![p] = n]
    /\ UNCHANGED published

\* The subscriber starts over, and joins late.
Join == view' = [p \in Pids |-> 0] /\ UNCHANGED published

Next == Join \/ \E p \in Pids : Publish(p) \/ Advance(p)

Spec == Init /\ [][Next]_absVars
=============================================================================
