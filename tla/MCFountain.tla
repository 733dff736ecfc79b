----------------------------- MODULE MCFountain -----------------------------
(* Small transfers for TLC.  The repair droplets are the ones             *)
(* blocks_for_frame really computes for these N.                          *)
EXTENDS Fountain, TLC

RepairFive == 5 :> {2} @@ 6 :> {0, 1, 2, 4} @@ 7 :> {0, 2, 3} @@ 8 :> {2, 3}
              @@ 9 :> {0, 1, 4} @@ 10 :> {1, 2, 3, 4} @@ 11 :> {1, 2}
              @@ 12 :> {0, 3} @@ 13 :> {1, 3, 4}
RepairFiveShort == [i \in 5 .. 9 |-> RepairFive[i]]
=============================================================================
