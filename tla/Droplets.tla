------------------------------ MODULE Droplets ------------------------------
(***************************************************************************)
(* Which source blocks a frame of a YoloFountain transfer combines         *)
(* (src/yolofountain/codec.py, blocks_for_frame).  Sender and receiver both *)
(* compute it from the frame index alone, so it is a constant of a transfer. *)
(* The pseudo-random choice behind a repair droplet (mulberry32, robust     *)
(* soliton) is abstracted to the parameter Repair: any nonempty set of      *)
(* distinct blocks.                                                         *)
(***************************************************************************)
EXTENDS Naturals

CONSTANTS
    N,          \* number of source blocks of the transfer
    MaxFrame,   \* bound: frame indices 0..MaxFrame are considered
    Repair      \* the blocks of every repair droplet N..MaxFrame

Blocks == 0 .. N - 1
Frames == 0 .. MaxFrame

\* A transfer has at least one block (max(1, ceil(len / K))); a repair droplet
\* has degree at least one and never names a block twice.
ASSUME NAssumption == N \in Nat \ {0}
ASSUME MaxFrameAssumption == MaxFrame \in Nat
ASSUME RepairAssumption ==
    Repair \in [{i \in Frames : i >= N} -> (SUBSET Blocks) \ {{}}]

\* Tiny transfers are sent round robin; otherwise the first N frames are the
\* raw blocks and the rest are repair droplets.
BlocksFor(i) ==
    IF N <= 4 THEN {i % N}
    ELSE IF i < N THEN {i}
    ELSE Repair[i]

\* K is closed under peeling for the frames fs: no frame of fs misses exactly
\* one block of K.
PeelClosed(K, fs) == \A i \in fs, b \in Blocks : BlocksFor(i) \ K # {b}
=============================================================================
