---------------------------- MODULE MCSoftState ----------------------------
(* States of one block and of two or three for TLC. *)
EXTENDS SoftState

OneOrTwo == [z \in {"short", "long"} |-> IF z = "short" THEN 1 ELSE 2]
OneOrThree == [z \in {"short", "long"} |-> IF z = "short" THEN 1 ELSE 3]
=============================================================================
