----------------------------- MODULE MCPresence -----------------------------
(* The states of MCSoftState for TLC. *)
EXTENDS Presence, MCSoftState
=============================================================================
