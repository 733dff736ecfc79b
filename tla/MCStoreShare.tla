---------------------------- MODULE MCStoreShare ----------------------------
(* The first node owns the keys, the second reads them; a list, which JSON    *)
(* keeps, and a set, which it rejects.                                        *)
EXTENDS StoreShare

Owners == [k \in Keys |-> 1]
JsonOf == [v \in Values |-> IF v = "set" THEN NoJson ELSE v]
=============================================================================
