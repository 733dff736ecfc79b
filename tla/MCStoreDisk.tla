---------------------------- MODULE MCStoreDisk ----------------------------
(* A store of two keys for TLC.  A list survives JSON, a tuple comes back as *)
(* a list, and an object is rejected by json.dumps.                          *)
EXTENDS StoreDisk

JsonForms == [v \in {"list", "tuple", "object"} |->
                 IF v = "object" THEN NoJson ELSE "list"]
=============================================================================
