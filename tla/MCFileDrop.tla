----------------------------- MODULE MCFileDrop -----------------------------
(* Three transfers: two of the same session and different lengths, two with a *)
(* file of the same name, one of two files; one in clear, one encrypted with  *)
(* the key of the group and one with another key.                             *)
EXTENDS FileDrop

Sessions == [t \in Transfers |-> IF t = "two" THEN 2 ELSE 1]
Lengths == [t \in Transfers |-> IF t = "one" THEN 4 ELSE 5]
Containers == [t \in Transfers |->
    CASE t = "one" -> <<"report">> [] t = "two" -> <<"report", "photo">>
      [] t = "three" -> <<"photo">>]
Passwords == [t \in Transfers |->
    CASE t = "one" -> None [] t = "two" -> "teamsecret" [] t = "three" -> "other"]
=============================================================================
