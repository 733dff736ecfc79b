---------------------------- MODULE MCClipboard ----------------------------
(* For TLC: the first machine's clock is ahead, the last one's clipboard may be *)
(* held too long, and two users copy.                                          *)
EXTENDS Clipboard

NoSkew == [n \in Nodes |-> 0]
OneAhead == [n \in Nodes |-> IF n = 1 THEN 3 ELSE 0]
NeverBusy == [n \in Nodes |-> 0]
LastBusy == [n \in Nodes |-> IF n = 3 THEN 1 ELSE 0]
TwoUsers == {<<1, "a">>, <<2, "b">>}
WithPicture == {<<1, "a">>, <<2, "b">>, <<1, NoText>>}
=============================================================================
