------------------------------ MODULE MCBase45 ------------------------------
(* Every frame of up to four bytes and every text of up to six characters.  *)
EXTENDS Base45

StringsUpTo(S, n) == UNION {[1 .. k -> S] : k \in 0 .. n}
ShortFrames == StringsUpTo(Bytes, 4)
ShortTexts == StringsUpTo(Symbols \cup {Foreign}, 6)
=============================================================================
