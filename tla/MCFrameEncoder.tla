--------------------------- MODULE MCFrameEncoder ---------------------------
(* Encoders of 2 and of 5 blocks for TLC, on both paths, with a block size     *)
(* that its field holds and one that it does not, and one that a compiler      *)
(* reordered.  The sums of the cdf are rounded: the entry before the last may  *)
(* exceed it.                                                                  *)
EXTENDS FrameEncoder

Small == [native |-> TRUE, ordered |-> TRUE, n |-> 2, k |-> 3, cdf |-> <<1, 3>>]
Large == [Small EXCEPT !.n = 5, !.cdf = <<0, 1, 2, 4, 3>>]
EncoderSettings ==
    {Large, [Large EXCEPT !.native = FALSE], [Small EXCEPT !.k = 4],
     [Small EXCEPT !.k = 4, !.native = FALSE], [Small EXCEPT !.ordered = FALSE]}
=============================================================================
