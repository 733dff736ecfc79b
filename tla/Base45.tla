------------------------------- MODULE Base45 -------------------------------
(***************************************************************************)
(* The base45 carrier (src/yolofountain/carriers/text.py): a frame travels as *)
(* text over a channel that only hands back text.  A run is either a frame    *)
(* that is encoded and then decoded by a receiver, or a text met on the       *)
(* channel that is decoded and, if it was taken for a frame, encoded again.   *)
(* The loops of base45_encode and base45_decode take a step for each group.   *)
(* The names of the specification start with "Carrier", because WireProofs    *)
(* extends this module together with FrameEncoder.                            *)
(***************************************************************************)
EXTENDS Integers, Sequences

CONSTANTS
    Byte,       \* values of a byte: 256
    Radix,      \* symbols of the alphabet: 45
    Foreign,    \* a character that is not of the alphabet
    Frames,     \* the byte strings senders encode
    Texts       \* the texts receivers meet

Bytes == 0 .. Byte - 1
Symbols == 0 .. Radix - 1

\* Three symbols hold two bytes, two symbols hold one.
ASSUME RadixAssumption ==
    /\ Byte \in Nat \ {0} /\ Radix \in Nat \ {0} /\ Foreign \notin Symbols
    /\ Byte <= Radix * Radix /\ Byte * Byte <= Radix * Radix * Radix

ASSUME InputsAssumption ==
    /\ Frames \subseteq Seq(Bytes)
    /\ Texts \subseteq Seq(Symbols \cup {Foreign})

VARIABLES
    pc,     \* "encode", "decode", "done", "refused"
    data,   \* the bytes the encoder reads or the decoder has written
    text,   \* the characters the decoder reads or the encoder has written
    at,     \* the loop's index into what it reads
    origin, \* history: "frame" or "text", what the run began with
    given   \* history: that frame or text

carrierVars == <<pc, data, text, at, origin, given>>

CarrierInit ==
    /\ at = 0
    /\ \/ /\ pc = "encode" /\ origin = "frame"
          /\ data \in Frames /\ text = <<>> /\ given = data
       \/ /\ pc = "decode" /\ origin = "text"
          /\ text \in Texts /\ data = <<>> /\ given = text

-----------------------------------------------------------------------------
(* base45_encode *)

PairValue(d, j) == d[j + 1] * Byte + d[j + 2]

\* Mutant: the lowest symbol comes last.
PairSymbolsReversed(v) == <<(v \div Radix) \div Radix, (v \div Radix) % Radix, v % Radix>>
PairSymbols(v) == <<v % Radix, (v \div Radix) % Radix, (v \div Radix) \div Radix>>

LastSymbols(v) == <<v % Radix, v \div Radix>>

EncodePair ==
    /\ pc = "encode" /\ at + 1 < Len(data)
    /\ text' = text \o PairSymbols(PairValue(data, at))
    /\ at' = at + 2
    /\ UNCHANGED <<pc, data, origin, given>>

EncodeLast ==
    /\ pc = "encode" /\ at + 1 = Len(data)
    /\ text' = text \o LastSymbols(data[at + 1])
    /\ at' = at + 1
    /\ UNCHANGED <<pc, data, origin, given>>

\* The text is complete; that of a frame goes to a receiver.
EncodeEnd ==
    /\ pc = "encode" /\ at = Len(data)
    /\ IF origin = "frame"
       THEN pc' = "decode" /\ at' = 0 /\ data' = <<>>
       ELSE pc' = "done" /\ UNCHANGED <<at, data>>
    /\ UNCHANGED <<text, origin, given>>

-----------------------------------------------------------------------------
(* base45_decode *)

\* No bytes have a text with one symbol left over.
RightLength(n) == n % 3 # 1

\* What the three symbols of t after j stand for, and the two at the end.
TripleValue(t, j) == t[j + 1] + t[j + 2] * Radix + t[j + 3] * Radix * Radix
DoubleValue(t, j) == t[j + 1] + t[j + 2] * Radix

InAlphabet(n) == \A k \in 1 .. n : text[at + k] \in Symbols

\* Mutant: the bound is off by one.
PairFitsOrMore(v) == v <= Byte * Byte
PairFits(v) == v < Byte * Byte

LastFits(v) == v < Byte

PairBytes(v) == <<v \div Byte, v % Byte>>

DecodeTriple ==
    /\ pc = "decode" /\ RightLength(Len(text))
    /\ at + 3 <= Len(text) /\ InAlphabet(3) /\ PairFits(TripleValue(text, at))
    /\ data' = data \o PairBytes(TripleValue(text, at))
    /\ at' = at + 3
    /\ UNCHANGED <<pc, text, origin, given>>

\* Mutant: a value above a byte's is not refused but cut to a byte.
DecodeLastCut ==
    /\ pc = "decode" /\ RightLength(Len(text))
    /\ at + 2 = Len(text) /\ InAlphabet(2)
    /\ data' = Append(data, DoubleValue(text, at) % Byte)
    /\ at' = at + 2
    /\ UNCHANGED <<pc, text, origin, given>>

DecodeLast ==
    /\ pc = "decode" /\ RightLength(Len(text))
    /\ at + 2 = Len(text) /\ InAlphabet(2) /\ LastFits(DoubleValue(text, at))
    /\ data' = Append(data, DoubleValue(text, at))
    /\ at' = at + 2
    /\ UNCHANGED <<pc, text, origin, given>>

\* A length no bytes have, a foreign character, or a group above the bytes' range.
Refuse ==
    /\ pc = "decode"
    /\ \/ ~RightLength(Len(text))
       \/ at + 3 <= Len(text) /\ ~(InAlphabet(3) /\ PairFits(TripleValue(text, at)))
       \/ at + 2 = Len(text) /\ ~(InAlphabet(2) /\ LastFits(DoubleValue(text, at)))
    /\ pc' = "refused"
    /\ UNCHANGED <<data, text, at, origin, given>>

\* The bytes are complete; those of a text met are encoded again.
DecodeEnd ==
    /\ pc = "decode" /\ RightLength(Len(text)) /\ at = Len(text)
    /\ IF origin = "text"
       THEN pc' = "encode" /\ at' = 0 /\ text' = <<>>
       ELSE pc' = "done" /\ UNCHANGED <<at, text>>
    /\ UNCHANGED <<data, origin, given>>

-----------------------------------------------------------------------------

CarrierNext == EncodePair \/ EncodeLast \/ EncodeEnd
        \/ DecodeTriple \/ DecodeLast \/ Refuse \/ DecodeEnd

CarrierSpec == CarrierInit /\ [][CarrierNext]_carrierVars

-----------------------------------------------------------------------------
(* Properties *)

\* Every variable keeps its type; what is written is bytes and symbols.
CarrierTypeOK ==
    /\ pc \in {"encode", "decode", "done", "refused"} /\ origin \in {"frame", "text"}
    /\ data \in Seq(Bytes) /\ text \in Seq(Symbols \cup {Foreign})
    /\ (pc = "encode" => text \in Seq(Symbols))
    /\ at \in Nat /\ (pc = "encode" => at <= Len(data)) /\ (pc = "decode" => at <= Len(text))
    /\ given \in (IF origin = "frame" THEN Frames ELSE Texts)

\* A frame that is sent as text arrives as it was, and is never refused.
RoundTrip == origin = "frame" => pc # "refused" /\ (pc = "done" => data = given)

\* A text is taken for a frame only if it is the text of that frame: no foreign
\* or altered text stands for a frame that some other text stands for.
Canonical == origin = "text" /\ pc = "done" => text = given

-----------------------------------------------------------------------------
(* The inductive invariant *)

\* The first p pairs of bytes of d and triples of symbols of t stand for one another.
Groups(d, t, p) == \A q \in 0 .. p - 1 : PairValue(d, 2 * q) = TripleValue(t, 3 * q)

\* The first m bytes of d stand in the first n symbols of t, group by group; there
\* is a group of one byte only if "last", where the loop has come to its end.
Stands(d, m, t, n, last) == \E p \in 0 .. m :
    /\ Groups(d, t, p)
    /\ \/ m = 2 * p /\ n = 3 * p
       \/ last /\ m = 2 * p + 1 /\ n = 3 * p + 2 /\ d[m] = DoubleValue(t, 3 * p)

Begins(s, t) == Len(s) <= Len(t) /\ \A k \in 1 .. Len(s) : s[k] = t[k]

\* A frame: what is encoded of it stands in the text, and what the receiver
\* decodes of that text is the beginning of the frame.
Encoding == origin = "frame" /\ pc = "encode" =>
    data = given /\ Stands(data, at, text, Len(text), at = Len(data))
Returning == origin = "frame" /\ pc # "encode" =>
    /\ given \in Seq(Bytes) /\ text \in Seq(Symbols)
    /\ Stands(given, Len(given), text, Len(text), TRUE)
    /\ Stands(data, Len(data), text, at, at = Len(text)) /\ Begins(data, given)
    /\ pc # "refused" /\ (pc = "done" => at = Len(text))

\* A text: what is decoded of it stands in its symbols, and what is encoded of
\* those bytes is the beginning of the text.
Decoding == origin = "text" /\ pc \in {"decode", "refused"} =>
    /\ text = given /\ \A k \in 1 .. at : text[k] \in Symbols
    /\ Stands(data, Len(data), text, at, at = Len(text))
Repeating == origin = "text" /\ pc \in {"encode", "done"} =>
    /\ given \in Seq(Symbols) /\ text \in Seq(Symbols)
    /\ Stands(data, Len(data), given, Len(given), TRUE)
    /\ at <= Len(data) /\ Stands(data, at, text, Len(text), at = Len(data))
    /\ Begins(text, given) /\ (pc = "done" => at = Len(data))

\* The inductive invariant.
CarrierIInv == CarrierTypeOK /\ Encoding /\ Returning /\ Decoding /\ Repeating
=============================================================================
