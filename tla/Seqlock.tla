------------------------------ MODULE Seqlock ------------------------------
(***************************************************************************)
(* One slot of HardenedStore (src/applications/statusbus/sharedmem.py): a    *)
(* writer that publishes into shared memory under a sequence counter and a   *)
(* reader that copies the record without a lock.  Every access to the shared *)
(* memory is a step, and the record is copied in Parts, in any order, on     *)
(* both sides.  Slots do not overlap, so one of them stands for all.         *)
(*                                                                          *)
(* A part holds the number of the publication it was written by.  The        *)
(* record's CRC matches when all parts are of one publication, and so does   *)
(* its authentication under a password.  Bytes of the record may flip.       *)
(***************************************************************************)
EXTENDS Naturals, FiniteSets

CONSTANTS
    Parts,      \* the pieces a record is copied in
    Retries,    \* attempts of one read (8 in the code)
    SeqLimit,   \* numbers the counter can hold (2^32 in the code)
    MaxPub,     \* bound: publications begun
    MaxCrash,   \* bound: writers that die
    MaxFlip     \* bound: parts of the record in which bytes flip

ASSUME PartsAssumption == Parts # {} /\ IsFiniteSet(Parts)
ASSUME BoundsAssumption ==
    /\ Retries \in Nat \ {0} /\ SeqLimit \in Nat
    /\ MaxPub \in Nat /\ MaxCrash \in Nat /\ MaxFlip \in Nat

VARIABLES
    seq,        \* the slot's counter
    filled,     \* the slot's length field is not 0
    rec,        \* the record's parts in the slot
    wpc,        \* the writer: "idle", "len", "copy"
    written,    \* the parts it has copied
    begun,      \* publications begun
    stands,     \* history: the publication completed last, 0 for none
    crashes,    \* writers that died
    flips,      \* parts in which bytes flipped
    rpc,        \* the reader: "idle", "seq", "len", "copy"
    tries,      \* attempts made
    s1,         \* the counter as the reader read it first
    left,       \* the parts it has still to copy
    copied,     \* its copy
    result      \* what the last read returned

writer == <<wpc, written, begun, stands, crashes>>
slot == <<seq, filled, rec, flips>>
reader == <<rpc, tries, s1, left, copied, result>>
vars == <<slot, writer, reader>>

NoRecord == [kind |-> "none"]
Stuck == [kind |-> "stuck"]
Corrupt == [kind |-> "corrupt"]
Record(n) == [kind |-> "record", pub |-> n]

Nothing == [k \in Parts |-> 0]

\* What a part is after bytes of it flipped: of no publication.
Flipped == MaxPub + 1

Init ==
    /\ seq = 0 /\ filled = FALSE /\ rec = Nothing /\ flips = 0
    /\ wpc = "idle" /\ written = {} /\ begun = 0 /\ stands = 0 /\ crashes = 0
    /\ rpc = "idle" /\ tries = 0 /\ s1 = 0 /\ left = {} /\ copied = Nothing
    /\ result = NoRecord

-----------------------------------------------------------------------------
(* publish *)

\* (seq + 1) | 1.  Mutant: + 1 alone, which a dead writer's odd counter makes even.
PlusOne == seq + 1
NextOdd == IF seq % 2 = 0 THEN seq + 1 ELSE seq + 2

\* A counter that does not fit makes struct.pack raise; the slot is not touched.
WriteBegin ==
    /\ wpc = "idle" /\ begun < MaxPub
    /\ NextOdd < SeqLimit
    /\ seq' = NextOdd
    /\ wpc' = "len" /\ written' = {} /\ begun' = begun + 1
    /\ UNCHANGED <<filled, rec, flips, stands, crashes, reader>>

WriteLen ==
    /\ wpc = "len"
    /\ wpc' = "copy" /\ filled' = TRUE
    /\ UNCHANGED <<seq, rec, flips, written, begun, stands, crashes, reader>>

WritePart(k) ==
    /\ wpc = "copy" /\ k \notin written
    /\ written' = written \cup {k} /\ rec' = [rec EXCEPT ![k] = begun]
    /\ UNCHANGED <<seq, filled, flips, wpc, begun, stands, crashes, reader>>

\* The parts that must be there before the counter becomes even again.  Mutant:
\* one may follow later.
AlmostAllWritten == \E k \in Parts : Parts \ {k} \subseteq written
AllWritten == written = Parts

\* The counter becomes even; if it does not fit, publish raises and it stays odd.
WriteEnd ==
    /\ wpc = "copy" /\ AllWritten
    /\ wpc' = "idle"
    /\ IF seq + 1 < SeqLimit
       THEN seq' = seq + 1 /\ stands' = begun
       ELSE UNCHANGED <<seq, stands>>
    /\ UNCHANGED <<filled, rec, flips, written, begun, crashes, reader>>

\* The writer dies within publish; another one may take its place.
Crash ==
    /\ wpc # "idle" /\ crashes < MaxCrash
    /\ wpc' = "idle" /\ crashes' = crashes + 1
    /\ UNCHANGED <<slot, written, begun, stands, reader>>

\* Bytes of the record flip in the medium, whoever is at work there.
Flip(k) ==
    /\ flips < MaxFlip /\ flips' = flips + 1
    /\ rec' = [rec EXCEPT ![k] = Flipped]
    /\ UNCHANGED <<seq, filled, writer, reader>>

-----------------------------------------------------------------------------
(* read *)

ReadBegin ==
    /\ rpc = "idle"
    /\ rpc' = "seq" /\ tries' = 0 /\ result' = NoRecord
    /\ UNCHANGED <<slot, writer, s1, left, copied>>

Return(r) == rpc' = "idle" /\ result' = r

\* Mutant: attempts are not counted.
RetryUncounted == UNCHANGED <<tries, result>> /\ rpc' = "seq"

\* This attempt failed; after the last one the read gives up.
Retry ==
    /\ tries' = tries + 1
    /\ IF tries + 1 < Retries THEN rpc' = "seq" /\ UNCHANGED result
                              ELSE Return(Stuck)

ReadOdd ==
    /\ rpc = "seq" /\ seq % 2 = 1
    /\ s1' = seq /\ Retry
    /\ UNCHANGED <<slot, writer, left, copied>>

ReadSeq ==
    /\ rpc = "seq" /\ seq % 2 = 0
    /\ s1' = seq /\ rpc' = "len"
    /\ UNCHANGED <<slot, writer, tries, left, copied, result>>

ReadLen ==
    /\ rpc = "len"
    /\ left' = Parts
    /\ IF filled THEN rpc' = "copy" /\ UNCHANGED result ELSE Return(NoRecord)
    /\ UNCHANGED <<slot, writer, tries, s1, copied>>

ReadPart(k) ==
    /\ rpc = "copy" /\ k \in left
    /\ left' = left \ {k} /\ copied' = [copied EXCEPT ![k] = rec[k]]
    /\ UNCHANGED <<slot, writer, rpc, tries, s1, result>>

\* Mutant: the second look at the counter is left out.
AlwaysSettled == TRUE
Settled == s1 = seq

ReadChanged ==
    /\ rpc = "copy" /\ left = {} /\ ~Settled
    /\ Retry
    /\ UNCHANGED <<slot, writer, s1, left, copied>>

\* Mutant: a record is read without a look at its checksum.
UncheckedRecord(c) == Record(c[CHOOSE k \in Parts : TRUE])

\* Decryption and checksum.
Checked(c) == IF \E n \in 1 .. MaxPub : \A k \in Parts : c[k] = n
              THEN Record(CHOOSE n \in 1 .. MaxPub : \A k \in Parts : c[k] = n)
              ELSE Corrupt

ReadSettled ==
    /\ rpc = "copy" /\ left = {} /\ Settled
    /\ Return(Checked(copied))
    /\ UNCHANGED <<slot, writer, tries, s1, left, copied>>

-----------------------------------------------------------------------------

Write == WriteBegin \/ WriteLen \/ (\E k \in Parts : WritePart(k)) \/ WriteEnd
Read == ReadOdd \/ ReadSeq \/ ReadLen \/ (\E k \in Parts : ReadPart(k))
            \/ ReadChanged \/ ReadSettled

Next == Write \/ Crash \/ (\E k \in Parts : Flip(k)) \/ ReadBegin \/ Read

Spec == Init /\ [][Next]_vars

\* A read that was begun keeps running; nothing is assumed of the writer.
FairSpec == Spec /\ WF_vars(Read)

-----------------------------------------------------------------------------
(* Properties *)

Results == {NoRecord, Stuck, Corrupt} \cup {Record(n) : n \in 1 .. MaxPub}

\* Every variable keeps its type.
TypeOK ==
    /\ seq \in Nat /\ filled \in BOOLEAN /\ rec \in [Parts -> 0 .. Flipped]
    /\ flips \in 0 .. MaxFlip
    /\ wpc \in {"idle", "len", "copy"} /\ written \subseteq Parts
    /\ begun \in 0 .. MaxPub /\ stands \in 0 .. MaxPub /\ crashes \in 0 .. MaxCrash
    /\ rpc \in {"idle", "seq", "len", "copy"} /\ tries \in 0 .. Retries
    /\ s1 \in Nat /\ left \subseteq Parts /\ copied \in [Parts -> 0 .. Flipped]
    /\ result \in Results

\* The slot is an atomic register: a read that returns a record returns the
\* publication completed last at the moment it returns, whatever the writer, or
\* a writer that took the place of a dead one, did while the parts were copied,
\* and whatever bytes of it flip.
Register == INSTANCE StatusRegister WITH
    value <- stands,
    answer <- IF result.kind = "record" THEN result.pub ELSE 0
Linearizable == Register!Spec

\* A torn record does not even get as far as the checksum: a reader told that a
\* record is corrupt may conclude that the medium is at fault.
NeverCorrupt == result = Corrupt => flips > 0

\* A read returns, however busy the writer is and even if it is dead.
ReadReturns == rpc # "idle" ~> rpc = "idle"

-----------------------------------------------------------------------------
(* The inductive invariant behind Linearizable *)

\* A part is of publication n, or flipped.
Intact(part, n) == part = n \/ (part = Flipped /\ flips > 0)

\* An even counter: nobody writes, and the record is the last one completed, or
\* would be without the flipped bytes.
EvenOK == seq % 2 = 0 =>
    /\ wpc = "idle"
    /\ filled => stands > 0 /\ \A k \in Parts : Intact(rec[k], stands)

\* The writer has copied what it says it has.
WriterOK ==
    /\ wpc # "idle" => stands < begun
    /\ stands <= begun
    /\ wpc = "len" => written = {}
    /\ wpc = "copy" => filled /\ \A k \in written : Intact(rec[k], begun)

\* A read under way has an attempt left.  While the counter is the one the
\* reader read first, its copy is the record, before or after bytes flipped.
ReaderOK ==
    /\ s1 <= seq
    /\ rpc # "idle" => tries < Retries
    /\ rpc \in {"len", "copy"} => s1 % 2 = 0
    /\ rpc = "copy" => filled
    /\ rpc = "copy" /\ s1 = seq => \A k \in Parts \ left : Intact(copied[k], stands)

\* The invariant of publish and read as a whole.
IInv == TypeOK /\ EvenOK /\ WriterOK /\ ReaderOK /\ NeverCorrupt

-----------------------------------------------------------------------------
(* Why a read ends *)

\* The steps a read has left, at most, in each of the attempts it has left.
AttemptLeft == IF rpc = "copy" THEN Cardinality(left)
               ELSE Cardinality(Parts) + (IF rpc = "len" THEN 1 ELSE 2)
ReadLeft == IF rpc = "idle" THEN 0
            ELSE (Cardinality(Parts) + 3) * (Retries - tries) + AttemptLeft

\* Every step brings a read closer to its end or leaves it alone: neither the
\* writer nor flipped bytes can hold it up.
ReadsShrink == [][rpc # "idle" =>
    /\ ReadLeft \in Nat /\ ReadLeft' \in Nat
    /\ ReadLeft' < ReadLeft \/ UNCHANGED reader]_vars
=============================================================================
