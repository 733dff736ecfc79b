--------------------------- MODULE SeqlockProofs ---------------------------
(***************************************************************************)
(* A slot of HardenedStore is an atomic register, for any number of parts,   *)
(* publications, crashes, attempts and flipped bytes of the record, and any  *)
(* width of the counter.                                                     *)
(***************************************************************************)
EXTENDS Seqlock, FiniteSetTheorems, TLAPS

USE PartsAssumption, BoundsAssumption

\* The odd number after the counter is odd, and larger.
LEMMA NextOddIsOdd ==
    ASSUME seq \in Nat PROVE NextOdd \in Nat /\ NextOdd > seq /\ NextOdd % 2 = 1
BY DEF NextOdd

\* After an odd number comes an even one.
LEMMA AfterOdd == \A n \in Nat : n % 2 = 1 => (n + 1) % 2 = 0
OBVIOUS

\* What read can return is told apart by its kind.
LEMMA KindsDiffer == NoRecord # Corrupt /\ Stuck # Corrupt
                       /\ \A n : Record(n) # Corrupt
<1>1. NoRecord.kind # Corrupt.kind /\ Stuck.kind # Corrupt.kind
  BY DEF NoRecord, Stuck, Corrupt
<1>2. \A n : Record(n).kind # Corrupt.kind
  BY DEF Record, Corrupt
<1> QED BY <1>1, <1>2

\* What the reader has copied, if the counter did not move, is what stands, and
\* the checksum takes it; or bytes flipped, and it does not.
LEMMA CopyIsRecord ==
    ASSUME IInv, rpc = "copy", left = {}, Settled
    PROVE  /\ stands \in 1 .. MaxPub
           /\ \/ Checked(copied) = Record(stands)
              \/ Checked(copied) = Corrupt /\ flips > 0
<1>1. /\ seq % 2 = 0 /\ filled
      /\ \A k \in Parts : Intact(copied[k], stands)
  BY DEF IInv, ReaderOK, Settled
<1>2. stands \in 1 .. MaxPub
  BY <1>1 DEF IInv, EvenOK, TypeOK
<1>3. CASE \A k \in Parts : copied[k] = stands
  <2>1. \A n \in 1 .. MaxPub : (\A k \in Parts : copied[k] = n) <=> n = stands
    BY <1>2, <1>3
  <2>2. (CHOOSE n \in 1 .. MaxPub : \A k \in Parts : copied[k] = n) = stands
    BY <1>2, <2>1
  <2> QED BY <1>2, <1>3, <2>2 DEF Checked
<1>4. CASE \E k \in Parts : copied[k] # stands
  <2>1. PICK k \in Parts : copied[k] = Flipped /\ flips > 0
    BY <1>1, <1>4 DEF Intact
  <2>2. \A n \in 1 .. MaxPub : copied[k] # n
    BY <2>1 DEF Flipped
  <2> QED BY <1>2, <2>1, <2>2 DEF Checked
<1> QED BY <1>2, <1>3, <1>4

\* A slot of zeros that nobody has used.
LEMMA InitIInv == Init => IInv
<1> SUFFICES ASSUME Init PROVE IInv
  OBVIOUS
<1>1. TypeOK
  <2>1. result \in Results
    BY DEF Init, Results
  <2>2. rec \in [Parts -> 0 .. Flipped] /\ copied \in [Parts -> 0 .. Flipped]
    BY DEF Init, Nothing, Flipped
  <2>3. seq \in Nat /\ s1 \in Nat /\ tries \in 0 .. Retries /\ begun \in 0 .. MaxPub
        /\ stands \in 0 .. MaxPub /\ crashes \in 0 .. MaxCrash /\ flips \in 0 .. MaxFlip
    BY DEF Init
  <2>4. filled \in BOOLEAN
    BY DEF Init
  <2>5. wpc \in {"idle", "len", "copy"} /\ rpc \in {"idle", "seq", "len", "copy"}
        /\ written \subseteq Parts /\ left \subseteq Parts
    BY DEF Init
  <2> QED BY <2>1, <2>2, <2>3, <2>4, <2>5 DEF TypeOK
<1>2. EvenOK /\ WriterOK /\ ReaderOK
  BY DEF Init, EvenOK, WriterOK, ReaderOK
<1>3. NeverCorrupt
  BY KindsDiffer DEF Init, NeverCorrupt
<1> QED BY <1>1, <1>2, <1>3 DEF IInv

\* publish, a crash within it, and what happens to the medium.
LEMMA WriteIInv == ASSUME IInv, Write \/ Crash \/ \E k \in Parts : Flip(k) PROVE IInv'
<1> USE DEF IInv, slot, reader, Intact, Flipped
<1>1. CASE WriteBegin
  <2>1. TypeOK' BY <1>1, NextOddIsOdd DEF WriteBegin, TypeOK
  <2>2. EvenOK' /\ WriterOK' /\ NeverCorrupt'
    BY <1>1, NextOddIsOdd DEF WriteBegin, TypeOK, EvenOK, WriterOK, NeverCorrupt
  <2>3. ReaderOK'
    BY <1>1, NextOddIsOdd DEF WriteBegin, TypeOK, ReaderOK
  <2> QED BY <2>1, <2>2, <2>3
<1>2. CASE WriteLen
  <2>1. seq % 2 # 0 BY <1>2 DEF WriteLen, EvenOK
  <2>2. TypeOK' /\ NeverCorrupt' BY <1>2 DEF WriteLen, TypeOK, NeverCorrupt
  <2>3. EvenOK' BY <1>2, <2>1 DEF WriteLen, EvenOK
  <2>4. WriterOK' BY <1>2 DEF WriteLen, WriterOK
  <2>5. ReaderOK' BY <1>2 DEF WriteLen, ReaderOK
  <2> QED BY <2>2, <2>3, <2>4, <2>5
<1>3. ASSUME NEW k \in Parts, WritePart(k) PROVE IInv'
  <2>1. TypeOK' BY <1>3 DEF WritePart, TypeOK
  <2>2. seq % 2 # 0 BY <1>3 DEF WritePart, EvenOK
  <2>3. EvenOK' /\ NeverCorrupt' BY <1>3, <2>2 DEF WritePart, EvenOK, NeverCorrupt
  <2>4. WriterOK' BY <1>3 DEF WritePart, WriterOK, TypeOK
  <2>5. ReaderOK' BY <1>3, <2>2 DEF WritePart, ReaderOK
  <2> QED BY <2>1, <2>3, <2>4, <2>5
<1>4. CASE WriteEnd
  <2>1. seq % 2 = 1 BY <1>4 DEF WriteEnd, EvenOK, TypeOK
  <2>2. TypeOK' /\ NeverCorrupt' BY <1>4 DEF WriteEnd, TypeOK, NeverCorrupt
  <2>3. EvenOK'
    BY <1>4, <2>1 DEF WriteEnd, AllWritten, TypeOK, EvenOK, WriterOK
  <2>4. WriterOK' BY <1>4 DEF WriteEnd, TypeOK, WriterOK
  <2>5. ReaderOK' BY <1>4, <2>1 DEF WriteEnd, TypeOK, ReaderOK
  <2> QED BY <2>2, <2>3, <2>4, <2>5
<1>5. CASE Crash
  BY <1>5 DEF Crash, TypeOK, EvenOK, WriterOK, ReaderOK, NeverCorrupt
<1>6. ASSUME NEW k \in Parts, Flip(k) PROVE IInv'
  <2>1. TypeOK' /\ NeverCorrupt' BY <1>6 DEF Flip, writer, TypeOK, NeverCorrupt
  <2>2. EvenOK' BY <1>6 DEF Flip, writer, TypeOK, EvenOK
  <2>3. WriterOK' BY <1>6 DEF Flip, writer, TypeOK, WriterOK
  <2>4. ReaderOK' BY <1>6 DEF Flip, writer, TypeOK, ReaderOK
  <2> QED BY <2>1, <2>2, <2>3, <2>4
<1> QED BY <1>1, <1>2, <1>3, <1>4, <1>5, <1>6 DEF Write

\* read.
LEMMA ReadIInv == ASSUME IInv, ReadBegin \/ Read PROVE IInv'
<1> USE DEF IInv, slot, writer, Return, Results, NoRecord, Stuck, Corrupt, Intact, Flipped
<1>1. CASE ReadBegin
  BY <1>1 DEF ReadBegin, TypeOK, EvenOK, WriterOK, ReaderOK, NeverCorrupt
<1>2. CASE ReadOdd
  <2>1. TypeOK' BY <1>2 DEF ReadOdd, Retry, TypeOK, ReaderOK
  <2>2. NeverCorrupt' BY <1>2, KindsDiffer DEF ReadOdd, Retry, NeverCorrupt
  <2>3. EvenOK' /\ WriterOK' BY <1>2 DEF ReadOdd, EvenOK, WriterOK
  <2>4. ReaderOK' BY <1>2 DEF ReadOdd, Retry, TypeOK, ReaderOK
  <2> QED BY <2>1, <2>2, <2>3, <2>4
<1>3. CASE ReadSeq
  BY <1>3 DEF ReadSeq, TypeOK, EvenOK, WriterOK, ReaderOK, NeverCorrupt
<1>4. CASE ReadLen
  BY <1>4 DEF ReadLen, TypeOK, EvenOK, WriterOK, ReaderOK, NeverCorrupt
<1>5. ASSUME NEW k \in Parts, ReadPart(k) PROVE IInv'
  BY <1>5 DEF ReadPart, TypeOK, EvenOK, WriterOK, ReaderOK, NeverCorrupt
<1>6. CASE ReadChanged
  <2>1. TypeOK' BY <1>6 DEF ReadChanged, Retry, TypeOK, ReaderOK
  <2>2. NeverCorrupt' BY <1>6, KindsDiffer DEF ReadChanged, Retry, NeverCorrupt
  <2>3. EvenOK' /\ WriterOK' BY <1>6 DEF ReadChanged, EvenOK, WriterOK
  <2>4. ReaderOK' BY <1>6 DEF ReadChanged, Retry, TypeOK, ReaderOK
  <2> QED BY <2>1, <2>2, <2>3, <2>4
<1>7. CASE ReadSettled
  <2>1. /\ stands \in 1 .. MaxPub
        /\ result' = Record(stands) \/ (result' = Corrupt /\ flips > 0)
    BY <1>7, CopyIsRecord DEF ReadSettled
  <2>2. TypeOK' /\ NeverCorrupt'
    BY <1>7, <2>1 DEF ReadSettled, TypeOK, NeverCorrupt, Record
  <2> QED BY <1>7, <2>2 DEF ReadSettled, EvenOK, WriterOK, ReaderOK
<1> QED BY <1>1, <1>2, <1>3, <1>4, <1>5, <1>6, <1>7 DEF Read

\* Writer and reader stay within the invariant.
THEOREM Invariance == Spec => []IInv
<1>1. IInv /\ [Next]_vars => IInv'
  <2> SUFFICES ASSUME IInv, [Next]_vars PROVE IInv'
    OBVIOUS
  <2>1. CASE UNCHANGED vars
    BY <2>1 DEF vars, slot, writer, reader, IInv, TypeOK, EvenOK, WriterOK,
                ReaderOK, NeverCorrupt, Intact
  <2> QED BY <2>1, WriteIInv, ReadIInv DEF Next
<1> QED BY <1>1, InitIInv, PTL DEF Spec

\* Every variable of slot, writer and reader keeps its type.
THEOREM TypeCorrect == Spec => []TypeOK
<1>1. IInv => TypeOK BY DEF IInv
<1> QED BY <1>1, Invariance, PTL

\* Nothing but flipped bytes makes a reader find a record corrupt.
THEOREM NoTornRecord == Spec => []NeverCorrupt
<1>1. IInv => NeverCorrupt BY DEF IInv
<1> QED BY <1>1, Invariance, PTL

\* A slot is an atomic register.
THEOREM Implements == Spec => Linearizable
<1> DEFINE answer == IF result.kind = "record" THEN result.pub ELSE 0
<1>1. Init => Register!Init
  BY DEF Init, Register!Init, NoRecord
<1>2. IInv /\ [Next]_vars => [Register!Next]_(Register!absVars)
  <2> SUFFICES ASSUME IInv, [Next]_vars
               PROVE  Register!Next \/ UNCHANGED <<stands, answer>>
    BY DEF Register!absVars
  <2> USE DEF slot, writer, reader
  <2>1. CASE WriteEnd
    <3>1. stands < begun /\ begun \in 0 .. MaxPub /\ stands \in 0 .. MaxPub
      BY <2>1 DEF WriteEnd, IInv, WriterOK, TypeOK
    <3> QED BY <2>1, <3>1 DEF WriteEnd, Register!Next, Register!Publish
  <2>2. CASE WriteBegin \/ WriteLen \/ (\E k \in Parts : WritePart(k)) \/ Crash
           \/ \E k \in Parts : Flip(k)
    BY <2>2 DEF WriteBegin, WriteLen, WritePart, Crash, Flip
  <2>3. CASE ReadSettled
    <3>1. result' \in {Record(stands), Corrupt}
      BY <2>3, CopyIsRecord DEF ReadSettled, Return
    <3> QED BY <2>3, <3>1 DEF ReadSettled, Record, Corrupt, Register!Next, Register!Answer
  <2>4. CASE ReadBegin \/ ReadOdd \/ ReadSeq \/ ReadLen
             \/ (\E k \in Parts : ReadPart(k)) \/ ReadChanged
    BY <2>4 DEF ReadBegin, ReadOdd, ReadSeq, ReadLen, ReadPart, ReadChanged,
                Retry, Return, NoRecord, Stuck, Register!Next, Register!Answer
  <2>5. CASE UNCHANGED vars
    BY <2>5 DEF vars
  <2> QED BY <2>1, <2>2, <2>3, <2>4, <2>5 DEF Next, Write, Read
<1> QED BY <1>1, <1>2, Invariance, PTL DEF Spec, Linearizable, Register!Spec

-----------------------------------------------------------------------------
(* A read ends.                                                               *)

\* There are finitely many parts to copy, and a read has an attempt left.
LEMMA LeftType ==
    ASSUME IInv
    PROVE  /\ IsFiniteSet(left) /\ Cardinality(left) \in Nat /\ Cardinality(Parts) \in Nat
           /\ AttemptLeft \in Nat /\ ReadLeft \in Nat
           /\ rpc # "idle" => Retries - tries \in Nat \ {0}
<1>1. /\ left \in SUBSET Parts /\ tries \in 0 .. Retries
      /\ rpc # "idle" => Retries - tries \in Nat \ {0}
  BY DEF IInv, TypeOK, ReaderOK
<1>2. IsFiniteSet(left) /\ Cardinality(left) \in Nat /\ Cardinality(Parts) \in Nat
  BY <1>1, FS_Subset, FS_CardinalityType
<1>3. AttemptLeft \in Nat
  BY <1>2 DEF AttemptLeft
<1>4. (Cardinality(Parts) + 3) * (Retries - tries) \in Nat
  BY <1>1, <1>2
<1> QED BY <1>1, <1>2, <1>3, <1>4 DEF ReadLeft

\* A new attempt, one fewer left, is shorter than the whole.
LEMMA RetryShrinks == ASSUME IInv, rpc # "idle", Retry PROVE ReadLeft' < ReadLeft
<1> DEFINE P == Cardinality(Parts) + 3
           A == Retries - tries
<1>1. P \in Nat /\ P >= 3 /\ A \in Nat \ {0} /\ AttemptLeft \in Nat /\ tries \in Nat
  BY LeftType DEF IInv, TypeOK
<1>2. P * (A - 1) = P * A - P /\ P * A \in Nat /\ P * A > 0
  BY <1>1
<1>3. ReadLeft = P * A + AttemptLeft
  BY DEF ReadLeft
<1>4. CASE tries + 1 < Retries
  <2>1. rpc' = "seq" /\ tries' = tries + 1
    BY <1>4 DEF Retry
  <2>2. Retries - tries' = A - 1 /\ AttemptLeft' = P - 1
    BY <1>1, <2>1, LeftType DEF AttemptLeft
  <2>3. ReadLeft' = P * (A - 1) + (P - 1)
    BY <2>1, <2>2 DEF ReadLeft
  <2> HIDE DEF P, A
  <2> QED BY <1>1, <1>2, <1>3, <2>3
<1>5. CASE ~(tries + 1 < Retries)
  <2>1. ReadLeft' = 0
    BY <1>5 DEF Retry, Return, ReadLeft
  <2> HIDE DEF P, A
  <2> QED BY <1>1, <1>2, <1>3, <2>1
<1> QED BY <1>4, <1>5

\* Within an attempt, every step leaves less of it.
LEMMA AttemptShrinks ==
    ASSUME IInv, rpc # "idle", tries' = tries,
           rpc' = "idle" \/ (AttemptLeft' \in Nat /\ AttemptLeft' < AttemptLeft)
    PROVE  ReadLeft' < ReadLeft
<1> DEFINE P == Cardinality(Parts) + 3
           A == Retries - tries
<1>1. P \in Nat \ {0} /\ A \in Nat \ {0} /\ AttemptLeft \in Nat
  BY LeftType
<1>2. P * A \in Nat /\ P * A > 0
  BY <1>1
<1>3. ReadLeft = P * A + AttemptLeft
  BY DEF ReadLeft
<1>4. ReadLeft' = IF rpc' = "idle" THEN 0 ELSE P * A + AttemptLeft'
  BY DEF ReadLeft
<1> HIDE DEF P, A
<1> QED BY <1>1, <1>2, <1>3, <1>4

\* Each step of a read.
LEMMA StepShrinks == ASSUME IInv, Read PROVE ReadLeft' < ReadLeft
<1>1. CASE ReadOdd \/ ReadChanged
  BY <1>1, RetryShrinks DEF ReadOdd, ReadChanged
<1>2. CASE ReadSeq
  BY <1>2, LeftType, AttemptShrinks DEF ReadSeq, AttemptLeft
<1>3. CASE ReadLen
  <2>1. rpc' = "idle" \/ (rpc' = "copy" /\ left' = Parts)
    BY <1>3 DEF ReadLen, Return
  <2>2. rpc = "len" /\ tries' = tries
    BY <1>3 DEF ReadLen
  <2> QED BY <2>1, <2>2, LeftType, AttemptShrinks DEF AttemptLeft
<1>4. ASSUME NEW k \in Parts, ReadPart(k) PROVE ReadLeft' < ReadLeft
  <2>1. /\ k \in left /\ left' = left \ {k} /\ rpc = "copy" /\ rpc' = "copy"
        /\ tries' = tries
    BY <1>4 DEF ReadPart
  <2>2. Cardinality(left') = Cardinality(left) - 1 /\ Cardinality(left') \in Nat
    BY <2>1, LeftType, FS_RemoveElement, FS_CardinalityType
  <2> QED BY <2>1, <2>2, LeftType, AttemptShrinks DEF AttemptLeft
<1>5. CASE ReadSettled
  BY <1>5, AttemptShrinks DEF ReadSettled, Return
<1> QED BY <1>1, <1>2, <1>3, <1>4, <1>5 DEF Read

\* However busy the writer is, and whether it lives or not, every step of a read
\* leaves less of it to be done.
THEOREM ReadsEnd == Spec => ReadsShrink
<1> DEFINE Typed == ReadLeft \in Nat
           Shrinks == rpc # "idle" =>
               /\ ReadLeft \in Nat /\ ReadLeft' \in Nat
               /\ ReadLeft' < ReadLeft \/ UNCHANGED reader
<1>1. IInv => Typed
  BY LeftType
<1>2. IInv /\ Typed /\ Typed' /\ [Next]_vars => [Shrinks]_vars
  <2> SUFFICES ASSUME IInv, Typed, Typed', Next, rpc # "idle"
               PROVE  ReadLeft' < ReadLeft \/ UNCHANGED reader
    OBVIOUS
  <2>1. CASE Read
    BY <2>1, StepShrinks
  <2>2. CASE Write \/ Crash \/ \E k \in Parts : Flip(k)
    BY <2>2 DEF Write, WriteBegin, WriteLen, WritePart, WriteEnd, Crash, Flip
  <2> QED BY <2>1, <2>2 DEF Next, ReadBegin
<1> HIDE DEF Typed, Shrinks
<1>3. Spec => [][Shrinks]_vars
  BY <1>1, <1>2, Invariance, PTL DEF Spec
<1> QED BY <1>3 DEF ReadsShrink, Shrinks
=============================================================================
