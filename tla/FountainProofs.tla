--------------------------- MODULE FountainProofs ---------------------------
(***************************************************************************)
(* The peeling decoder, for every number of blocks, every choice of repair  *)
(* droplets and every stream of frames: type correctness, PayloadExact,     *)
(* OrderIndependent, and the safety half of the refinement of               *)
(* ErasureDecoder.  All follow from the inductive invariant IInv.           *)
(***************************************************************************)
EXTENDS Fountain, FiniteSetTheorems, TLAPS

USE NAssumption, MaxFrameAssumption, RepairAssumption

\* Every frame names blocks of the transfer, and at least one.
LEMMA BlocksForType ==
    ASSUME NEW i \in Frames
    PROVE  BlocksFor(i) \in (SUBSET Blocks) \ {{}}
BY DEF BlocksFor, Blocks, Frames

\* There are N blocks.
LEMMA BlocksFinite == IsFiniteSet(Blocks) /\ Cardinality(Blocks) = N
<1>1. N - 1 \in Int /\ 0 \in Int
  OBVIOUS
<1>2. IsFiniteSet(0 .. N - 1) /\ Cardinality(0 .. N - 1) = N
  BY <1>1, FS_Interval
<1> QED BY <1>2 DEF Blocks

\* The decoder starts in a state of IInv.
LEMMA InitIInv == Init => IInv
<1> SUFFICES ASSUME Init PROVE IInv
  OBVIOUS
<1>1. TypeOK
  BY DEF Init, TypeOK, Blocks
<1>2. DataOK /\ EdgesOK /\ QueueOK /\ CoverOK /\ OriginOK /\ Grounded
  BY DEF Init, DataOK, EdgesOK, QueueOK, CoverOK, OriginOK, Grounded
<1>3. Counted
  BY FS_EmptySet DEF Init, Counted
<1> QED BY <1>1, <1>2, <1>3 DEF IInv

\* Ingest starts the call on a frame whose blocks are all still to be reduced.
LEMMA IngestIInv ==
    ASSUME IInv, NEW i \in Frames, Ingest(i)
    PROVE  IInv'
<1> USE DEF IInv, Ingest, blockVars, edgeVars
<1>0. BlocksFor(i) \in SUBSET Blocks
  BY BlocksForType
<1>1. TypeOK'
  BY <1>0 DEF TypeOK
<1>2. DataOK'
  BY DEF DataOK
<1>3. EdgesOK'
  BY DEF EdgesOK, Filed, QueueOK, Unused
<1>4. QueueOK'
  BY DEF QueueOK, Pending
<1>5. CoverOK'
  BY DEF CoverOK, Residue
<1>6. OriginOK'
  BY DEF OriginOK, Residue
<1>7. Grounded'
  BY DEF Grounded, PeelClosed
<1>8. Counted'
  BY DEF Counted
<1> QED BY <1>1, <1>2, <1>3, <1>4, <1>5, <1>6, <1>7, <1>8

\* Reduce folds one known block out of the body, or keeps it in s.
LEMMA ReduceIInv ==
    ASSUME IInv, NEW b \in Blocks, Reduce(b)
    PROVE  IInv'
<1> USE DEF IInv, Reduce, blockVars, edgeVars
<1>1. TypeOK'
  BY DEF TypeOK, Xor
<1>2. DataOK'
  BY DEF DataOK, Xor, TypeOK
<1>3. EdgesOK'
  BY DEF EdgesOK, Filed, Unused
<1>4. QueueOK'
  BY DEF QueueOK, Pending
<1>5. CoverOK'
  BY DEF CoverOK, Residue, TypeOK
<1>6. OriginOK'
  BY DEF OriginOK, Residue, TypeOK
<1>7. Grounded'
  BY DEF Grounded, PeelClosed
<1>8. Counted'
  BY DEF Counted
<1> QED BY <1>1, <1>2, <1>3, <1>4, <1>5, <1>6, <1>7, <1>8

\* A frame that says nothing new is dropped.
LEMMA InsertNothingIInv ==
    ASSUME IInv, InsertNothing
    PROVE  IInv'
<1> USE DEF IInv, InsertNothing, Reduced, blockVars, edgeVars, callVars
<1>1. TypeOK'
  BY DEF TypeOK
<1>2. DataOK'
  BY DEF DataOK, TypeOK
<1>3. EdgesOK'
  BY DEF EdgesOK, Filed, Unused, QueueOK
<1>4. QueueOK'
  BY DEF QueueOK, Pending
<1>5. CoverOK'
  BY DEF CoverOK, Residue
<1>6. OriginOK'
  BY DEF OriginOK, Residue
<1>7. Grounded'
  BY DEF Grounded, PeelClosed
<1>8. Counted'
  BY DEF Counted
<1> QED BY <1>1, <1>2, <1>3, <1>4, <1>5, <1>6, <1>7, <1>8

\* A frame with two unknown blocks or more becomes an edge.
LEMMA InsertEdgeIInv ==
    ASSUME IInv, InsertEdge
    PROVE  IInv'
<1> USE DEF IInv, InsertEdge, FiledUnder, Reduced, blockVars, edgeVars, callVars
<1>1. NewEdge \in EdgeIds /\ NewEdge \notin live
  BY DEF EdgesOK, NewEdge, Unused
<1>2. TypeOK'
  BY <1>1 DEF TypeOK
<1>3. DataOK'
  BY <1>1 DEF DataOK, TypeOK
<1>4. EdgesOK'
  BY <1>1 DEF EdgesOK, Filed, QueueOK, TypeOK
<1>5. QueueOK'
  BY <1>1 DEF QueueOK, Pending, TypeOK, DataOK
<1>6. CoverOK'
  BY <1>1 DEF CoverOK, Residue, TypeOK
<1>7. OriginOK'
  BY <1>1 DEF OriginOK, Residue, TypeOK
<1>8. Grounded'
  BY <1>1 DEF Grounded, PeelClosed
<1>9. Counted'
  BY DEF Counted
<1> QED BY <1>1, <1>2, <1>3, <1>4, <1>5, <1>6, <1>7, <1>8, <1>9

\* A solved block is taken off the work list with the edges filed under it.
LEMMA PeelPopIInv ==
    ASSUME IInv, NEW b \in Blocks, PeelPop(b)
    PROVE  IInv'
<1> USE DEF IInv, PeelPop, AfterPop, blockVars, edgeVars, callVars
<1>1. TypeOK'
  BY DEF TypeOK
<1>2. DataOK'
  BY DEF DataOK, TypeOK
<1>3. EdgesOK'
  BY DEF EdgesOK, Filed, QueueOK, TypeOK
<1>4. QueueOK'
  BY DEF QueueOK, Pending, EdgesOK, Filed, TypeOK
<1>5. CoverOK'
  BY DEF CoverOK, Residue
<1>6. OriginOK'
  BY DEF OriginOK, Residue
<1>7. Grounded'
  BY DEF Grounded, PeelClosed
<1>8. Counted'
  BY DEF Counted
<1> QED BY <1>1, <1>2, <1>3, <1>4, <1>5, <1>6, <1>7, <1>8

\* A dead edge, or one the block has already left, is passed over.
LEMMA VisitSkipIInv ==
    ASSUME IInv, NEW e \in EdgeIds, VisitSkip(e)
    PROVE  IInv'
<1> USE DEF IInv, VisitSkip, Untouched, blockVars, edgeVars, callVars
<1>1. TypeOK'
  BY DEF TypeOK
<1>2. DataOK'
  BY DEF DataOK, TypeOK
<1>3. EdgesOK'
  BY DEF EdgesOK, Filed, Unused, QueueOK
<1>4. QueueOK'
  BY DEF QueueOK, Pending
<1>5. CoverOK'
  BY DEF CoverOK, Residue
<1>6. OriginOK'
  BY DEF OriginOK, Residue
<1>7. Grounded'
  BY DEF Grounded, PeelClosed
<1>8. Counted'
  BY DEF Counted
<1> QED BY <1>1, <1>2, <1>3, <1>4, <1>5, <1>6, <1>7, <1>8

\* The loop over the edges of one block ends.
LEMMA VisitEndIInv ==
    ASSUME IInv, VisitEnd
    PROVE  IInv'
<1> USE DEF IInv, VisitEnd, blockVars, edgeVars, callVars
<1>1. TypeOK'
  BY DEF TypeOK
<1>2. DataOK'
  BY DEF DataOK, TypeOK
<1>3. EdgesOK'
  BY DEF EdgesOK, Filed, Unused, QueueOK
<1>4. QueueOK'
  BY DEF QueueOK, Pending
<1>5. CoverOK'
  BY DEF CoverOK, Residue
<1>6. OriginOK'
  BY DEF OriginOK, Residue
<1>7. Grounded'
  BY DEF Grounded, PeelClosed
<1>8. Counted'
  BY DEF Counted
<1> QED BY <1>1, <1>2, <1>3, <1>4, <1>5, <1>6, <1>7, <1>8

\* The call returns.
LEMMA PeelEndIInv ==
    ASSUME IInv, PeelEnd
    PROVE  IInv'
<1> USE DEF IInv, PeelEnd, blockVars, edgeVars, callVars
<1>1. TypeOK'
  BY DEF TypeOK, Blocks
<1>2. DataOK'
  BY DEF DataOK, TypeOK
<1>3. EdgesOK'
  BY DEF EdgesOK, Filed, Unused, QueueOK
<1>4. QueueOK'
  BY DEF QueueOK, Pending
<1>5. CoverOK'
  BY DEF CoverOK, Residue
<1>6. OriginOK'
  BY DEF OriginOK, Residue
<1>7. Grounded'
  BY DEF Grounded, PeelClosed
<1>8. Counted'
  BY DEF Counted
<1> QED BY <1>1, <1>2, <1>3, <1>4, <1>5, <1>6, <1>7, <1>8

\* Solving the one block a received frame is missing keeps the solved blocks
\* inside every set closed under peeling.
LEMMA SolveGrounded ==
    ASSUME TypeOK, Grounded, NEW i \in received, NEW j \in Blocks,
           BlocksFor(i) \ have = {j},
           have' = have \cup {j}, received' = received
    PROVE  Grounded'
<1> SUFFICES ASSUME NEW K \in SUBSET Blocks, PeelClosed(K, received)
             PROVE  j \in K
  BY DEF Grounded
<1>1. have \subseteq K
  BY DEF Grounded
<1>2. j \notin K => BlocksFor(i) \ K = {j}
  BY <1>1
<1> QED BY <1>2 DEF PeelClosed, TypeOK

\* One block more is counted once.
LEMMA SolveCounted ==
    ASSUME TypeOK, Counted, NEW j \in Blocks, j \notin have,
           have' = have \cup {j}, solved' = solved + 1
    PROVE  Counted'
<1>1. IsFiniteSet(have)
  BY BlocksFinite, FS_Subset DEF TypeOK
<1>2. Cardinality(have \cup {j}) = Cardinality(have) + 1
  BY <1>1, FS_AddElement
<1> QED BY <1>2 DEF Counted

\* A frame that is down to one unknown block solves it.
LEMMA InsertSolvedIInv ==
    ASSUME IInv, NEW j \in Blocks, InsertSolved(j)
    PROVE  IInv'
<1> USE DEF IInv, InsertSolved, Reduced, edgeVars, callVars
<1>1. /\ j \notin have /\ body = {j}
      /\ have' = have \cup {j} /\ data' = [data EXCEPT ![j] = {j}]
      /\ solved' = solved + 1 /\ queue' = queue \cup {j}
  BY DEF DataOK, Solve
<1>2. PICK i \in received : BlocksFor(i) \ have = {j}
  BY <1>1 DEF OriginOK, Residue
<1>3. TypeOK'
  BY <1>1 DEF TypeOK
<1>4. DataOK'
  BY <1>1 DEF DataOK, TypeOK
<1>5. EdgesOK'
  BY DEF EdgesOK, Filed, QueueOK
<1>6. QueueOK'
  BY <1>1 DEF QueueOK, Pending
<1>7. CoverOK'
  BY <1>1 DEF CoverOK, Residue
<1>8. OriginOK'
  BY <1>1 DEF OriginOK, Residue
<1>9. Grounded'
  BY <1>1, <1>2, SolveGrounded
<1>10. Counted'
  BY <1>1, SolveCounted
<1> QED BY <1>3, <1>4, <1>5, <1>6, <1>7, <1>8, <1>9, <1>10

\* The block popped leaves an edge, which solves its last block when that is
\* all that remains of it.
LEMMA VisitEdgeIInv ==
    ASSUME IInv, NEW e \in EdgeIds, VisitEdge(e)
    PROVE  IInv'
<1> DEFINE rest == idxs[e] \ {bi}
<1> USE DEF IInv, callVars
<1>1. /\ pc = "visit" /\ e \in live /\ bi \in idxs[e] /\ bi \in have
      /\ rest \in SUBSET Blocks /\ rest # {}
      /\ Xor(edata[e], data[bi]) = rest
  BY DEF VisitEdge, Untouched, QueueOK, EdgesOK, DataOK, TypeOK, Xor
<1>2. /\ users' = users \ {e}
      /\ idxs' = [idxs EXCEPT ![e] = rest] /\ edata' = [edata EXCEPT ![e] = rest]
      /\ UNCHANGED <<todo, s, body, byIdx, pc, bi, received>>
  BY <1>1 DEF VisitEdge
<1>3. \A i \in received : Residue(idxs[e], i) => Residue(rest, i)
  BY <1>1 DEF Residue
<1>4. CASE \E j \in rest : rest = {j}
  <2>1. live' = live \ {e}
    BY <1>4 DEF VisitEdge
  <2>2. PICK j \in rest : rest = {j} /\ Solve(j, rest)
    BY <1>1, <1>4 DEF VisitEdge
  <2>3. DataOK' /\ EdgesOK'
    BY <1>1, <1>2, <2>1, <2>2
       DEF DataOK, EdgesOK, Filed, Solve, blockVars, TypeOK
  <2>4. CASE j \in have
    <3>1. UNCHANGED <<have, data, solved, queue>>
      BY <2>2, <2>4 DEF Solve, blockVars
    <3>2. TypeOK'
      BY <1>1, <1>2, <2>1, <3>1 DEF TypeOK
    <3>3. QueueOK'
      BY <1>1, <1>2, <2>1, <3>1 DEF QueueOK, Pending, TypeOK
    <3>4. CoverOK' /\ OriginOK'
      BY <1>1, <1>2, <1>3, <2>1, <2>2, <2>4, <3>1
         DEF CoverOK, OriginOK, Residue, TypeOK
    <3>5. Grounded' /\ Counted'
      BY <1>2, <3>1 DEF Grounded, PeelClosed, Counted
    <3> QED BY <2>3, <3>2, <3>3, <3>4, <3>5
  <2>5. CASE j \notin have
    <3>1. /\ have' = have \cup {j} /\ data' = [data EXCEPT ![j] = rest]
          /\ solved' = solved + 1 /\ queue' = queue \cup {j}
      BY <2>2, <2>5 DEF Solve
    <3>2. TypeOK'
      BY <1>1, <1>2, <2>1, <3>1 DEF TypeOK
    <3>3. QueueOK'
      BY <1>1, <1>2, <2>1, <3>1 DEF QueueOK, Pending, TypeOK
    <3>4. CoverOK' /\ OriginOK'
      BY <1>1, <1>2, <1>3, <2>1, <2>2, <3>1
         DEF CoverOK, OriginOK, Residue, TypeOK
    <3>5. PICK i \in received : BlocksFor(i) \ have = {j}
      BY <1>1, <1>3, <2>2, <2>5 DEF OriginOK, Residue
    <3>6. Grounded'
      BY <1>1, <1>2, <3>1, <3>5, SolveGrounded
    <3>7. Counted'
      BY <1>1, <2>5, <3>1, SolveCounted
    <3> QED BY <2>3, <3>2, <3>3, <3>4, <3>6, <3>7
  <2> QED BY <2>4, <2>5
<1>5. CASE ~ \E j \in rest : rest = {j}
  <2>1. UNCHANGED <<live, have, data, solved, queue>>
    BY <1>1, <1>5 DEF VisitEdge, blockVars
  <2>2. TypeOK'
    BY <1>1, <1>2, <2>1 DEF TypeOK
  <2>3. DataOK' /\ EdgesOK'
    BY <1>1, <1>2, <1>5, <2>1 DEF DataOK, EdgesOK, Filed, TypeOK
  <2>4. QueueOK'
    BY <1>1, <1>2, <2>1 DEF QueueOK, Pending, TypeOK
  <2>5. CoverOK' /\ OriginOK'
    BY <1>1, <1>2, <1>3, <2>1 DEF CoverOK, OriginOK, Residue, TypeOK
  <2>6. Grounded' /\ Counted'
    BY <1>2, <2>1 DEF Grounded, PeelClosed, Counted
  <2> QED BY <2>2, <2>3, <2>4, <2>5, <2>6
<1> QED BY <1>4, <1>5

-----------------------------------------------------------------------------

\* Every step preserves the invariant.
LEMMA NextIInv == IInv /\ [Next]_vars => IInv'
<1> SUFFICES ASSUME IInv, [Next]_vars PROVE IInv'
  OBVIOUS
<1>1. CASE Next
  <2>1. ASSUME NEW i \in Frames, Ingest(i) PROVE IInv'
    BY <2>1, IngestIInv
  <2>2. ASSUME NEW b \in Blocks, Reduce(b) PROVE IInv'
    BY <2>2, ReduceIInv
  <2>3. ASSUME NEW b \in Blocks, InsertSolved(b) PROVE IInv'
    BY <2>3, InsertSolvedIInv
  <2>4. ASSUME NEW b \in Blocks, PeelPop(b) PROVE IInv'
    BY <2>4, PeelPopIInv
  <2>5. ASSUME NEW e \in EdgeIds, VisitSkip(e) PROVE IInv'
    BY <2>5, VisitSkipIInv
  <2>6. ASSUME NEW e \in EdgeIds, VisitEdge(e) PROVE IInv'
    BY <2>6, VisitEdgeIInv
  <2>7. CASE InsertNothing
    BY <2>7, InsertNothingIInv
  <2>8. CASE InsertEdge
    BY <2>8, InsertEdgeIInv
  <2>9. CASE VisitEnd
    BY <2>9, VisitEndIInv
  <2>10. CASE PeelEnd
    BY <2>10, PeelEndIInv
  <2> QED
    BY <1>1, <2>1, <2>2, <2>3, <2>4, <2>5, <2>6, <2>7, <2>8, <2>9, <2>10
       DEF Next, DecoderStep
<1>2. CASE UNCHANGED vars
  BY <1>2 DEF vars, IInv, TypeOK, DataOK, EdgesOK, Filed, Unused, QueueOK,
              Pending, CoverOK, Residue, OriginOK, Grounded, PeelClosed, Counted
<1> QED BY <1>1, <1>2

\* The decoder stays within IInv.
THEOREM Invariance == Spec => []IInv
<1>1. Init => IInv
  BY InitIInv
<1>2. IInv /\ [Next]_vars => IInv'
  BY NextIInv
<1> QED BY <1>1, <1>2, PTL DEF Spec

\* Every variable of the decoder keeps its type.
THEOREM TypeCorrect == Spec => []TypeOK
<1>1. IInv => TypeOK
  BY DEF IInv
<1> QED BY <1>1, Invariance, PTL

\* A decoder that reports itself complete holds exactly the payload that was
\* sent, for every stream of frames.
THEOREM CompleteIsExact == Spec => []PayloadExact
<1>1. IInv => PayloadExact
  <2> SUFFICES ASSUME IInv, Complete
               PROVE  data = [b \in Blocks |-> {b}]
    BY DEF PayloadExact
  <2>1. have \in SUBSET Blocks /\ data \in [Blocks -> SUBSET Blocks]
    BY DEF IInv, TypeOK
  <2>2. Cardinality(have) <= N /\ (Cardinality(have) = N => have = Blocks)
    BY <2>1, BlocksFinite, FS_Subset
  <2>3. Cardinality(have) >= N
    BY DEF IInv, Counted, Complete
  <2>4. IsFiniteSet(have) /\ Cardinality(have) \in Nat
    BY <2>1, BlocksFinite, FS_Subset, FS_CardinalityType
  <2>5. have = Blocks
    BY <2>2, <2>3, <2>4
  <2>6. \A b \in Blocks : data[b] = {b}
    BY <2>5 DEF IInv, DataOK
  <2> QED BY <2>1, <2>6
<1> QED BY <1>1, Invariance, PTL

\* Between calls every frame received is accounted for: none is down to one
\* unknown block.
LEMMA IdleClosed ==
    ASSUME IInv, pc = "idle"
    PROVE  PeelClosed(have, received)
<1> SUFFICES ASSUME NEW i \in received, NEW b \in Blocks
             PROVE  BlocksFor(i) \ have # {b}
  BY DEF PeelClosed
<1>1. CASE Residue({}, i)
  BY <1>1 DEF Residue
<1>2. ASSUME NEW e \in live, Residue(idxs[e], i)
      PROVE  BlocksFor(i) \ have # {b}
  <2>1. idxs[e] \cap have = {}
    BY DEF IInv, QueueOK, Pending
  <2>2. BlocksFor(i) \ have = idxs[e]
    BY <1>2, <2>1 DEF Residue
  <2>3. idxs[e] # {b}
    BY DEF IInv, EdgesOK
  <2> QED BY <2>2, <2>3
<1> QED BY <1>1, <1>2 DEF IInv, CoverOK

\* What is solved between calls is the least set closed under peeling for the
\* frames received: independent of their order and repetition, and no block
\* that they determine is left behind.
THEOREM OrderIndependence == Spec => []OrderIndependent
<1>1. IInv => OrderIndependent
  BY IdleClosed DEF OrderIndependent, IInv, Grounded
<1> QED BY <1>1, Invariance, PTL

-----------------------------------------------------------------------------

\* The abstract decoder reads frames the same way.
LEMMA SameDroplets ==
    /\ Abs!Blocks = Blocks /\ Abs!Frames = Frames
    /\ \A i : Abs!BlocksFor(i) = BlocksFor(i)
    /\ \A K, fs : Abs!PeelClosed(K, fs) <=> PeelClosed(K, fs)
BY DEF Abs!Blocks, Blocks, Abs!Frames, Frames, Abs!BlocksFor, BlocksFor,
       Abs!PeelClosed, PeelClosed

\* A step that solves j maps to Recover(j).
LEMMA SolveRecovers ==
    ASSUME NEW i \in received, NEW j \in Blocks, BlocksFor(i) \ have = {j},
           have' = have \cup {j}, received' = received
    PROVE  Abs!Next
BY SameDroplets DEF Abs!Next, Abs!RecoverSome, Abs!Recover

\* The detailed decoder implements the abstract one, its fairness aside.
THEOREM Implements == Spec => Abs!Spec
<1>1. Init => Abs!Init
  BY DEF Init, Abs!Init
<1>2. IInv /\ [Next]_vars => [Abs!Next]_(Abs!absVars)
  <2> SUFFICES ASSUME IInv, [Next]_vars
               PROVE  Abs!Next \/ UNCHANGED <<received, have>>
    BY DEF Abs!absVars
  <2>1. ASSUME NEW i \in Frames, Ingest(i) PROVE Abs!Next
    BY <2>1, IdleClosed, SameDroplets
       DEF Ingest, blockVars, Abs!Next, Abs!Receive
  <2>2. ASSUME NEW j \in Blocks, InsertSolved(j) PROVE Abs!Next
    <3>1. j \notin have /\ have' = have \cup {j} /\ received' = received
      BY <2>2 DEF InsertSolved, Reduced, Solve, IInv, DataOK
    <3>2. PICK i \in received : BlocksFor(i) \ have = {j}
      BY <2>2, <3>1 DEF InsertSolved, Reduced, IInv, OriginOK, Residue
    <3> QED BY <3>1, <3>2, SolveRecovers
  <2>3. ASSUME NEW e \in EdgeIds, VisitEdge(e)
        PROVE  Abs!Next \/ UNCHANGED <<received, have>>
    <3> DEFINE rest == idxs[e] \ {bi}
    <3>1. /\ e \in live /\ bi \in have /\ rest \in SUBSET Blocks
          /\ received' = received
      BY <2>3 DEF VisitEdge, Untouched, IInv, QueueOK, TypeOK
    <3>2. CASE have' = have
      BY <3>1, <3>2
    <3>3. CASE have' # have
      <4>1. PICK j \in rest :
               rest = {j} /\ j \notin have /\ have' = have \cup {j}
        BY <2>3, <3>3 DEF VisitEdge, Solve, blockVars
      <4>2. PICK i \in received : Residue(idxs[e], i)
        BY <3>1 DEF IInv, OriginOK
      <4>3. BlocksFor(i) \ have = {j}
        BY <3>1, <4>1, <4>2 DEF Residue
      <4> QED BY <3>1, <4>1, <4>3, SolveRecovers
    <3> QED BY <3>2, <3>3
  <2>4. ASSUME NEW b \in Blocks, Reduce(b) \/ PeelPop(b)
        PROVE  UNCHANGED <<received, have>>
    BY <2>4 DEF Reduce, PeelPop, blockVars
  <2>5. ASSUME NEW e \in EdgeIds, VisitSkip(e)
        PROVE  UNCHANGED <<received, have>>
    BY <2>5 DEF VisitSkip, blockVars
  <2>6. CASE InsertNothing \/ InsertEdge \/ VisitEnd \/ PeelEnd
    BY <2>6 DEF InsertNothing, InsertEdge, VisitEnd, PeelEnd, blockVars
  <2>7. CASE UNCHANGED vars
    BY <2>7 DEF vars
  <2> QED
    BY <2>1, <2>2, <2>3, <2>4, <2>5, <2>6, <2>7 DEF Next, DecoderStep
<1> QED BY <1>1, <1>2, Invariance, PTL DEF Spec, Abs!Spec

-----------------------------------------------------------------------------
(* A call of ingest ends.                                                     *)

\* What Work counts is finite, and no more blocks are solved than there are.
LEMMA Counts ==
    ASSUME IInv
    PROVE  /\ IsFiniteSet(queue) /\ IsFiniteSet(users) /\ IsFiniteSet(todo)
           /\ Cardinality(queue) \in Nat /\ Cardinality(todo) \in Nat
           /\ Cardinality(users) \in Nat /\ Cardinality(EdgeIds) \in Nat
           /\ solved \in Nat /\ ToPop \in Nat /\ Rounds \in Nat
<1>1. /\ have \in SUBSET Blocks /\ queue \in SUBSET Blocks /\ todo \in SUBSET Blocks
      /\ users \in SUBSET EdgeIds /\ solved = Cardinality(have)
  BY DEF IInv, TypeOK, Counted
<1>2. /\ IsFiniteSet(have) /\ IsFiniteSet(queue) /\ IsFiniteSet(todo)
      /\ Cardinality(have) <= N
  BY <1>1, BlocksFinite, FS_Subset
<1>3. IsFiniteSet(users)
  BY <1>1, EdgeIdsAssumption, FS_Subset
<1>4. /\ Cardinality(queue) \in Nat /\ Cardinality(todo) \in Nat
      /\ Cardinality(users) \in Nat /\ Cardinality(EdgeIds) \in Nat
      /\ Cardinality(have) \in Nat
  BY <1>2, <1>3, EdgeIdsAssumption, FS_CardinalityType
<1>5. ToPop \in Nat /\ Rounds \in Nat
  BY <1>1, <1>2, <1>4 DEF ToPop, Rounds, Phase
<1> QED BY <1>1, <1>2, <1>3, <1>4, <1>5

\* A round less of a loop, with as many blocks to pop; or a block less to pop,
\* with no more new rounds than there are edges.
LEMMA LessWork ==
    ASSUME IInv, Rounds' \in Nat,
           \/ ToPop' = ToPop /\ Rounds' < Rounds
           \/ ToPop' = ToPop - 1 /\ Rounds' <= Rounds + Cardinality(EdgeIds) + 1
    PROVE  Work' < Work
<1> DEFINE E == Cardinality(EdgeIds) + 2
<1>1. E \in Nat /\ E = Cardinality(EdgeIds) + 2 /\ ToPop \in Nat /\ Rounds \in Nat
  BY Counts
<1>2. Work = E * ToPop + Rounds /\ Work' = E * ToPop' + Rounds'
  BY DEF Work
<1>3. E * (ToPop - 1) = E * ToPop - E /\ E * ToPop \in Nat
  BY <1>1
<1> HIDE DEF E
<1> QED BY <1>1, <1>2, <1>3, Counts

\* A block more on the work list is a block less to be solved.
LEMMA SolveMoves ==
    ASSUME IInv, NEW j \in Blocks, NEW d, Solve(j, d)
    PROVE  ToPop' = ToPop
<1>1. CASE j \in have
  BY <1>1 DEF Solve, blockVars, ToPop
<1>2. CASE j \notin have
  <2>1. j \notin queue /\ queue' = queue \cup {j} /\ solved' = solved + 1
    BY <1>2 DEF Solve, IInv, QueueOK
  <2>2. Cardinality(queue') = Cardinality(queue) + 1
    BY <2>1, Counts, FS_AddElement
  <2> QED BY <2>1, <2>2, Counts DEF ToPop
<1> QED BY <1>1, <1>2

\* An edge visited is an edge less to visit.
LEMMA VisitShrinks ==
    ASSUME IInv, NEW e \in users, users' = users \ {e}, UNCHANGED <<todo, pc>>
    PROVE  Rounds' \in Nat /\ Rounds' < Rounds
<1>1. Cardinality(users \ {e}) = Cardinality(users) - 1
  BY Counts, FS_RemoveElement
<1>2. Cardinality(users \ {e}) \in Nat
  BY Counts, FS_RemoveElement, FS_CardinalityType
<1> QED BY <1>1, <1>2, Counts DEF Rounds, Phase

\* Each step of a call ends a round of one of its loops, or the loop.
LEMMA StepShrinks == ASSUME IInv, DecoderStep PROVE Work' < Work
<1>1. ASSUME NEW b \in Blocks, Reduce(b) PROVE Work' < Work
  <2>1. b \in todo /\ todo' = todo \ {b} /\ UNCHANGED <<queue, solved, users, pc>>
    BY <1>1 DEF Reduce, blockVars
  <2>2. Cardinality(todo') = Cardinality(todo) - 1 /\ Cardinality(todo') \in Nat
    BY <2>1, Counts, FS_RemoveElement, FS_CardinalityType
  <2>3. ToPop' = ToPop /\ Rounds' \in Nat /\ Rounds' < Rounds
    BY <2>1, <2>2, Counts DEF ToPop, Rounds, Phase
  <2> QED BY <2>3, LessWork
<1>2. ASSUME InsertNothing \/ InsertEdge \/ (\E j \in Blocks : InsertSolved(j))
      PROVE  Work' < Work
  <2>1. /\ pc = "reduce" /\ pc' = "peel" /\ UNCHANGED <<todo, users>>
    BY <1>2 DEF InsertNothing, InsertEdge, InsertSolved, Reduced, callVars
  <2>2. ToPop' = ToPop
    BY <1>2, SolveMoves DEF InsertNothing, InsertEdge, InsertSolved, blockVars, ToPop
  <2>3. Rounds' \in Nat /\ Rounds' < Rounds
    BY <2>1, Counts DEF Rounds, Phase
  <2> QED BY <2>2, <2>3, LessWork
<1>3. ASSUME NEW b \in Blocks, PeelPop(b) PROVE Work' < Work
  <2>1. /\ pc = "peel" /\ pc' = "visit" /\ b \in queue /\ queue' = queue \ {b}
        /\ users' = byIdx[b] /\ UNCHANGED <<todo, solved>>
    BY <1>3 DEF PeelPop, AfterPop, callVars
  <2>2. Cardinality(queue') = Cardinality(queue) - 1
    BY <2>1, Counts, FS_RemoveElement
  <2>3. Cardinality(users') \in Nat /\ Cardinality(users') <= Cardinality(EdgeIds)
    <3>1. users' \in SUBSET EdgeIds
      BY <2>1 DEF IInv, TypeOK
    <3> QED BY <3>1, EdgeIdsAssumption, FS_Subset, FS_CardinalityType
  <2>4. ToPop' = ToPop - 1
    BY <2>1, <2>2, Counts DEF ToPop
  <2>5. Rounds' \in Nat /\ Rounds' <= Rounds + Cardinality(EdgeIds) + 1
    BY <2>1, <2>3, Counts DEF Rounds, Phase
  <2> QED BY <2>4, <2>5, LessWork
<1>4. ASSUME NEW e \in EdgeIds, VisitSkip(e) PROVE Work' < Work
  <2>1. ToPop' = ToPop /\ Rounds' \in Nat /\ Rounds' < Rounds
    BY <1>4, VisitShrinks DEF VisitSkip, blockVars, callVars, ToPop
  <2> QED BY <2>1, LessWork
<1>5. ASSUME NEW e \in EdgeIds, VisitEdge(e) PROVE Work' < Work
  <2>1. Rounds' \in Nat /\ Rounds' < Rounds
    BY <1>5, VisitShrinks DEF VisitEdge, callVars
  <2>2. ToPop' = ToPop
    <3>1. CASE UNCHANGED blockVars
      BY <3>1 DEF blockVars, ToPop
    <3>2. CASE \E j \in Blocks, d \in SUBSET Blocks : Solve(j, d)
      BY <3>2, SolveMoves
    <3>3. idxs[e] \in SUBSET Blocks /\ Xor(edata[e], data[bi]) \in SUBSET Blocks
      BY DEF IInv, TypeOK, Xor
    <3> QED BY <1>5, <3>1, <3>2, <3>3 DEF VisitEdge
  <2> QED BY <2>1, <2>2, LessWork
<1>6. CASE VisitEnd \/ PeelEnd
  <2>1. ToPop' = ToPop /\ UNCHANGED <<todo, users>>
    BY <1>6 DEF VisitEnd, PeelEnd, blockVars, callVars, ToPop
  <2>2. Rounds' \in Nat /\ Rounds' < Rounds
    BY <1>6, <2>1, Counts DEF VisitEnd, PeelEnd, Rounds, Phase
  <2> QED BY <2>1, <2>2, LessWork
<1> QED BY <1>1, <1>2, <1>3, <1>4, <1>5, <1>6 DEF DecoderStep

\* Every step of a call leaves less to be done, so a call that keeps running
\* returns: for every number of blocks, edges and frames.
THEOREM CallsEnd == Spec => CallsShrink
<1> DEFINE Typed == Work \in Nat
           Shrinks == pc # "idle" => Work \in Nat /\ Work' \in Nat /\ Work' < Work
<1>1. IInv => Typed
  BY Counts DEF Work
<1>2. IInv /\ Typed /\ Typed' /\ [Next]_vars => [Shrinks]_vars
  <2> SUFFICES ASSUME IInv, Typed, Typed', Next, pc # "idle" PROVE Work' < Work
    OBVIOUS
  <2>1. DecoderStep
    BY DEF Next, Ingest
  <2> QED BY <2>1, StepShrinks
<1> HIDE DEF Typed, Shrinks
<1>3. Spec => [][Shrinks]_vars
  BY <1>1, <1>2, Invariance, PTL DEF Spec
<1> QED BY <1>3 DEF CallsShrink, Shrinks
=============================================================================
