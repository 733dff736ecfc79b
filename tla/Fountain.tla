------------------------------ MODULE Fountain ------------------------------
(***************************************************************************)
(* The peeling decoder of src/yolofountain/codec.py (class Decoder), one    *)
(* frame of an arbitrary stream after another: frames may be lost, repeated *)
(* and reordered at will, because Ingest takes any index at any time.       *)
(*                                                                          *)
(* Data is symbolic over GF(2).  The content of a buffer is the set of      *)
(* source blocks whose XOR it holds, so that XOR is symmetric difference    *)
(* and a block is recovered exactly when its buffer holds {b}.              *)
(*                                                                          *)
(* One call of ingest is split into the iterations of its loops; pc says    *)
(* which loop is running.  The order in which a set is iterated and in      *)
(* which the work list is popped is left open.                              *)
(***************************************************************************)
EXTENDS Droplets, FiniteSets

CONSTANT EdgeIds        \* the _Edge objects that may exist at one time (a bound)

ASSUME EdgeIdsAssumption == IsFiniteSet(EdgeIds)

VARIABLES
    have,       \* Decoder.have: the blocks marked as solved
    data,       \* Decoder.data: the content of every block's slice
    solved,     \* Decoder.solved: the counter is_complete looks at
    live,       \* the _Edge objects with dead = False
    idxs,       \* _Edge.idxs
    edata,      \* _Edge.data
    byIdx,      \* Decoder.by_idx: the edges filed under a block
    queue,      \* the work list of _peel
    pc,         \* "idle", "reduce" (loop of ingest), "peel" and "visit" (loops of _peel)
    todo,       \* "reduce": the blocks of the frame still to be looked at
    s,          \* the set s of ingest
    body,       \* the frame's buffer
    bi,         \* "visit": the block popped from the work list
    users,      \* "visit": the edges of list(users) still to be looked at
    received    \* history: the frames given to ingest

callVars == <<todo, s, body>>
edgeVars == <<live, idxs, edata>>
blockVars == <<have, data, solved, queue>>
vars == <<have, data, solved, live, idxs, edata, byIdx, queue, pc, todo, s,
          body, bi, users, received>>

\* Mutant: |= in place of ^=.
XorAsOr(A, B) == A \cup B

Xor(A, B) == (A \ B) \cup (B \ A)

Init ==
    /\ have = {} /\ solved = 0
    /\ data = [b \in Blocks |-> {}]
    /\ live = {}
    /\ idxs = [e \in EdgeIds |-> {}]
    /\ edata = [e \in EdgeIds |-> {}]
    /\ byIdx = [b \in Blocks |-> {}]
    /\ queue = {} /\ users = {} /\ bi = 0
    /\ pc = "idle" /\ todo = {} /\ s = {} /\ body = {}
    /\ received = {}

\* An edge that is neither live nor filed anywhere is garbage: its identity may
\* be that of the next _Edge created.
Unused == EdgeIds \ (live \cup users \cup UNION {byIdx[b] : b \in Blocks})
NewEdge == CHOOSE e \in Unused : TRUE

\* Mutants of _solve: the check for a block already there is dropped; the work
\* list is not told.
SolveTwice(j, d) ==
    /\ have' = have \cup {j} /\ data' = [data EXCEPT ![j] = d]
    /\ solved' = solved + 1 /\ queue' = queue \cup {j}
SolveQuietly(j, d) ==
    IF j \in have
    THEN UNCHANGED blockVars
    ELSE /\ have' = have \cup {j} /\ data' = [data EXCEPT ![j] = d]
         /\ solved' = solved + 1 /\ UNCHANGED queue

\* Decoder._solve(j, d): does nothing when the block is already there.
Solve(j, d) ==
    IF j \in have
    THEN UNCHANGED blockVars
    ELSE /\ have' = have \cup {j}
         /\ data' = [data EXCEPT ![j] = d]
         /\ solved' = solved + 1
         /\ queue' = queue \cup {j}

Complete == solved >= N

-----------------------------------------------------------------------------
(* ingest: fold what is known out of the frame's body *)

Ingest(i) ==
    /\ pc = "idle" /\ Unused # {}
    /\ pc' = "reduce"
    /\ todo' = BlocksFor(i) /\ body' = BlocksFor(i) /\ s' = {}
    /\ received' = received \cup {i}
    /\ UNCHANGED <<blockVars, edgeVars, byIdx, bi, users>>

Reduce(b) ==
    /\ pc = "reduce" /\ b \in todo
    /\ todo' = todo \ {b}
    /\ IF b \in have
       THEN body' = Xor(body, data[b]) /\ UNCHANGED s
       ELSE s' = s \cup {b} /\ UNCHANGED body
    /\ UNCHANGED <<blockVars, edgeVars, byIdx, pc, bi, users, received>>

(* _insert: the three cases of the reduced frame *)

Reduced == pc = "reduce" /\ todo = {}

InsertNothing ==
    /\ Reduced /\ s = {}
    /\ pc' = "peel"
    /\ UNCHANGED <<blockVars, edgeVars, callVars, byIdx, bi, users, received>>

InsertSolved(j) ==
    /\ Reduced /\ s = {j}
    /\ Solve(j, body)
    /\ pc' = "peel"
    /\ UNCHANGED <<edgeVars, callVars, byIdx, bi, users, received>>

\* by_idx with edge e filed under the blocks bs.  Mutant: under one of them.
FiledUnderOne(e, bs) == [byIdx EXCEPT ![CHOOSE b \in bs : TRUE] = @ \cup {e}]
FiledUnder(e, bs) == [b \in Blocks |-> IF b \in bs THEN byIdx[b] \cup {e} ELSE byIdx[b]]

InsertEdge ==
    /\ Reduced /\ s # {} /\ \A j \in s : s # {j}
    /\ live' = live \cup {NewEdge}
    /\ idxs' = [idxs EXCEPT ![NewEdge] = s]
    /\ edata' = [edata EXCEPT ![NewEdge] = body]
    /\ byIdx' = FiledUnder(NewEdge, s)
    /\ pc' = "peel"
    /\ UNCHANGED <<blockVars, callVars, bi, users, received>>

-----------------------------------------------------------------------------
(* _peel *)

\* The work list after one block was taken.  Mutant: looked at, not taken.
AfterPeek(b) == queue
AfterPop(b) == queue \ {b}

PeelPop(b) ==
    /\ pc = "peel" /\ b \in queue
    /\ pc' = "visit"
    /\ queue' = AfterPop(b) /\ bi' = b
    /\ users' = byIdx[b] /\ byIdx' = [byIdx EXCEPT ![b] = {}]
    /\ UNCHANGED <<have, data, solved, edgeVars, callVars, received>>

Untouched(e) == e \notin live \/ bi \notin idxs[e]

VisitSkip(e) ==
    /\ pc = "visit" /\ e \in users /\ Untouched(e)
    /\ users' = users \ {e}
    /\ UNCHANGED <<blockVars, edgeVars, callVars, byIdx, pc, bi, received>>

\* Removes bi from the edge; the edge that is left with one block solves it.
VisitEdge(e) ==
    LET rest == idxs[e] \ {bi}
        rdata == Xor(edata[e], data[bi])
    IN  /\ pc = "visit" /\ e \in users /\ ~Untouched(e)
        /\ users' = users \ {e}
        /\ idxs' = [idxs EXCEPT ![e] = rest]
        /\ edata' = [edata EXCEPT ![e] = rdata]
        /\ IF \E j \in rest : rest = {j}
           THEN /\ live' = live \ {e}
                /\ \E j \in rest : Solve(j, rdata)
           ELSE /\ live' = IF rest = {} THEN live \ {e} ELSE live
                /\ UNCHANGED blockVars
        /\ UNCHANGED <<callVars, byIdx, pc, bi, received>>

VisitEnd ==
    /\ pc = "visit" /\ users = {}
    /\ pc' = "peel"
    /\ UNCHANGED <<blockVars, edgeVars, callVars, byIdx, bi, users, received>>

\* The call returns and its locals go out of scope.
PeelEnd ==
    /\ pc = "peel" /\ queue = {}
    /\ pc' = "idle"
    /\ s' = {} /\ body' = {} /\ bi' = 0
    /\ UNCHANGED <<blockVars, edgeVars, byIdx, todo, users, received>>

-----------------------------------------------------------------------------

DecoderStep ==
    \/ \E b \in Blocks : Reduce(b) \/ InsertSolved(b) \/ PeelPop(b)
    \/ \E e \in EdgeIds : VisitSkip(e) \/ VisitEdge(e)
    \/ InsertNothing \/ InsertEdge \/ VisitEnd \/ PeelEnd

Next == DecoderStep \/ \E i \in Frames : Ingest(i)

Spec == Init /\ [][Next]_vars

\* ingest is ordinary sequential code: once called it keeps running.  Nothing
\* is assumed of the channel.
FairSpec == Spec /\ WF_vars(DecoderStep)

-----------------------------------------------------------------------------
(* Properties *)

\* Every variable keeps its type.
TypeOK ==
    /\ have \subseteq Blocks /\ solved \in Nat
    /\ data \in [Blocks -> SUBSET Blocks]
    /\ live \subseteq EdgeIds
    /\ idxs \in [EdgeIds -> SUBSET Blocks]
    /\ edata \in [EdgeIds -> SUBSET Blocks]
    /\ byIdx \in [Blocks -> SUBSET EdgeIds]
    /\ queue \subseteq Blocks
    /\ pc \in {"idle", "reduce", "peel", "visit"}
    /\ todo \subseteq Blocks /\ s \subseteq Blocks /\ body \subseteq Blocks
    /\ bi \in Blocks /\ users \subseteq EdgeIds
    /\ received \subseteq Frames

\* A transfer that reports itself complete (is_complete) hands out the payload
\* that was sent, whatever frames arrived in whatever order and however often:
\* no frame is folded in twice and no block is counted twice.
PayloadExact == Complete => data = [b \in Blocks |-> {b}]

\* After every call the blocks solved are the least set closed under peeling
\* for the frames received: the edge bookkeeping (by_idx, idxs, dead, the work
\* list) never leaves a block behind that the frames determine, and the order
\* and repetition of the frames do not matter.
OrderIndependent ==
    pc = "idle" =>
        /\ PeelClosed(have, received)
        /\ \A K \in SUBSET Blocks : PeelClosed(K, received) => have \subseteq K

\* A call of ingest returns: the work list of _peel runs dry.
IngestReturns == pc # "idle" ~> pc = "idle"

\* The decoder implements the abstract one: every block appears in have by a
\* permitted Recover, and all that can be recovered is before the next frame.
Abs == INSTANCE ErasureDecoder WITH known <- have
Refinement == Abs!FairSpec

-----------------------------------------------------------------------------
(* The inductive invariant behind PayloadExact, OrderIndependent, Refinement *)

\* A buffer holds the XOR of the blocks it is still labelled with.
DataOK ==
    /\ \A b \in have : data[b] = {b}
    /\ \A e \in live : edata[e] = idxs[e]
    /\ pc = "reduce" => body = s \cup todo /\ s \cap todo = {} /\ s \cap have = {}

\* A live edge has two blocks or more, and is filed under each of them or is
\* about to be visited for it.
Filed(e, b) == e \in byIdx[b] \/ (pc = "visit" /\ b = bi /\ e \in users)
EdgesOK ==
    /\ \A e \in live : \E a, b \in idxs[e] : a # b
    /\ \A e \in live : \A b \in idxs[e] : Filed(e, b)
    /\ pc = "reduce" => Unused # {}

\* A live edge names a solved block only until the work list has come to it.
Pending(e, b) == b \in queue \/ (pc = "visit" /\ b = bi /\ e \in users)
QueueOK ==
    /\ queue \subseteq have
    /\ pc = "visit" => bi \in have
    /\ pc \in {"idle", "reduce"} => queue = {}
    /\ pc # "visit" => users = {}
    /\ pc # "reduce" => todo = {}
    /\ \A e \in live : \A b \in idxs[e] \cap have : Pending(e, b)

\* J is frame i less blocks that are solved.
Residue(J, i) == J \subseteq BlocksFor(i) /\ BlocksFor(i) \ J \subseteq have

\* What a received frame says about blocks unknown is still held by an edge or
\* by the call; and edges and call hold nothing but residues of frames.
CoverOK == \A i \in received :
    \/ Residue({}, i)
    \/ \E e \in live : Residue(idxs[e], i)
    \/ pc = "reduce" /\ Residue(s \cup todo, i)
OriginOK ==
    /\ \A e \in live : \E i \in received : Residue(idxs[e], i)
    /\ pc = "reduce" => \E i \in received : Residue(s \cup todo, i)

\* Nothing is solved that the frames received do not determine by peeling.
Grounded == \A K \in SUBSET Blocks : PeelClosed(K, received) => have \subseteq K

\* Every solved block was counted once.
Counted == solved = Cardinality(have)

\* The invariant of Decoder as a whole, between any two steps of its loops.
IInv == /\ TypeOK /\ DataOK /\ EdgesOK /\ QueueOK
        /\ CoverOK /\ OriginOK /\ Grounded /\ Counted

-----------------------------------------------------------------------------
(* Why a call of ingest ends *)

\* The blocks that may still be popped from the work list: those in it and
\* those still to be solved.
ToPop == Cardinality(queue) + N - solved

\* The rounds the running loop has left, and the loops after it.
Phase == IF pc = "idle" THEN 0 ELSE IF pc = "peel" THEN 1 ELSE 2
Rounds == Cardinality(users) + Cardinality(todo) + Phase

\* The steps a call has left, at most: a block popped has no more edges to visit
\* than there are.
Work == (Cardinality(EdgeIds) + 2) * ToPop + Rounds

\* A call comes closer to its end with every step.
CallsShrink == [][pc # "idle" => Work \in Nat /\ Work' \in Nat /\ Work' < Work]_vars
=============================================================================
