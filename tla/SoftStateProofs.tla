-------------------------- MODULE SoftStateProofs --------------------------
(***************************************************************************)
(* Soft-state broadcast, for any number of publishers, any state lengths and *)
(* any loss, repetition and order of frames.  Without restarts and without a *)
(* session id coming round again (DistinctSessions): NeverTorn, the refinement *)
(* of StateBroadcast, on an ordered channel DeliveredIsShown, and            *)
(* SnapshotCurrent while the table is read.  With restarts and with session   *)
(* ids that come round: TypeOK, and that a torn state is shown only of        *)
(* publications of one length that shared a session id.                       *)
(***************************************************************************)
EXTENDS Presence, TLAPS

USE SizesAssumption, ParamAssumption

\* The block a frame carries is a block of its publication.
LEMMA BlockOfType ==
    ASSUME NEW k \in 1 .. 4, NEW i \in Nat
    PROVE  i % k \in 0 .. k - 1 /\ i % k \in Indices
BY DEF Indices

Records == [version : Pubs, size : Sizes]

\* The publications of one publisher are a sequence of version and length.
LEMMA PubsType ==
    ASSUME TypeOK, NEW p \in Pids
    PROVE  /\ pubs[p] \in Seq(Records) /\ Len(pubs[p]) \in Nat
           /\ \A n \in 1 .. Len(pubs[p]) : pubs[p][n] \in Records
<1>1. pubs[p] \in Seq(Records)
  BY Zenon DEF TypeOK, Records
<1> QED BY <1>1

\* A publication has its own session.
LEMMA SessionOwn ==
    ASSUME DistinctSessions, Numbered, NEW p \in Pids, NEW n \in Pubs, n <= Len(pubs[p])
    PROVE  Session(p, n) = n /\ n \in Sessions
<1>1. pubs[p][n].version = n
  BY DEF Numbered, Pubs
<1>2. n < SessionMod /\ n \in Nat
  BY DEF DistinctSessions, Pubs
<1> QED BY <1>1, <1>2 DEF Session, Sessions

\* Block 0 is a block of every state.
LEMMA BlocksInType ==
    ASSUME NEW e, e.size \in Sizes
    PROVE  0 \in BlocksIn(e) /\ BlocksIn(e) \subseteq Indices
BY DEF BlocksIn, Indices

\* The subscriber starts with the types it keeps.
LEMMA InitTypeOK == ASSUME Init PROVE TypeOK
<1>1. /\ version \in [Pids -> 0 .. MaxPub] /\ restarts \in 0 .. MaxRestarts
      /\ cursor \in [Pids -> [pub : Pubs \cup {0}, idx : 0 .. 3 + Redundancy]]
  BY DEF Init, NoFrame
<1>2. /\ pubs \in [Pids -> Seq([version : Pubs, size : Sizes])]
      /\ \A p \in Pids : Len(pubs[p]) <= MaxPub
  BY DEF Init
<1>3. dec \in [Pids -> [Sessions -> Entries \cup {NoEntry}]]
  BY DEF Init, NoDecoders
<1>4. /\ table \in [Pids -> States \cup {NoState}]
      /\ seen \in [Pids -> [Pubs -> SUBSET Indices]]
  BY DEF Init, NothingSeen
<1> QED BY <1>1, <1>2, <1>3, <1>4 DEF TypeOK

\* The subscriber starts in a state of IInv.
LEMMA InitIInv == ASSUME DistinctSessions, Init PROVE IInv
<1>1. TypeOK
  BY InitTypeOK
<1>2. Numbered /\ OwnBlocks /\ TableWhole
  BY DEF Init, Numbered, OwnBlocks, NoDecoders, TableWhole
<1>3. Progress
  <2>1. ASSUME NEW p \in Pids PROVE cursor[p].pub <= Len(pubs[p])
    <3>1. cursor[p].pub = 0
      BY DEF Init, NoFrame
    <3>2. Len(pubs[p]) \in Nat
      BY <1>1, PubsType
    <3> QED BY <3>1, <3>2
  <2>2. Pubs \subseteq Sessions
    BY DEF DistinctSessions, Pubs, Sessions
  <2>3. \A p \in Pids, n \in Pubs : seen[p][n] = {} /\ dec[p][n] = NoEntry
    BY <2>2 DEF Init, NothingSeen, NoDecoders
  <2> QED BY <2>1, <2>3 DEF Progress, InStep
<1> QED BY <1>1, <1>2, <1>3 DEF IInv

\* What is fed to the subscriber: a block of the frame's own publication, into
\* a decoder that holds nothing else.
LEMMA FedFacts ==
    ASSUME DistinctSessions, IInv, NEW p \in Pids, NEW n \in Pubs,
           NEW i \in 0 .. 3 + Redundancy, n <= Len(pubs[p])
    PROVE  /\ Session(p, n) = n /\ n \in Sessions /\ Size(p, n) \in Sizes
           /\ BlockOf(p, n, i) \in BlocksIn(Fed(p, n, i))
           /\ BlockOf(p, n, i) \in Indices
           /\ Entry(p, n) \in Entries /\ Fed(p, n, i) \in Entries
           /\ Entry(p, n).size = Size(p, n) /\ Fed(p, n, i).size = Size(p, n)
           /\ Fed(p, n, i).done = Entry(p, n).done
           /\ \A j \in Indices : Entry(p, n).got[j] \in {0, n}
           /\ Fed(p, n, i).got[BlockOf(p, n, i)] = n
           /\ \A j \in Indices \ {BlockOf(p, n, i)} :
                 Fed(p, n, i).got[j] = Entry(p, n).got[j]
<1> DEFINE e == Entry(p, n)
           b == BlockOf(p, n, i)
<1>1. Session(p, n) = n /\ n \in Sessions
  BY SessionOwn DEF IInv
<1>2. Size(p, n) \in Sizes
  <2>1. pubs[p][n] \in Records
    BY PubsType DEF IInv, Pubs
  <2> QED BY <2>1 DEF Size, Records
<1>3. b \in 0 .. NBlocks[Size(p, n)] - 1 /\ b \in Indices
  BY <1>2, BlockOfType DEF BlockOf
<1>4. e \in Entries /\ e.size = Size(p, n) /\ \A j \in Indices : e.got[j] \in {0, n}
  <2>1. CASE dec[p][n] # NoEntry /\ dec[p][n].size = Size(p, n)
    <3>1. e = dec[p][n]
      BY <1>1, <2>1 DEF Entry
    <3> QED BY <1>1, <2>1, <3>1 DEF IInv, TypeOK, OwnBlocks
  <2>2. CASE ~(dec[p][n] # NoEntry /\ dec[p][n].size = Size(p, n))
    <3>1. e = NewEntry(Size(p, n))
      BY <1>1, <2>2 DEF Entry
    <3> QED BY <1>2, <3>1 DEF NewEntry, Entries
  <2> QED BY <2>1, <2>2
<1>5. Fed(p, n, i) = IF e.got[b] = 0 THEN [e EXCEPT !.got[b] = n] ELSE e
  BY DEF Fed, Ingested
<1>6. Fed(p, n, i) \in Entries
  <2>1. [e.got EXCEPT ![b] = n] \in [Indices -> Pubs \cup {0}]
    BY <1>3, <1>4 DEF Entries
  <2> QED BY <1>4, <1>5, <2>1 DEF Entries
<1>7. /\ Fed(p, n, i).size = Size(p, n) /\ Fed(p, n, i).done = e.done
      /\ Fed(p, n, i).got[b] = n
      /\ \A j \in Indices \ {b} : Fed(p, n, i).got[j] = e.got[j]
  BY <1>3, <1>4, <1>5 DEF Entries
<1>8. b \in BlocksIn(Fed(p, n, i))
  BY <1>3, <1>7 DEF BlocksIn
<1> QED BY <1>1, <1>2, <1>3, <1>4, <1>6, <1>7, <1>8

\* The channel records what it delivers.
LEMMA DeliverTyped ==
    ASSUME DistinctSessions, IInv, NEW p \in Pids, NEW n \in Pubs,
           NEW i \in 0 .. 3 + Redundancy, Deliver(p, n, i)
    PROVE  /\ seen' \in [Pids -> [Pubs -> SUBSET Indices]]
           /\ cursor' \in [Pids -> [pub : Pubs \cup {0}, idx : 0 .. 3 + Redundancy]]
<1>1. BlockOf(p, n, i) \in Indices
  BY FedFacts DEF Deliver, Deliverable
<1>2. seen' \in [Pids -> [Pubs -> SUBSET Indices]]
  BY <1>1 DEF Deliver, Deliverable, IInv, TypeOK
<1>3. cursor' \in [Pids -> [pub : Pubs \cup {0}, idx : 0 .. 3 + Redundancy]]
  <2>1. [pub |-> n, idx |-> i] \in [pub : Pubs \cup {0}, idx : 0 .. 3 + Redundancy]
    OBVIOUS
  <2> QED BY <2>1, Zenon DEF Deliver, Deliverable, IInv, TypeOK
<1> QED BY <1>2, <1>3

\* A new publication.
LEMMA PublishIInv ==
    ASSUME DistinctSessions, IInv, NEW p \in Pids, NEW z \in Sizes, Publish(p, z)
    PROVE  IInv'
<1> DEFINE r == [version |-> version[p] + 1, size |-> z]
<1> USE DEF IInv, subVars
<1>1. /\ version[p] = Len(pubs[p]) /\ Len(pubs[p]) < MaxPub
      /\ version[p] + 1 \in Pubs /\ pubs[p] \in Seq(Records) /\ r \in Records
  <2>1. version[p] = Len(pubs[p]) /\ Len(pubs[p]) < MaxPub
    BY DEF Numbered, Publish
  <2>2. version[p] + 1 \in Pubs
    BY <2>1, PubsType DEF Pubs
  <2> QED BY <2>1, <2>2, PubsType DEF Records
<1>2. /\ Len(Append(pubs[p], r)) = Len(pubs[p]) + 1
      /\ Append(pubs[p], r) \in Seq(Records)
      /\ \A n \in 1 .. Len(pubs[p]) : Append(pubs[p], r)[n] = pubs[p][n]
      /\ Append(pubs[p], r)[Len(pubs[p]) + 1] = r
  BY <1>1
<1>3. pubs' = [pubs EXCEPT ![p] = Append(pubs[p], r)]
  BY DEF Publish
<1>4. TypeOK'
  <2>1. version' \in [Pids -> 0 .. MaxPub]
    BY <1>1 DEF Publish, TypeOK, Pubs
  <2>2. pubs' \in [Pids -> Seq(Records)]
    BY <1>2, <1>3, Zenon DEF TypeOK, Records
  <2>3. \A q \in Pids : Len(pubs'[q]) <= MaxPub
    BY <1>1, <1>2, <1>3, PubsType DEF TypeOK
  <2> QED BY <2>1, <2>2, <2>3 DEF Publish, TypeOK, Records
<1>5. Numbered'
  BY <1>1, <1>2, <1>3, PubsType DEF Publish, Numbered, TypeOK
<1>6. OwnBlocks'
  BY DEF Publish, OwnBlocks
<1>7. \A q \in Pids : /\ Len(pubs[q]) <= Len(pubs'[q])
                     /\ \A n \in 1 .. Len(pubs[q]) : pubs'[q][n] = pubs[q][n]
  BY <1>1, <1>2, <1>3, PubsType DEF TypeOK
<1>8. TableWhole'
  <2> SUFFICES ASSUME NEW q \in Pids, table[q] # NoState
               PROVE  /\ \A j \in BlocksIn(table[q]) : table[q].got[j] = table[q].version
                      /\ table[q].version <= Len(pubs'[q])
    BY DEF Publish, TableWhole, BlocksIn
  <2>1. table[q].version \in Nat
    BY DEF TypeOK, States, Pubs
  <2> QED BY <1>3, <1>7, <2>1, PubsType DEF TableWhole, TypeOK
<1>9. ~Reorder => Progress'
  <2> SUFFICES ASSUME ~Reorder, NEW q \in Pids
               PROVE  /\ cursor[q].pub <= Len(pubs'[q])
                      /\ \A n \in Pubs : InStep(q, n)'
    BY DEF Publish, Progress
  <2>1. cursor[q].pub \in Nat /\ cursor[q].pub <= Len(pubs[q])
    BY DEF Progress, TypeOK, Pubs
  <2>2. cursor[q].pub <= Len(pubs'[q])
    BY <1>4, <1>7, <2>1, PubsType DEF TypeOK
  <2>3. ASSUME NEW n \in Pubs PROVE InStep(q, n)'
    <3>1. seen[q][n] # {} => pubs'[q][n] = pubs[q][n]
      BY <1>7, <2>1, PubsType DEF Progress, InStep, Pubs
    <3> QED
      BY <3>1 DEF Publish, Progress, InStep, Shown, Follows, IsComplete, BlocksIn, Size
  <2> QED BY <2>2, <2>3
<1> QED BY <1>4, <1>5, <1>6, <1>8, <1>9

\* A subscriber that starts over.
LEMMA JoinIInv == ASSUME DistinctSessions, IInv, Join PROVE IInv'
<1> USE DEF IInv, pubVars
<1>1. TypeOK'
  BY DEF Join, TypeOK, NoDecoders, NothingSeen
<1>2. Numbered'
  BY DEF Join, Numbered
<1>3. OwnBlocks' /\ TableWhole'
  BY DEF Join, OwnBlocks, TableWhole, NoDecoders
<1>4. ~Reorder => Progress'
  BY DEF Join, Progress, InStep, NoDecoders, NothingSeen, DistinctSessions, Pubs, Sessions
<1> QED BY <1>1, <1>2, <1>3, <1>4

\* What the subscriber shows is a publication or nothing.
LEMMA ShownType == ASSUME TypeOK, NEW p \in Pids PROVE Shown(p) \in Nat
BY DEF Shown, TypeOK, States, Pubs, Indices

\* On an ordered channel a frame moves the cursor of its publisher forward, and
\* nothing later than the cursor was delivered.
LEMMA DeliverOrdered ==
    ASSUME DistinctSessions, IInv, ~Reorder, NEW p \in Pids, NEW n \in Pubs,
           NEW i \in 0 .. 3 + Redundancy, Deliver(p, n, i)
    PROVE  /\ n \in Nat /\ n <= Len(pubs[p])
           /\ \A q \in Pids : cursor'[q].pub <= Len(pubs[q])
           /\ seen'[p][n] = seen[p][n] \cup {BlockOf(p, n, i)}
           /\ \A q \in Pids, m \in Pubs :
                 q # p \/ m # n => seen'[q][m] = seen[q][m]
           /\ \A q \in Pids, m \in Pubs : m > cursor'[q].pub => seen'[q][m] = {}
           /\ \A m \in Pubs : m > n => seen'[p][m] = {}
<1>1. n \in Nat /\ n <= Len(pubs[p])
  BY DEF Deliver, Deliverable, Pubs
<1>2. /\ seen'[p][n] = seen[p][n] \cup {BlockOf(p, n, i)}
      /\ \A q \in Pids, m \in Pubs : q # p \/ m # n => seen'[q][m] = seen[q][m]
  BY DEF Deliver, Deliverable, IInv, TypeOK
<1>3. /\ cursor'[p].pub = n /\ cursor[p].pub <= n
      /\ \A q \in Pids : q # p => cursor'[q] = cursor[q]
  <2>1. cursor' = [cursor EXCEPT ![p] = [pub |-> n, idx |-> i]]
    BY DEF Deliver, Deliverable
  <2>2. cursor[p].pub <= n
    <3>1. cursor[p].pub \in Nat
      BY DEF IInv, TypeOK, Pubs
    <3> QED BY <1>1, <3>1 DEF Deliver, Deliverable
  <2> QED BY <2>1, <2>2 DEF IInv, TypeOK
<1>4. \A q \in Pids : cursor[q].pub \in Nat /\ cursor[q].pub <= Len(pubs[q])
  BY DEF IInv, TypeOK, Progress, Pubs
<1>5. \A q \in Pids : cursor'[q].pub <= Len(pubs[q])
  BY <1>1, <1>3, <1>4
<1>6. \A q \in Pids, m \in Pubs : m > cursor[q].pub => seen[q][m] = {}
  BY DEF IInv, Progress, InStep
<1>7. \A m \in Pubs : m > n => seen'[p][m] = {}
  BY <1>1, <1>2, <1>3, <1>4, <1>6 DEF Pubs
<1>8. \A q \in Pids, m \in Pubs : m > cursor'[q].pub => seen'[q][m] = {}
  BY <1>1, <1>2, <1>3, <1>6, <1>7 DEF Pubs
<1> QED BY <1>1, <1>2, <1>5, <1>7, <1>8

\* A publication stays in step when nothing of it changes.
LEMMA StillInStep ==
    ASSUME NEW q \in Pids, NEW m \in Pubs, InStep(q, m),
           m > cursor'[q].pub => seen'[q][m] = {}, seen'[q][m] = seen[q][m],
           dec'[q][m] = dec[q][m], Shown(q)' = Shown(q), pubs' = pubs
    PROVE  InStep(q, m)'
BY DEF InStep, Follows, IsComplete, BlocksIn, Size

\* A frame of a done session is dropped.
LEMMA FeedDoneIInv ==
    ASSUME DistinctSessions, IInv, NEW p \in Pids, NEW n \in Pubs,
           NEW i \in 0 .. 3 + Redundancy, FeedDone(p, n, i)
    PROVE  IInv'
<1> USE DEF IInv, FeedDone, pubVars, subVars
<1>1. TypeOK'
  BY DeliverTyped DEF TypeOK
<1>2. Numbered' /\ OwnBlocks' /\ TableWhole'
  BY DEF Numbered, OwnBlocks, TableWhole, BlocksIn
<1>3. ASSUME ~Reorder PROVE Progress'
  <2>1. Session(p, n) = n /\ Shown(p) \in Nat /\ Shown(p)' = Shown(p)
    BY SessionOwn, ShownType DEF Deliver, Deliverable, Shown
  <2>2. dec[p][n] # NoEntry /\ dec[p][n].done
    BY <2>1 DEF Entry, NewEntry
  <2>3. Shown(p) >= n
    BY <1>3, <2>1, <2>2 DEF Progress, InStep, Follows, Pubs
  <2>4. ASSUME NEW q \in Pids, NEW m \in Pubs PROVE InStep(q, m)'
    <3>1. CASE q = p /\ m = n
      BY <1>3, <2>1, <2>3, <3>1, DeliverOrdered DEF InStep
    <3>2. CASE ~(q = p /\ m = n)
      <4>1. InStep(q, m) /\ Shown(q)' = Shown(q)
        BY <1>3 DEF Progress, Shown
      <4> QED BY <1>3, <3>2, <4>1, DeliverOrdered, StillInStep
    <3> QED BY <3>1, <3>2
  <2> QED BY <1>3, <2>4, DeliverOrdered DEF Progress
<1> QED BY <1>1, <1>2, <1>3

\* A decoder that completes holds its own publication, whole.
LEMMA CompleteFacts ==
    ASSUME DistinctSessions, IInv, NEW p \in Pids, NEW n \in Pubs,
           NEW i \in 0 .. 3 + Redundancy, n <= Len(pubs[p]),
           IsComplete(Fed(p, n, i))
    PROVE  /\ \A j \in BlocksIn(Fed(p, n, i)) : Fed(p, n, i).got[j] = n
           /\ Opens(Fed(p, n, i)) /\ VersionIn(p, Fed(p, n, i)) = n
<1> DEFINE e == Fed(p, n, i)
<1>1. e.size \in Sizes
  BY FedFacts
<1>2. 0 \in BlocksIn(e) /\ BlocksIn(e) \subseteq Indices
  BY <1>1, BlocksInType
<1>3. \A j \in Indices : e.got[j] \in {0, n}
  BY FedFacts
<1>4. \A j \in BlocksIn(e) : e.got[j] = n
  BY <1>2, <1>3 DEF IsComplete
<1>5. pubs[p][n].version = n
  BY DEF IInv, Numbered, Pubs
<1> QED BY <1>2, <1>4, <1>5 DEF Opens, IsWhole, VersionIn

\* The version shown is the publication shown.
LEMMA VersionIsShown ==
    ASSUME IInv, NEW p \in Pids
    PROVE  VersionShown(p) = Shown(p)
<1>1. CASE table[p] = NoState
  BY <1>1 DEF VersionShown, Shown
<1>2. CASE table[p] # NoState
  <2>1. table[p].size \in Sizes
    BY <1>2 DEF IInv, TypeOK, States
  <2> QED BY <1>2, <2>1, BlocksInType DEF IInv, TableWhole, VersionShown, Shown
<1> QED BY <1>1, <1>2

\* Before a frame of a publication not shown yet, its decoder holds what was
\* delivered of it.
LEMMA EntryFollows ==
    ASSUME DistinctSessions, IInv, ~Reorder, NEW p \in Pids, NEW n \in Pubs,
           n <= Len(pubs[p]), Shown(p) < n
    PROVE  ~Entry(p, n).done /\ \A j \in Indices :
              Entry(p, n).got[j] # 0 <=> j \in seen[p][n]
<1>1. Session(p, n) = n
  BY SessionOwn DEF IInv
<1>2. InStep(p, n)
  BY DEF IInv, Progress
<1>3. CASE seen[p][n] = {} /\ dec[p][n] = NoEntry
  BY <1>1, <1>3 DEF Entry, NewEntry
<1>4. CASE Follows(dec[p][n], p, n)
  BY <1>1, <1>4 DEF Entry, Follows
<1> QED BY <1>2, <1>3, <1>4 DEF InStep

\* Putting a decoder of publication n in its session keeps types and owners.
LEMMA StoredFacts ==
    ASSUME DistinctSessions, IInv, NEW p \in Pids, NEW n \in Sessions,
           NEW e \in Entries, \A j \in Indices : e.got[j] \in {0, n},
           \/ dec' = [dec EXCEPT ![p][n] = e]
           \/ dec' = [dec EXCEPT ![p] = [x \in Sessions |-> IF x = n THEN e ELSE NoEntry]]
    PROVE  dec' \in [Pids -> [Sessions -> Entries \cup {NoEntry}]] /\ OwnBlocks'
<1>1. dec \in [Pids -> [Sessions -> Entries \cup {NoEntry}]] /\ OwnBlocks
  BY DEF IInv, TypeOK
<1>2. CASE dec' = [dec EXCEPT ![p][n] = e]
  <2>1. dec' \in [Pids -> [Sessions -> Entries \cup {NoEntry}]]
    BY <1>1, <1>2
  <2>2. OwnBlocks'
    BY <1>1, <1>2 DEF OwnBlocks
  <2> QED BY <2>1, <2>2
<1>3. CASE dec' = [dec EXCEPT ![p] = [x \in Sessions |-> IF x = n THEN e ELSE NoEntry]]
  <2>1. dec' \in [Pids -> [Sessions -> Entries \cup {NoEntry}]]
    BY <1>1, <1>3
  <2>2. OwnBlocks'
    BY <1>1, <1>3 DEF OwnBlocks
  <2> QED BY <2>1, <2>2
<1> QED BY <1>2, <1>3

\* A frame that leaves its decoder incomplete.
LEMMA FeedPartialIInv ==
    ASSUME DistinctSessions, IInv, NEW p \in Pids, NEW n \in Pubs,
           NEW i \in 0 .. 3 + Redundancy, FeedPartial(p, n, i)
    PROVE  IInv'
<1> DEFINE e == Fed(p, n, i)
<1>1. n <= Len(pubs[p]) /\ Deliver(p, n, i) /\ UNCHANGED <<pubVars, table>>
  BY DEF FeedPartial, Deliver, Deliverable
<1>2. Session(p, n) = n /\ n \in Sessions
  BY <1>1, FedFacts
<1>3. dec' = [dec EXCEPT ![p][n] = e] /\ ~IsComplete(e) /\ ~Entry(p, n).done
  BY <1>2 DEF FeedPartial, Stored
<1>4. e \in Entries /\ \A j \in Indices : e.got[j] \in {0, n}
  BY <1>1, FedFacts
<1>5. dec' \in [Pids -> [Sessions -> Entries \cup {NoEntry}]] /\ OwnBlocks'
  BY <1>2, <1>3, <1>4, StoredFacts
<1>6. TypeOK'
  BY <1>1, <1>5, DeliverTyped DEF IInv, TypeOK, pubVars
<1>7. Numbered' /\ TableWhole'
  BY <1>1 DEF IInv, Numbered, TableWhole, BlocksIn, pubVars
<1>8. ASSUME ~Reorder PROVE Progress'
  <2>1. \A q \in Pids : Shown(q)' = Shown(q)
    BY <1>1 DEF Shown
  <2>2. dec'[p][n] = e /\ \A q \in Pids, m \in Pubs : q # p \/ m # n => dec'[q][m] = dec[q][m]
    BY <1>2, <1>3 DEF IInv, TypeOK
  <2>3. ASSUME NEW q \in Pids, NEW m \in Pubs PROVE InStep(q, m)'
    <3>1. CASE q = p /\ m = n
      <4>1. seen'[p][n] = seen[p][n] \cup {BlockOf(p, n, i)}
        BY <1>1, <1>8, DeliverOrdered
      <4>2. n > cursor'[p].pub => seen'[p][n] = {}
        BY <1>1, <1>8, DeliverOrdered
      <4>3. ASSUME Shown(p) < n PROVE Follows(dec[p][n], p, n)'
        <5>1. \A j \in Indices : e.got[j] # 0 <=> j \in seen'[p][n]
          BY <1>1, <1>8, <4>1, <4>3, EntryFollows, FedFacts DEF Pubs
        <5>2. e # NoEntry /\ e.size = Size(p, n) /\ ~e.done
          BY <1>1, <1>3, <1>4, FedFacts DEF Entries, NoEntry
        <5>3. pubs' = pubs /\ dec'[p][n] = e
          BY <1>1, <2>2 DEF pubVars
        <5> QED BY <1>3, <5>1, <5>2, <5>3 DEF Follows, Size, IsComplete, BlocksIn
      <4> QED BY <2>1, <3>1, <4>1, <4>2, <4>3 DEF InStep
    <3>2. CASE ~(q = p /\ m = n)
      <4>1. InStep(q, m)
        BY <1>8 DEF IInv, Progress
      <4> QED
        BY <1>1, <1>8, <2>1, <2>2, <3>2, <4>1, DeliverOrdered, StillInStep DEF pubVars
    <3> QED BY <3>1, <3>2
  <2> QED BY <1>1, <1>8, <2>3, DeliverOrdered DEF Progress, pubVars
<1> QED BY <1>5, <1>6, <1>7, <1>8 DEF IInv

\* A frame that completes its decoder without news: the publication is shown
\* already, or a later one.
LEMMA FeedRejectedIInv ==
    ASSUME DistinctSessions, IInv, NEW p \in Pids, NEW n \in Pubs,
           NEW i \in 0 .. 3 + Redundancy, FeedRejected(p, n, i)
    PROVE  IInv'
<1> DEFINE e == Fed(p, n, i)
           f == Finished(e)
<1>1. n <= Len(pubs[p]) /\ Deliver(p, n, i) /\ UNCHANGED <<pubVars, table>>
  BY DEF FeedRejected, Deliver, Deliverable
<1>2. Session(p, n) = n /\ n \in Sessions
  BY <1>1, FedFacts
<1>3. dec' = [dec EXCEPT ![p][n] = f]
  BY <1>2 DEF FeedRejected, Stored
<1>4. e \in Entries /\ \A j \in Indices : e.got[j] \in {0, n}
  BY <1>1, FedFacts
<1>5. f \in Entries /\ \A j \in Indices : f.got[j] \in {0, n}
  BY <1>4 DEF Finished, Entries
<1>6. dec' \in [Pids -> [Sessions -> Entries \cup {NoEntry}]] /\ OwnBlocks'
  BY <1>2, <1>3, <1>5, StoredFacts
<1>7. TypeOK'
  BY <1>1, <1>6, DeliverTyped DEF IInv, TypeOK, pubVars
<1>8. Numbered' /\ TableWhole'
  BY <1>1 DEF IInv, Numbered, TableWhole, BlocksIn, pubVars
<1>9. Shown(p) >= n
  <2>1. ~Newer(p, e) /\ VersionIn(p, e) = n
    BY <1>1, CompleteFacts DEF FeedRejected
  <2>2. VersionShown(p) = Shown(p) /\ Shown(p) \in Nat
    BY VersionIsShown, ShownType DEF IInv
  <2> QED BY <2>1, <2>2 DEF Newer, Pubs
<1>10. ASSUME ~Reorder PROVE Progress'
  <2>1. \A q \in Pids : Shown(q)' = Shown(q)
    BY <1>1 DEF Shown
  <2>2. \A q \in Pids, m \in Pubs : q # p \/ m # n => dec'[q][m] = dec[q][m]
    BY <1>2, <1>3 DEF IInv, TypeOK
  <2>3. ASSUME NEW q \in Pids, NEW m \in Pubs PROVE InStep(q, m)'
    <3>1. CASE q = p /\ m = n
      <4>1. n \in Nat /\ Shown(p) \in Nat /\ (n > cursor'[p].pub => seen'[p][n] = {})
        BY <1>1, <1>10, DeliverOrdered, ShownType DEF IInv
      <4> QED BY <1>9, <2>1, <3>1, <4>1 DEF InStep
    <3>2. CASE ~(q = p /\ m = n)
      <4>1. InStep(q, m)
        BY <1>10 DEF IInv, Progress
      <4> QED
        BY <1>1, <1>10, <2>1, <2>2, <3>2, <4>1, DeliverOrdered, StillInStep DEF pubVars
    <3> QED BY <3>1, <3>2
  <2> QED BY <1>1, <1>10, <2>3, DeliverOrdered DEF Progress, pubVars
<1> QED BY <1>6, <1>7, <1>8, <1>10 DEF IInv

\* What a commit shows: publication n, whole, which is news.
LEMMA CommitFacts ==
    ASSUME DistinctSessions, IInv, NEW p \in Pids, NEW n \in Pubs,
           NEW i \in 0 .. 3 + Redundancy, FeedCommit(p, n, i)
    PROVE  /\ n <= Len(pubs[p]) /\ Deliver(p, n, i) /\ pubs' = pubs
           /\ UNCHANGED pubVars
           /\ table' \in [Pids -> States \cup {NoState}]
           /\ table'[p] # NoState /\ table'[p].version = n
           /\ 0 \in BlocksIn(table'[p])
           /\ \A j \in BlocksIn(table'[p]) : table'[p].got[j] = n
           /\ \A q \in Pids : q # p => table'[q] = table[q]
           /\ Shown(p)' = n /\ Shown(p) < n
           /\ \A q \in Pids : q # p => Shown(q)' = Shown(q)
<1> DEFINE e == Fed(p, n, i)
           t == [kind |-> "state", size |-> e.size, got |-> e.got, version |-> n]
<1>1. n <= Len(pubs[p]) /\ Deliver(p, n, i) /\ UNCHANGED pubVars
  BY DEF FeedCommit, Commits, Deliver, Deliverable
<1>2. VersionIn(p, e) = n /\ \A j \in BlocksIn(e) : e.got[j] = n
  BY <1>1, CompleteFacts DEF FeedCommit, Commits
<1>3. e \in Entries
  BY <1>1, FedFacts
<1>4. t \in States /\ t # NoState /\ t.version = n /\ t.got = e.got /\ t.size = e.size
  BY <1>3 DEF States, Entries, NoState
<1>5. table \in [Pids -> States \cup {NoState}] /\ table' = [table EXCEPT ![p] = t]
  BY <1>2 DEF FeedCommit, Commits, IInv, TypeOK
<1>6. /\ table' \in [Pids -> States \cup {NoState}] /\ table'[p] = t
      /\ \A q \in Pids : q # p => table'[q] = table[q]
  BY <1>4, <1>5
<1>7. 0 \in BlocksIn(t) /\ \A j \in BlocksIn(t) : t.got[j] = n
  BY <1>2, <1>4, BlocksInType DEF BlocksIn, States
<1>8. Shown(p)' = n /\ \A q \in Pids : q # p => Shown(q)' = Shown(q)
  BY <1>4, <1>6, <1>7 DEF Shown
<1>9. Shown(p) < n
  BY <1>2, VersionIsShown, ShownType DEF FeedCommit, Commits, Newer, IInv, Pubs
<1> QED BY <1>1, <1>4, <1>6, <1>7, <1>8, <1>9 DEF pubVars

\* A frame that completes its decoder with news.
LEMMA FeedCommitIInv ==
    ASSUME DistinctSessions, IInv, NEW p \in Pids, NEW n \in Pubs,
           NEW i \in 0 .. 3 + Redundancy, FeedCommit(p, n, i)
    PROVE  IInv'
<1> DEFINE f == Finished(Fed(p, n, i))
<1>1. n <= Len(pubs[p]) /\ Deliver(p, n, i) /\ UNCHANGED pubVars
  BY CommitFacts
<1>2. Session(p, n) = n /\ n \in Sessions
  BY <1>1, FedFacts
<1>3. dec' = [dec EXCEPT ![p] = [x \in Sessions |-> IF x = n THEN f ELSE NoEntry]]
  BY <1>2 DEF FeedCommit, Commits, Reaped
<1>4. f \in Entries /\ \A j \in Indices : f.got[j] \in {0, n}
  <2>1. Fed(p, n, i) \in Entries /\ \A j \in Indices : Fed(p, n, i).got[j] \in {0, n}
    BY <1>1, FedFacts
  <2> QED BY <2>1 DEF Finished, Entries
<1>5. dec' \in [Pids -> [Sessions -> Entries \cup {NoEntry}]] /\ OwnBlocks'
  BY <1>2, <1>3, <1>4, StoredFacts
<1>6. TypeOK'
  BY <1>1, <1>5, DeliverTyped, CommitFacts DEF IInv, TypeOK, pubVars
<1>7. Numbered'
  BY <1>1 DEF IInv, Numbered, pubVars
<1>8. TableWhole'
  <2> SUFFICES ASSUME NEW q \in Pids, table'[q] # NoState
               PROVE  /\ \A j \in BlocksIn(table'[q]) : table'[q].got[j] = table'[q].version
                      /\ table'[q].version <= Len(pubs'[q])
    BY DEF TableWhole, BlocksIn
  <2>1. CASE q = p
    BY <1>1, <2>1, CommitFacts
  <2>2. CASE q # p
    BY <2>2, CommitFacts DEF IInv, TableWhole
  <2> QED BY <2>1, <2>2
<1>9. ASSUME ~Reorder PROVE Progress'
  <2>1. \A q \in Pids, m \in Pubs : q # p => dec'[q][m] = dec[q][m]
    BY <1>3 DEF IInv, TypeOK
  <2>2. Pubs \subseteq Sessions
    BY DEF DistinctSessions, Pubs, Sessions
  <2>3. \A m \in Pubs : m # n => dec'[p][m] = NoEntry
    BY <1>3, <2>2 DEF IInv, TypeOK
  <2>4. ASSUME NEW q \in Pids, NEW m \in Pubs PROVE InStep(q, m)'
    <3>1. CASE q = p
      <4>1. (m > cursor'[p].pub => seen'[p][m] = {}) /\ (m > n => seen'[p][m] = {})
        BY <1>1, <1>9, DeliverOrdered
      <4>2. Shown(p)' = n
        BY CommitFacts
      <4> QED BY <2>3, <3>1, <4>1, <4>2 DEF InStep, Pubs
    <3>2. CASE q # p
      <4>1. InStep(q, m) /\ Shown(q)' = Shown(q) /\ pubs' = pubs
        BY <1>9, <3>2, CommitFacts DEF IInv, Progress
      <4> QED BY <1>1, <1>9, <2>1, <3>2, <4>1, DeliverOrdered, StillInStep
    <3> QED BY <3>1, <3>2
  <2> QED BY <1>1, <1>9, <2>4, DeliverOrdered DEF Progress, pubVars
<1> QED BY <1>5, <1>6, <1>7, <1>8, <1>9 DEF IInv

-----------------------------------------------------------------------------

\* Every step preserves the invariant.
LEMMA NextIInv == ASSUME DistinctSessions, IInv, [Next]_vars PROVE IInv'
<1>1. ASSUME NEW p \in Pids, NEW z \in Sizes, Publish(p, z) PROVE IInv'
  BY <1>1, PublishIInv
<1>2. ASSUME NEW p \in Pids, Restart(p) PROVE IInv'
  BY <1>2 DEF Restart, DistinctSessions, IInv, TypeOK
<1>3. ASSUME NEW p \in Pids, NEW n \in Pubs, NEW i \in 0 .. 3 + Redundancy, Feed(p, n, i)
      PROVE  IInv'
  BY <1>3, FeedDoneIInv, FeedPartialIInv, FeedRejectedIInv, FeedCommitIInv DEF Feed
<1>4. CASE Join
  BY <1>4, JoinIInv
<1>5. CASE UNCHANGED vars
  <2> USE <1>5 DEF vars, pubVars, subVars, IInv
  <2>1. TypeOK' /\ Numbered' /\ OwnBlocks'
    BY DEF TypeOK, Numbered, OwnBlocks
  <2>2. TableWhole'
    BY DEF TableWhole, BlocksIn
  <2>3. ~Reorder => Progress'
    BY DEF Progress, InStep, Follows, IsComplete, BlocksIn, Shown, Size
  <2> QED BY <2>1, <2>2, <2>3
<1> QED BY <1>1, <1>2, <1>3, <1>4, <1>5 DEF Next

\* While no publisher restarts and no session comes round again, the subscriber
\* stays within IInv.
THEOREM Invariance == ASSUME DistinctSessions PROVE Spec => []IInv
<1>1. Init => IInv
  BY InitIInv
<1>2. IInv /\ [Next]_vars => IInv'
  BY NextIInv
<1> QED BY <1>1, <1>2, PTL DEF Spec

\* What a subscriber shows is one whole publication, however frames are lost,
\* repeated and reordered.
THEOREM NoTearing == ASSUME DistinctSessions PROVE Spec => []NeverTorn
<1>1. IInv => NeverTorn
  <2> SUFFICES ASSUME IInv, NEW p \in Pids, table[p] # NoState
               PROVE  IsWhole(table[p])
    BY DEF NeverTorn
  <2>1. table[p].size \in Sizes
    BY DEF IInv, TypeOK, States
  <2> QED BY <2>1, BlocksInType DEF IInv, TableWhole, IsWhole
<1> QED BY <1>1, Invariance, PTL

\* On an ordered channel, a publication that was delivered is shown, or a later
\* one is.
THEOREM DeliveryWorks ==
    ASSUME DistinctSessions, ~Reorder PROVE Spec => []DeliveredIsShown
<1>1. IInv => DeliveredIsShown
  <2> SUFFICES ASSUME IInv, NEW p \in Pids, NEW n \in Pubs, Delivered(p, n), Shown(p) < n
               PROVE  FALSE
    BY ShownType DEF DeliveredIsShown, IInv, Pubs
  <2>1. n <= Len(pubs[p]) /\ seen[p][n] = 0 .. NBlocks[Size(p, n)] - 1
    BY DEF Delivered
  <2>2. Size(p, n) \in Sizes
    BY <2>1, FedFacts, 0 \in 0 .. 3 + Redundancy
  <2>3. 0 \in seen[p][n]
    BY <2>1, <2>2
  <2>4. Follows(dec[p][n], p, n)
    BY <2>3 DEF IInv, Progress, InStep
  <2>5. BlocksIn(dec[p][n]) = seen[p][n] /\ BlocksIn(dec[p][n]) \subseteq Indices
    BY <2>1, <2>2, <2>4, BlocksInType DEF Follows, BlocksIn
  <2> QED BY <2>4, <2>5 DEF Follows, IsComplete
<1> QED BY <1>1, Invariance, PTL

\* The subscriber implements the abstract broadcast: every change of what it
\* shows is a move to a later whole publication.
THEOREM Implements == ASSUME DistinctSessions PROVE Spec => ForwardOnly
<1>1. Init => Broadcast!Init
  <2> SUFFICES ASSUME Init, NEW p \in Pids PROVE Len(pubs[p]) = 0 /\ View(p) = 0
    BY DEF Broadcast!Init
  <2> QED BY DEF Init, View, Shown
<1>2. IInv /\ NeverTorn /\ NeverTorn' /\ [Next]_vars => [Broadcast!Next]_(Broadcast!absVars)
  <2> DEFINE published == [p \in Pids |-> Len(pubs[p])]
             view == [p \in Pids |-> View(p)]
  <2> SUFFICES ASSUME IInv, NeverTorn, NeverTorn', [Next]_vars
               PROVE  Broadcast!Next \/ UNCHANGED <<published, view>>
    BY DEF Broadcast!absVars
  <2>1. \A p \in Pids : View(p) = Shown(p) /\ View(p)' = Shown(p)'
    BY DEF NeverTorn, View
  <2>2. ASSUME UNCHANGED <<pubs, table>> PROVE UNCHANGED <<published, view>>
    BY <2>2 DEF View, Shown, IsWhole, BlocksIn
  <2>3. ASSUME NEW p \in Pids, NEW z \in Sizes, Publish(p, z) PROVE Broadcast!Next
    <3>1. view' = view
      BY <2>3 DEF Publish, subVars, View, Shown, IsWhole, BlocksIn
    <3>2. /\ Len(pubs[p]) < MaxPub
          /\ pubs' = [pubs EXCEPT ![p] = Append(pubs[p], [version |-> version[p] + 1, size |-> z])]
      BY <2>3 DEF Publish
    <3>3. \A q \in Pids : Len(pubs'[q]) = IF q = p THEN Len(pubs[q]) + 1 ELSE Len(pubs[q])
      BY <3>2, PubsType DEF IInv, TypeOK
    <3>4. published' = [published EXCEPT ![p] = @ + 1]
      BY <3>3
    <3> QED BY <3>1, <3>2, <3>4 DEF Broadcast!Next, Broadcast!Publish
  <2>4. ASSUME NEW p \in Pids, NEW n \in Pubs, NEW i \in 0 .. 3 + Redundancy, FeedCommit(p, n, i)
        PROVE  Broadcast!Next
    <3>1. published' = published
      BY <2>4, CommitFacts
    <3>2. n <= published[p] /\ view[p] < n /\ n \in Nat /\ view[p] \in Nat
      BY <2>1, <2>4, CommitFacts, ShownType DEF Pubs, IInv
    <3>3. \A q \in Pids : View(q)' = IF q = p THEN n ELSE View(q)
      BY <2>1, <2>4, CommitFacts
    <3>4. view' = [view EXCEPT ![p] = n]
      BY <3>3
    <3>5. published[p] \in Nat
      BY PubsType DEF IInv
    <3>6. n \in view[p] + 1 .. published[p]
      BY <3>2, <3>5
    <3> QED BY <3>1, <3>4, <3>6 DEF Broadcast!Next, Broadcast!Advance
  <2>5. CASE Join
    BY <2>5 DEF Join, pubVars, View, Shown, Broadcast!Next, Broadcast!Join
  <2>6. ASSUME NEW p \in Pids PROVE ~Restart(p)
    BY DEF Restart, DistinctSessions, IInv, TypeOK
  <2>7. ASSUME NEW p \in Pids, NEW n \in Pubs, NEW i \in 0 .. 3 + Redundancy,
               FeedDone(p, n, i) \/ FeedPartial(p, n, i) \/ FeedRejected(p, n, i)
        PROVE  UNCHANGED <<published, view>>
    BY <2>2, <2>7 DEF FeedDone, FeedPartial, FeedRejected, pubVars, subVars
  <2>8. CASE UNCHANGED vars
    BY <2>2, <2>8 DEF vars, pubVars, subVars
  <2> QED BY <2>3, <2>4, <2>5, <2>6, <2>7, <2>8 DEF Next, Feed
<1> QED BY <1>1, <1>2, Invariance, NoTearing, PTL DEF Spec, ForwardOnly, Broadcast!Spec

-----------------------------------------------------------------------------
(* Snapshots *)

USE ClockAssumption

\* A step of statusbus is a step of softstate or a stutter.
LEMMA PresenceSteps ==
    ASSUME PresenceTypeOK, [PresenceNext]_presenceVars PROVE [Next]_vars
<1>1. CASE UNCHANGED presenceVars
  BY <1>1 DEF presenceVars
<1>2. CASE Tick \/ Snapshot
  BY <1>2 DEF Tick, Snapshot, SnapshotBegin, SnapshotEnd, SnapshotRaises, SnapshotItem
<1>3. ASSUME NEW p \in Pids, NEW n \in Pubs, NEW i \in 0 .. 3 + Redundancy,
             ConsumerFeed(p, n, i) \/ ReadClock(p, n, i)
      PROVE  [Next]_vars
  BY <1>3 DEF ConsumerFeed, ReadClock, Next, Feed
<1>4. CASE Producers \/ NewConsumer
  BY <1>4 DEF Producers, NewConsumer, Next
<1>5. CASE Store
  <2>1. commit.pid \in Pids /\ commit.pub \in Pubs /\ commit.idx \in 0 .. 3 + Redundancy
    BY <1>5 DEF Store, PresenceTypeOK
  <2> QED BY <1>5, <2>1 DEF Store, Next, Feed
<1> QED BY <1>1, <1>2, <1>3, <1>4, <1>5 DEF PresenceNext

\* A state shown has a version, and comes whole.
LEMMA TableFacts ==
    ASSUME DistinctSessions, IInv, NEW p \in Pids, table[p] # NoState
    PROVE  table[p] \in States /\ table[p].version \in Nat /\ Consistent(table[p])
<1>1. table[p] \in States /\ table[p].size \in Sizes /\ table[p].version \in Nat
  BY DEF IInv, TypeOK, States, Pubs
<1>2. \A j \in BlocksIn(table[p]) : table[p].got[j] = table[p].version
  BY DEF IInv, TableWhole
<1> QED BY <1>1, <1>2, BlocksInType DEF Consistent, IsWhole

\* The fields of a snapshot begun.
LEMMA SnapFields ==
    ASSUME PresenceTypeOK, snap.pc # "none"
    PROVE  /\ snap \in [pc : {"iterate", "returned", "raised"}, now : Nat, todo : SUBSET Pids,
                        out : {snap.out}, was : [Pids -> States \cup {NoState}],
                        since : [Pids -> Nat]]
           /\ snap.out \in [DOMAIN snap.out -> States] /\ DOMAIN snap.out \subseteq Pids
  BY DEF PresenceTypeOK, NoSnap

\* What was answered of a publisher stays answered while the snapshot is the same.
LEMMA SameAnswers ==
    ASSUME UNCHANGED snap PROVE \A q \in Pids : Answered(q) <=> Answered(q)'
  BY DEF Answered, Consistent, IsWhole, BlocksIn

\* A frame that brings no new state shows and stamps nothing.
LEMMA FeedKeeps ==
    ASSUME PresenceIInv, IInv', NEW p \in Pids, NEW n \in Pubs,
           NEW i \in 0 .. 3 + Redundancy, ConsumerFeed(p, n, i)
    PROVE  PresenceIInv'
<1>1. UNCHANGED <<table, clock, stamp, commit, snap>>
  BY DEF ConsumerFeed, FeedDone, FeedPartial, FeedRejected, subVars
<1> QED BY <1>1, SameAnswers
  DEF PresenceIInv, PresenceTypeOK, StampsOK, Iterating, Kept, SnapshotCurrent, Listed

\* The time read for a state is no earlier than any stamp.
LEMMA ReadKeeps ==
    ASSUME PresenceIInv, IInv', NEW p \in Pids, NEW n \in Pubs,
           NEW i \in 0 .. 3 + Redundancy, ReadClock(p, n, i)
    PROVE  PresenceIInv'
<1> USE DEF PresenceIInv
<1>1. UNCHANGED <<table, clock, stamp, snap>>
  BY DEF ReadClock, vars, subVars
<1>2. commit' = [pid |-> p, pub |-> n, idx |-> i, at |-> clock] /\ clock \in Nat
  BY DEF ReadClock, PresenceTypeOK
<1>3. PresenceTypeOK'
  <2>1. commit' \in [pid : Pids, pub : Pubs, idx : 0 .. 3 + Redundancy, at : Nat]
    BY <1>2
  <2> QED BY <1>1, <2>1 DEF PresenceTypeOK
<1>4. StampsOK'
  BY <1>1, <1>2 DEF StampsOK
<1>5. Iterating' /\ SnapshotCurrent'
  BY <1>1, SameAnswers DEF Iterating, Kept, SnapshotCurrent, Listed
<1> QED BY <1>3, <1>4, <1>5

\* A commit shows a newer state, and stamps it with the time read.
LEMMA StoreShows ==
    ASSUME DistinctSessions, IInv, PresenceTypeOK, Store
    PROVE  /\ commit.pid \in Pids /\ commit.at \in Nat
           /\ stamp' = [stamp EXCEPT ![commit.pid] = commit.at]
           /\ \A q \in Pids :
                 \/ q # commit.pid /\ table'[q] = table[q]
                 \/ /\ q = commit.pid /\ table'[q] # NoState
                    /\ table[q] # NoState => table'[q].version > table[q].version
<1> DEFINE p == commit.pid
           n == commit.pub
           i == commit.idx
<1>1. p \in Pids /\ n \in Pubs /\ i \in 0 .. 3 + Redundancy /\ commit.at \in Nat
  BY DEF Store, PresenceTypeOK
<1>2. FeedCommit(p, n, i) /\ stamp' = [stamp EXCEPT ![p] = commit.at]
  BY DEF Store
<1>3. /\ table'[p] # NoState /\ table'[p].version = n /\ Shown(p) < n
      /\ \A q \in Pids : q # p => table'[q] = table[q]
  BY <1>1, <1>2, CommitFacts
<1>4. table[p] # NoState => table[p].version = Shown(p)
  BY <1>1, VersionIsShown DEF VersionShown
<1>5. Shown(p) \in Nat /\ n \in Nat
  BY <1>1, ShownType DEF IInv, Pubs
<1> QED BY <1>1, <1>2, <1>3, <1>4, <1>5

LEMMA StoreKeeps ==
    ASSUME DistinctSessions, PresenceIInv, IInv', Store
    PROVE  PresenceIInv'
<1> USE DEF PresenceIInv
<1>1. clock' = clock /\ snap' = snap /\ commit' = NoCommit
  BY DEF Store
<1>2. /\ stamp \in [Pids -> Nat] /\ clock \in Nat /\ stamp' \in [Pids -> Nat]
      /\ \A q \in Pids : stamp[q] <= stamp'[q] /\ stamp'[q] <= clock
      /\ \A q \in Pids : q # commit.pid => stamp'[q] = stamp[q]
  <2>1. stamp \in [Pids -> Nat] /\ clock \in Nat
    BY DEF PresenceTypeOK
  <2>2. stamp[commit.pid] <= commit.at /\ commit.at <= clock
    BY DEF Store, StampsOK
  <2> QED BY <2>1, <2>2, StoreShows DEF StampsOK
<1>3. PresenceTypeOK'
  BY <1>1, <1>2 DEF PresenceTypeOK
<1>4. StampsOK'
  BY <1>1, <1>2 DEF StampsOK
<1>5. Iterating'
  <2> SUFFICES ASSUME snap.pc = "iterate"
               PROVE  \A q \in Pids : snap.was[q] # NoState => Kept(q)'
    BY <1>1 DEF Iterating, Answered
  <2> SUFFICES ASSUME NEW q \in Pids, snap.was[q] # NoState PROVE Kept(q)'
    OBVIOUS
  <2>1. /\ snap.was[q] \in States /\ snap.was[q].version \in Nat
        /\ snap.since[q] \in Nat
    BY SnapFields DEF States, Pubs
  <2>2. Kept(q) /\ table[q] # NoState
    BY DEF Iterating, Kept
  <2>3. table[q].version \in Nat /\ stamp[q] >= snap.since[q]
    BY <1>2, <2>1, <2>2, TableFacts DEF Kept
  <2>4. table'[q] # NoState => table'[q].version \in Nat
    <3>1. table' \in [Pids -> States \cup {NoState}]
      BY DEF IInv, TypeOK
    <3> QED BY <3>1 DEF States, Pubs
  <2>5. CASE q # commit.pid
    BY <1>1, <1>2, <2>2, <2>5, StoreShows DEF Kept
  <2>6. CASE q = commit.pid
    <3>1. /\ table'[q] # NoState /\ table'[q].version > table[q].version
          /\ stamp'[q] >= snap.since[q]
      BY <1>2, <2>1, <2>2, <2>3, <2>6, StoreShows
    <3>2. table[q].version >= snap.was[q].version
      BY <2>1, <2>2, <2>3 DEF Kept
    <3>3. table'[q].version > snap.was[q].version
      BY <2>1, <2>3, <2>4, <3>1, <3>2
    <3> QED BY <1>1, <3>1, <3>3 DEF Kept
  <2> QED BY <2>5, <2>6
<1>6. SnapshotCurrent'
  <2>1. \A q \in Pids : table[q] # NoState => table'[q] # NoState
    BY StoreShows
  <2> QED BY <1>1, <2>1 DEF SnapshotCurrent, Answered, Listed
<1> QED BY <1>3, <1>4, <1>5, <1>6

\* One entry of the table: what the snapshot answers of it.
LEMMA ItemKeeps ==
    ASSUME DistinctSessions, PresenceIInv, IInv', NEW p \in Pids, SnapshotItem(p)
    PROVE  PresenceIInv'
<1> USE DEF PresenceIInv
<1>1. /\ snap.pc = "iterate" /\ p \in snap.todo
      /\ UNCHANGED <<table, clock, stamp, commit>>
  BY DEF SnapshotItem, vars, subVars
<1>2. PICK o : o = IF Live(p)
                   THEN [q \in DOMAIN snap.out \cup {p} |-> IF q = p THEN table[p] ELSE snap.out[q]]
                   ELSE snap.out
  OBVIOUS
<1>3. snap' = [snap EXCEPT !.todo = snap.todo \ {p}, !.out = o]
  BY <1>2 DEF SnapshotItem
<1>4. /\ snap'.pc = "iterate" /\ snap'.now = snap.now /\ snap'.todo = snap.todo \ {p}
      /\ snap'.out = o /\ snap'.was = snap.was /\ snap'.since = snap.since
      /\ snap' \in [pc : {"iterate", "returned", "raised"}, now : Nat, todo : SUBSET Pids,
                    out : {o}, was : [Pids -> States \cup {NoState}], since : [Pids -> Nat]]
  BY <1>1, <1>3, SnapFields
<1>5. snap.was[p] # NoState /\ Kept(p) /\ table[p] # NoState
  BY <1>1 DEF Iterating, Kept
<1>6. table[p] \in States /\ table[p].version \in Nat /\ Consistent(table[p])
  BY <1>5, TableFacts
<1>7. /\ o \in [DOMAIN o -> States] /\ DOMAIN o \subseteq Pids
      /\ DOMAIN o \subseteq DOMAIN snap.out \cup {p}
      /\ \A q \in Pids \ {p} : /\ q \in DOMAIN o <=> q \in DOMAIN snap.out
                               /\ q \in DOMAIN o => o[q] = snap.out[q]
      /\ Live(p) => p \in DOMAIN o /\ o[p] = table[p]
  BY <1>1, <1>2, <1>6, SnapFields
<1>8. PresenceTypeOK'
  BY <1>1, <1>4, <1>7 DEF PresenceTypeOK
<1>9. p \notin DOMAIN snap.out
  BY <1>1 DEF Iterating
<1>10. snap.was[p] \in States /\ snap.was[p].version \in Nat
  BY <1>1, <1>5, SnapFields DEF States, Pubs
<1>11. /\ snap.now \in Nat /\ stamp[p] \in Nat /\ snap.since[p] \in Nat
       /\ snap.now <= clock
  BY <1>1, SnapFields DEF PresenceTypeOK, Iterating
<1>12. Answered(p)'
  <2>1. CASE Live(p)
    <3>1. p \in DOMAIN o /\ o[p] = table[p]
      BY <1>7, <2>1
    <3>2. CASE table[p] = snap.was[p] /\ stamp[p] = snap.since[p]
      BY <1>4, <1>5, <1>6, <2>1, <3>1, <3>2 DEF Answered, Live, Consistent, IsWhole, BlocksIn
    <3>3. CASE table[p].version > snap.was[p].version
      <4>1. ~ (table[p].version <= snap.was[p].version) /\ o[p].version > snap.was[p].version
        BY <1>6, <1>10, <3>1, <3>3
      <4> QED BY <1>4, <1>5, <1>6, <3>1, <4>1 DEF Answered, Consistent, IsWhole, BlocksIn
    <3> QED BY <1>5, <3>2, <3>3 DEF Kept
  <2>2. CASE ~ Live(p)
    <3>1. p \notin DOMAIN o
      BY <1>2, <1>9, <2>2
    <3>2. snap.since[p] <= stamp[p]
      BY <1>5, <1>11 DEF Kept
    <3>3. ~ (snap.now <= snap.since[p] + Ttl)
      BY <1>11, <2>2, <3>2, ClockAssumption DEF Live
    <3> QED BY <1>4, <3>1, <3>3 DEF Answered
  <2> QED BY <2>1, <2>2
<1>13. ASSUME NEW q \in Pids \ {p}, Answered(q) PROVE Answered(q)'
  <2>1. /\ q \in DOMAIN snap'.out <=> q \in DOMAIN snap.out
        /\ q \in DOMAIN snap.out => snap'.out[q] = snap.out[q]
    <3>1. /\ q \in DOMAIN o <=> q \in DOMAIN snap.out
          /\ q \in DOMAIN o => o[q] = snap.out[q]
      BY <1>7
    <3>2. snap'.out = o
      BY <1>4
    <3> QED BY <3>1, <3>2
  <2>2. CASE q \in DOMAIN snap.out
    BY <1>4, <1>13, <2>1, <2>2 DEF Answered, Consistent, IsWhole, BlocksIn
  <2>3. CASE q \notin DOMAIN snap.out
    BY <1>4, <1>13, <2>1, <2>3 DEF Answered
  <2> QED BY <2>2, <2>3
<1>14. Iterating'
  <2>1. snap'.now <= clock'
    BY <1>1, <1>4, <1>11
  <2>2. \A q \in Pids : snap'.was[q] # NoState => Kept(q)'
    BY <1>1, <1>4 DEF Iterating, Kept
  <2>3. /\ snap'.todo \cap DOMAIN snap'.out = {}
        /\ \A q \in snap'.todo \cup DOMAIN snap'.out : snap'.was[q] # NoState
    BY <1>1, <1>4, <1>7 DEF Iterating
  <2>4. \A q \in Pids \ snap'.todo : Answered(q)'
    BY <1>1, <1>4, <1>12, <1>13 DEF Iterating
  <2> QED BY <2>1, <2>2, <2>3, <2>4 DEF Iterating
<1> QED BY <1>1, <1>4, <1>8, <1>14 DEF SnapshotCurrent, StampsOK

\* A snapshot begins with nothing answered, of what is shown.
LEMMA BeginKeeps ==
    ASSUME DistinctSessions, PresenceIInv, IInv', SnapshotBegin PROVE PresenceIInv'
<1> USE DEF PresenceIInv
<1>1. UNCHANGED <<table, clock, stamp, commit>>
  BY DEF SnapshotBegin, vars, subVars
<1>2. PICK e : e = <<>>
  OBVIOUS
<1>3. /\ snap' = [pc |-> "iterate", now |-> clock, todo |-> Listed, out |-> e,
                  was |-> table, since |-> stamp]
      /\ DOMAIN e = {} /\ e \in [DOMAIN e -> States]
  BY <1>2 DEF SnapshotBegin
<1>4. /\ table \in [Pids -> States \cup {NoState}] /\ stamp \in [Pids -> Nat]
      /\ clock \in Nat /\ Listed \in SUBSET Pids
  BY DEF IInv, TypeOK, PresenceTypeOK, Listed
<1>5. PresenceTypeOK'
  BY <1>1, <1>3, <1>4 DEF PresenceTypeOK
<1>6. Iterating'
  <2>1. snap'.now <= clock'
    BY <1>1, <1>3, <1>4
  <2>2. \A q \in Pids : snap'.was[q] # NoState => Kept(q)'
    BY <1>1, <1>3 DEF Kept
  <2>3. \A q \in Pids \ snap'.todo : Answered(q)'
    BY <1>3 DEF Answered, Listed
  <2> QED BY <1>3, <2>1, <2>2, <2>3 DEF Iterating, Listed
<1> QED BY <1>1, <1>3, <1>5, <1>6 DEF SnapshotCurrent, StampsOK

\* A snapshot returns when every entry is answered; it raises when a publisher is
\* shown that was not when it began.
LEMMA EndKeeps ==
    ASSUME DistinctSessions, PresenceIInv, IInv', SnapshotEnd \/ SnapshotRaises
    PROVE  PresenceIInv'
<1> USE DEF PresenceIInv
<1>1. UNCHANGED <<table, clock, stamp, commit>> /\ snap.pc = "iterate"
  BY DEF SnapshotEnd, SnapshotRaises, vars, subVars
<1>2. PICK c \in {"returned", "raised"} :
          /\ snap' = [snap EXCEPT !.pc = c]
          /\ c = "returned" => snap.todo = {}
          /\ c = "raised" => Grown
  BY DEF SnapshotEnd, SnapshotRaises
<1>3. PICK o : o = snap.out
  OBVIOUS
<1>4. /\ snap'.pc = c /\ snap'.now = snap.now /\ snap'.todo = snap.todo
      /\ snap'.out = o /\ snap'.was = snap.was /\ snap'.since = snap.since
      /\ snap' \in [pc : {"iterate", "returned", "raised"}, now : Nat, todo : SUBSET Pids,
                    out : {o}, was : [Pids -> States \cup {NoState}], since : [Pids -> Nat]]
  BY <1>1, <1>2, <1>3, SnapFields
<1>5. PresenceTypeOK'
  <2>1. o \in [DOMAIN o -> States] /\ DOMAIN o \subseteq Pids
    BY <1>1, <1>3, SnapFields
  <2> QED BY <1>1, <1>4, <2>1 DEF PresenceTypeOK
<1>6. SnapshotCurrent'
  <2>1. ASSUME c = "returned", NEW q \in Pids PROVE Answered(q)'
    <3>1. Answered(q)
      BY <1>1, <1>2, <2>1 DEF Iterating
    <3> QED BY <1>3, <1>4, <3>1 DEF Answered, Consistent, IsWhole, BlocksIn
  <2>2. ASSUME c = "raised" PROVE \E q \in Listed : snap.was[q] = NoState
    <3>1. Listed # {q \in Pids : snap.was[q] # NoState}
      BY <1>2, <2>2 DEF Grown
    <3>2. \A q \in Pids : snap.was[q] # NoState => q \in Listed
      BY <1>1 DEF Iterating, Kept, Listed
    <3> QED BY <3>1, <3>2 DEF Listed
  <2> QED BY <1>1, <1>4, <2>1, <2>2 DEF SnapshotCurrent, Listed
<1> QED BY <1>1, <1>4, <1>5, <1>6 DEF Iterating, StampsOK

\* Every other step leaves the table as it is, or no snapshot.
LEMMA OthersKeep ==
    ASSUME PresenceIInv, IInv', Producers \/ NewConsumer \/ Tick \/ UNCHANGED presenceVars
    PROVE  PresenceIInv'
<1> USE DEF PresenceIInv
<1>1. CASE NewConsumer
  <2>1. /\ snap' = NoSnap /\ clock' = clock /\ stamp' = [q \in Pids |-> 0]
        /\ snap'.pc = "none" /\ commit' = NoCommit
    BY <1>1 DEF NewConsumer, NoSnap
  <2>2. PresenceTypeOK'
    BY <2>1 DEF PresenceTypeOK
  <2>3. StampsOK'
    BY <2>1 DEF StampsOK, PresenceTypeOK
  <2> QED BY <2>1, <2>2, <2>3 DEF Iterating, SnapshotCurrent
<1>2. CASE Producers \/ Tick \/ UNCHANGED presenceVars
  <2>1. /\ UNCHANGED <<table, stamp, commit, snap>>
        /\ clock \in 0 .. MaxClock /\ clock' \in 0 .. MaxClock /\ clock <= clock'
    <3>1. CASE Tick
      BY <3>1, ClockAssumption DEF Tick, vars, subVars, PresenceTypeOK
    <3>2. CASE Producers \/ UNCHANGED presenceVars
      <4>1. UNCHANGED <<table, stamp, commit, snap, clock>>
        BY <3>2 DEF Producers, Publish, Restart, presenceVars, vars, subVars
      <4>2. clock \in 0 .. MaxClock /\ clock <= clock
        BY ClockAssumption DEF PresenceTypeOK
      <4> QED BY <4>1, <4>2
    <3> QED BY <1>2, <3>1, <3>2
  <2>2. PresenceTypeOK'
    BY <2>1 DEF PresenceTypeOK
  <2>3. Iterating'
    <3> SUFFICES ASSUME snap.pc = "iterate" PROVE Iterating'
      BY <2>1 DEF Iterating
    <3>1. snap.now \in Nat /\ snap.now <= clock'
      BY <2>1, SnapFields DEF Iterating
    <3> QED BY <2>1, <3>1, SameAnswers DEF Iterating, Kept
  <2>4. SnapshotCurrent'
    BY <2>1, SameAnswers DEF SnapshotCurrent, Listed
  <2>5. StampsOK'
    <3>1. \A q \in Pids : stamp[q] \in Nat
      BY DEF PresenceTypeOK
    <3>2. commit # NoCommit => commit.at \in Nat
      BY DEF PresenceTypeOK
    <3> QED BY <2>1, <3>1, <3>2 DEF StampsOK
  <2> QED BY <2>2, <2>3, <2>4, <2>5
<1> QED BY <1>1, <1>2

\* Every step keeps the invariant.
LEMMA PresenceNextIInv ==
    ASSUME DistinctSessions, PresenceIInv, [PresenceNext]_presenceVars PROVE PresenceIInv'
<1> USE DEF PresenceIInv
<1>1. IInv'
  BY PresenceSteps, NextIInv
<1>2. ASSUME NEW p \in Pids, NEW n \in Pubs, NEW i \in 0 .. 3 + Redundancy,
             ConsumerFeed(p, n, i) \/ ReadClock(p, n, i)
      PROVE  PresenceIInv'
  BY <1>1, <1>2, FeedKeeps, ReadKeeps
<1>3. ASSUME NEW p \in Pids, SnapshotItem(p) PROVE PresenceIInv'
  BY <1>1, <1>3, ItemKeeps
<1>4. CASE SnapshotBegin
  BY <1>1, <1>4, BeginKeeps
<1>5. CASE SnapshotEnd \/ SnapshotRaises
  BY <1>1, <1>5, EndKeeps
<1>6. CASE Producers \/ NewConsumer \/ Tick \/ UNCHANGED presenceVars
  BY <1>1, <1>6, OthersKeep
<1>7. CASE Store
  BY <1>1, <1>7, StoreKeeps
<1> QED BY <1>2, <1>3, <1>4, <1>5, <1>6, <1>7 DEF PresenceNext, Snapshot

\* Whatever the channel loses, repeats or reorders, and however the receive thread
\* interleaves with the one that iterates, what Subscriber.snapshot rests on holds,
\* as long as no session id comes round again.
THEOREM PresenceInvariance == ASSUME DistinctSessions PROVE PresenceSpec => []PresenceIInv
<1>1. PresenceInit => PresenceIInv
  <2> SUFFICES ASSUME PresenceInit PROVE PresenceIInv
    OBVIOUS
  <2>1. IInv
    BY InitIInv DEF PresenceInit
  <2>2. PresenceTypeOK /\ snap.pc = "none"
    BY DEF PresenceInit, PresenceTypeOK, NoSnap
  <2>3. StampsOK
    BY DEF PresenceInit, StampsOK
  <2> QED BY <2>1, <2>2, <2>3 DEF PresenceIInv, Iterating, SnapshotCurrent
<1>2. PresenceIInv /\ [PresenceNext]_presenceVars => PresenceIInv'
  BY PresenceNextIInv
<1> QED BY <1>1, <1>2, PTL DEF PresenceSpec

\* A snapshot that returns lists whoever was live when it began, nobody who neither
\* was nor has published since, and no torn record; it raises only when a publisher
\* appears under the iteration.
THEOREM SnapshotsAreCurrent ==
    ASSUME DistinctSessions PROVE PresenceSpec => []SnapshotCurrent
<1>1. PresenceIInv => SnapshotCurrent
  BY DEF PresenceIInv
<1> QED BY <1>1, PresenceInvariance, PTL

-----------------------------------------------------------------------------
(* With restarts, and with session ids that come round again: what the table   *)
(* and the decoders hold is of one session and one length.                     *)

\* A new publication leaves the earlier ones as they are.
LEMMA PublishKeeps ==
    ASSUME SourceIInv, NEW p \in Pids, NEW z \in Sizes, Publish(p, z)
    PROVE  /\ TypeOK' /\ \A q \in Pids : version'[q] <= Len(pubs'[q])
           /\ \A q \in Pids : /\ Len(pubs[q]) <= Len(pubs'[q])
                              /\ \A n \in 1 .. Len(pubs[q]) : pubs'[q][n] = pubs[q][n]
<1> DEFINE r == [version |-> version[p] + 1, size |-> z]
<1> USE DEF SourceIInv
<1>1. /\ version \in [Pids -> 0 .. MaxPub] /\ version[p] <= Len(pubs[p])
      /\ pubs[p] \in Seq(Records) /\ Len(pubs[p]) \in Nat
  BY PubsType DEF TypeOK
<1>2. Len(pubs[p]) < MaxPub /\ pubs' = [pubs EXCEPT ![p] = Append(pubs[p], r)]
  BY DEF Publish
<1>3. version[p] + 1 \in 1 .. MaxPub /\ r \in Records
  BY <1>1, <1>2 DEF Records, Pubs
<1>4. PICK s : /\ s = Append(pubs[p], r) /\ s \in Seq(Records)
               /\ Len(s) = Len(pubs[p]) + 1
               /\ \A n \in 1 .. Len(pubs[p]) : s[n] = pubs[p][n]
  <2>1. /\ Append(pubs[p], r) \in Seq(Records)
        /\ Len(Append(pubs[p], r)) = Len(pubs[p]) + 1
        /\ \A n \in 1 .. Len(pubs[p]) : Append(pubs[p], r)[n] = pubs[p][n]
    BY <1>1, <1>3
  <2> QED BY <2>1
<1>5. /\ pubs' = [pubs EXCEPT ![p] = s]
      /\ \A q \in Pids : pubs'[q] = IF q = p THEN s ELSE pubs[q]
  BY <1>2, <1>4 DEF TypeOK
<1>6. \A q \in Pids : version'[q] = IF q = p THEN version[p] + 1 ELSE version[q]
  BY <1>1 DEF Publish
<1>7. ASSUME NEW q \in Pids PROVE version'[q] <= Len(pubs'[q])
  <2>1. CASE q = p
    <3>1. version[p] \in Nat
      BY <1>1
    <3>2. version'[p] = version[p] + 1 /\ Len(pubs'[p]) = Len(pubs[p]) + 1
      BY <1>4, <1>5, <1>6
    <3> QED BY <1>1, <2>1, <3>1, <3>2
  <2>2. CASE q # p
    BY <1>5, <1>6, <2>2
  <2> QED BY <2>1, <2>2
<1>8. TypeOK'
  <2>1. version' \in [Pids -> 0 .. MaxPub]
    BY <1>1, <1>3 DEF Publish
  <2>2. pubs' \in [Pids -> Seq(Records)]
    BY <1>4, <1>5, Zenon DEF TypeOK, Records
  <2>3. \A q \in Pids : Len(pubs'[q]) <= MaxPub
    BY <1>1, <1>2, <1>4, <1>5 DEF TypeOK
  <2> QED BY <2>1, <2>2, <2>3 DEF Publish, TypeOK, Records, subVars
<1>9. ASSUME NEW q \in Pids
      PROVE  /\ Len(pubs[q]) <= Len(pubs'[q])
             /\ \A n \in 1 .. Len(pubs[q]) : pubs'[q][n] = pubs[q][n]
  <2>1. Len(pubs[q]) \in Nat
    BY PubsType
  <2>2. CASE q = p
    <3> QED BY <1>1, <1>4, <1>5, <2>1, <2>2
  <2>3. CASE q # p
    BY <1>5, <2>1, <2>3
  <2> QED BY <2>1, <2>2, <2>3
<1> QED BY <1>7, <1>8, <1>9

\* Later publications do not change where blocks come from.
LEMMA StillSourced ==
    ASSUME NEW p \in Pids, NEW x, NEW e, e.got \in [Indices -> Pubs \cup {0}],
           Sourced(p, x, e), Len(pubs[p]) \in Nat, Len(pubs'[p]) \in Nat,
           Len(pubs[p]) <= Len(pubs'[p]),
           \A n \in 1 .. Len(pubs[p]) : pubs'[p][n] = pubs[p][n]
    PROVE  Sourced(p, x, e)'
<1> SUFFICES ASSUME NEW j \in Indices, e.got[j] # 0
             PROVE  /\ e.got[j] <= Len(pubs'[p])
                    /\ Session(p, e.got[j])' = x /\ Size(p, e.got[j])' = e.size
  BY DEF Sourced
<1>1. /\ e.got[j] \in Nat \ {0} /\ e.got[j] <= Len(pubs[p])
      /\ Session(p, e.got[j]) = x /\ Size(p, e.got[j]) = e.size
  BY DEF Sourced, Pubs
<1>2. pubs'[p][e.got[j]] = pubs[p][e.got[j]]
  BY <1>1
<1> QED BY <1>1, <1>2 DEF Session, Size

\* A frame's block goes to a decoder of its session and its length.
LEMMA SourceFed ==
    ASSUME SourceIInv, NEW p \in Pids, NEW n \in Pubs, n <= Len(pubs[p]),
           NEW i \in 0 .. 3 + Redundancy
    PROVE  /\ Session(p, n) \in Sessions /\ BlockOf(p, n, i) \in Indices
           /\ Fed(p, n, i) \in Entries /\ Sourced(p, Session(p, n), Fed(p, n, i))
<1> DEFINE e == Entry(p, n)
           b == BlockOf(p, n, i)
           x == Session(p, n)
<1>1. n \in 1 .. Len(pubs[p]) /\ pubs[p][n] \in Records
  BY PubsType DEF SourceIInv, Pubs
<1>2. x \in Sessions /\ Size(p, n) \in Sizes
  BY <1>1 DEF Session, Size, Sessions, Records, Pubs
<1>3. b \in Indices
  BY <1>2, BlockOfType DEF BlockOf
<1>4. e \in Entries /\ e.size = Size(p, n) /\ Sourced(p, x, e)
  <2>1. CASE dec[p][x] # NoEntry /\ dec[p][x].size = Size(p, n)
    BY <1>2, <2>1 DEF Entry, SourceIInv, DecodersSourced, TypeOK
  <2>2. CASE ~(dec[p][x] # NoEntry /\ dec[p][x].size = Size(p, n))
    <3>1. e = NewEntry(Size(p, n))
      BY <2>2 DEF Entry
    <3> QED BY <1>2, <3>1 DEF NewEntry, Entries, Sourced
  <2> QED BY <2>1, <2>2
<1>5. CASE e.got[b] = 0
  <2>1. Fed(p, n, i) = [e EXCEPT !.got[b] = n]
    BY <1>5 DEF Fed, Ingested
  <2>2. [e.got EXCEPT ![b] = n] \in [Indices -> Pubs \cup {0}]
    BY <1>3, <1>4 DEF Entries
  <2>3. /\ Fed(p, n, i) \in Entries /\ Fed(p, n, i).size = Size(p, n)
        /\ \A j \in Indices : Fed(p, n, i).got[j] = IF j = b THEN n ELSE e.got[j]
    BY <1>3, <1>4, <2>1, <2>2 DEF Entries
  <2> QED BY <1>2, <1>3, <1>4, <2>3 DEF Sourced
<1>6. CASE e.got[b] # 0
  BY <1>2, <1>3, <1>4, <1>6 DEF Fed, Ingested
<1> QED BY <1>2, <1>3, <1>5, <1>6

\* The types of what a frame changes, and of the channel that delivered it.
LEMMA SourceDeliver ==
    ASSUME SourceIInv, NEW p \in Pids, NEW n \in Pubs, NEW i \in 0 .. 3 + Redundancy,
           Deliver(p, n, i), UNCHANGED pubVars,
           dec' \in [Pids -> [Sessions -> Entries \cup {NoEntry}]],
           table' \in [Pids -> States \cup {NoState}]
    PROVE  TypeOK'
<1>1. BlockOf(p, n, i) \in Indices
  BY SourceFed DEF Deliver, Deliverable
<1>2. seen' \in [Pids -> [Pubs -> SUBSET Indices]]
  BY <1>1 DEF Deliver, Deliverable, SourceIInv, TypeOK
<1>3. [pub |-> n, idx |-> i] \in [pub : Pubs \cup {0}, idx : 0 .. 3 + Redundancy]
  OBVIOUS
<1>4. cursor' \in [Pids -> [pub : Pubs \cup {0}, idx : 0 .. 3 + Redundancy]]
  BY <1>3, Zenon DEF Deliver, Deliverable, SourceIInv, TypeOK
<1> QED BY <1>2, <1>4 DEF SourceIInv, TypeOK, pubVars

\* A decoder of the frame's session takes the place of the old one, alone or not.
LEMMA SourceStored ==
    ASSUME SourceIInv, NEW p \in Pids, NEW n \in Pubs, Session(p, n) \in Sessions,
           NEW e \in Entries, Sourced(p, Session(p, n), e), pubs' = pubs,
           dec' = Stored(p, n, e) \/ dec' = Reaped(p, n, e)
    PROVE  /\ dec' \in [Pids -> [Sessions -> Entries \cup {NoEntry}]]
           /\ \A q \in Pids : DecodersSourced(q)'
<1>1. dec \in [Pids -> [Sessions -> Entries \cup {NoEntry}]]
  BY DEF SourceIInv, TypeOK
<1>2. \A q \in Pids, x \in Sessions :
         dec'[q][x] \in (IF q = p /\ x = Session(p, n) THEN {e} ELSE {dec[q][x], NoEntry})
  BY <1>1 DEF Stored, Reaped
<1>3. dec' \in [Pids -> [Sessions -> Entries \cup {NoEntry}]]
  BY <1>1 DEF Stored, Reaped
<1>4. ASSUME NEW q \in Pids, NEW x \in Sessions, dec'[q][x] # NoEntry
      PROVE  Sourced(q, x, dec[q][x])'
  <2>1. Sourced(q, x, dec'[q][x])
    BY <1>2, <1>4 DEF SourceIInv, DecodersSourced
  <2> QED BY <2>1 DEF Sourced, Session, Size
<1> QED BY <1>3, <1>4 DEF DecodersSourced

\* What is not changed is still of one session id and one length.
LEMMA SameTable ==
    ASSUME NEW p \in Pids, TableSourced(p), pubs' = pubs, table'[p] = table[p]
    PROVE  TableSourced(p)'
BY DEF TableSourced, IsComplete, BlocksIn, Sourced, Session, Size

LEMMA SameDecoders ==
    ASSUME NEW p \in Pids, DecodersSourced(p), pubs' = pubs, dec' = dec
    PROVE  DecodersSourced(p)'
BY DEF DecodersSourced, Sourced, Session, Size

\* A frame takes effect.
LEMMA SourceFeed ==
    ASSUME SourceIInv, NEW p \in Pids, NEW n \in Pubs, NEW i \in 0 .. 3 + Redundancy,
           Feed(p, n, i)
    PROVE  SourceIInv'
<1> DEFINE e == Fed(p, n, i)
           x == Session(p, n)
<1>1. n <= Len(pubs[p]) /\ Deliver(p, n, i) /\ UNCHANGED pubVars
  BY DEF Feed, FeedDone, FeedPartial, FeedRejected, FeedCommit, Commits, Deliver, Deliverable
<1>2. x \in Sessions /\ e \in Entries /\ Sourced(p, x, e)
  BY <1>1, SourceFed
<1>3. Finished(e) \in Entries /\ Sourced(p, x, Finished(e))
  BY <1>2 DEF Finished, Entries, Sourced
<1>4. SUFFICES /\ dec' \in [Pids -> [Sessions -> Entries \cup {NoEntry}]]
               /\ table' \in [Pids -> States \cup {NoState}]
               /\ \A q \in Pids : DecodersSourced(q)' /\ TableSourced(q)'
  <2>1. TypeOK' /\ \A q \in Pids : version'[q] <= Len(pubs'[q])
    BY <1>1, <1>4, SourceDeliver DEF SourceIInv, pubVars
  <2> QED BY <1>4, <2>1 DEF SourceIInv
<1>5. table \in [Pids -> States \cup {NoState}] /\ pubs' = pubs
  BY <1>1 DEF SourceIInv, TypeOK, pubVars
<1>6. CASE FeedDone(p, n, i)
  <2>1. dec' = dec /\ table' = table
    BY <1>6 DEF FeedDone, subVars
  <2>2. \A q \in Pids : DecodersSourced(q)'
    BY <1>5, <2>1, SameDecoders DEF SourceIInv
  <2> QED BY <1>5, <2>1, <2>2, SameTable DEF SourceIInv, TypeOK
<1>7. CASE FeedPartial(p, n, i) \/ FeedRejected(p, n, i)
  <2>1. table' = table /\ (dec' = Stored(p, n, e) \/ dec' = Stored(p, n, Finished(e)))
    BY <1>7 DEF FeedPartial, FeedRejected
  <2> QED BY <1>2, <1>3, <1>5, <2>1, SameTable, SourceStored DEF SourceIInv
<1>8. CASE FeedCommit(p, n, i)
  <2> DEFINE t == [kind |-> "state", size |-> e.size, got |-> e.got,
                   version |-> VersionIn(p, e)]
  <2>1. /\ IsComplete(e) /\ dec' = Reaped(p, n, Finished(e))
        /\ table' = [table EXCEPT ![p] = t]
    BY <1>8 DEF FeedCommit, Commits
  <2>2. e.got[0] \in 1 .. Len(pubs[p]) /\ e.got \in [Indices -> Pubs \cup {0}]
    <3>1. e.size \in Sizes /\ e.got \in [Indices -> Pubs \cup {0}]
      BY <1>2 DEF Entries
    <3>2. e.got[0] # 0 /\ 0 \in Indices
      BY <2>1, <3>1, BlocksInType DEF IsComplete
    <3> QED BY <1>2, <3>1, <3>2, PubsType DEF Sourced, SourceIInv, Pubs
  <2>3. VersionIn(p, e) \in Pubs
    BY <2>2, PubsType DEF VersionIn, SourceIInv, Records
  <2>4. t \in States /\ t.size = e.size /\ t.got = e.got
    BY <1>2, <2>3 DEF States, Entries
  <2>5. /\ table' \in [Pids -> States \cup {NoState}]
        /\ \A q \in Pids : table'[q] = IF q = p THEN t ELSE table[q]
    BY <1>5, <2>1, <2>4
  <2>6. TableSourced(p)'
    <3>1. IsComplete(t) /\ Sourced(p, x, t)
      BY <1>2, <2>1, <2>4 DEF IsComplete, BlocksIn, Sourced
    <3> HIDE DEF t, x
    <3> QED
      BY <1>2, <1>5, <2>5, <3>1
      DEF TableSourced, IsComplete, BlocksIn, Sourced, Session, Size
  <2>7. \A q \in Pids : TableSourced(q)'
    BY <1>5, <2>5, <2>6, SameTable DEF SourceIInv
  <2> QED BY <1>2, <1>3, <1>5, <2>1, <2>5, <2>7, SourceStored
<1> QED BY <1>6, <1>7, <1>8 DEF Feed

\* Every step preserves it.
LEMMA SourceNext == ASSUME SourceIInv, [Next]_vars PROVE SourceIInv'
<1>1. ASSUME NEW p \in Pids, NEW z \in Sizes, Publish(p, z) PROVE SourceIInv'
  <2>1. TypeOK' /\ \A q \in Pids : version'[q] <= Len(pubs'[q])
    BY <1>1, PublishKeeps
  <2>2. dec' = dec /\ table' = table
    BY <1>1 DEF Publish, subVars
  <2>3. ASSUME NEW q \in Pids, NEW x, NEW e \in Entries \cup States, Sourced(q, x, e)
        PROVE  Sourced(q, x, e)'
    <3>1. e.got \in [Indices -> Pubs \cup {0}]
      BY DEF Entries, States
    <3>2. Len(pubs[q]) \in Nat /\ Len(pubs'[q]) \in Nat
      <4>1. pubs[q] \in Seq(Records) /\ pubs'[q] \in Seq(Records)
        BY <2>1, Zenon DEF SourceIInv, TypeOK, Records
      <4> QED BY <4>1
    <3> QED BY <1>1, <2>3, <3>1, <3>2, PublishKeeps, StillSourced
  <2>4. ASSUME NEW q \in Pids PROVE DecodersSourced(q)'
    <3>1. ASSUME NEW x \in Sessions, dec[q][x] # NoEntry PROVE Sourced(q, x, dec[q][x])'
      <4>1. dec[q][x] \in Entries /\ Sourced(q, x, dec[q][x])
        BY <3>1 DEF SourceIInv, DecodersSourced, TypeOK
      <4> QED BY <2>2, <2>3, <4>1
    <3> QED BY <2>2, <3>1 DEF DecodersSourced
  <2>5. ASSUME NEW q \in Pids PROVE TableSourced(q)'
    <3>1. CASE table[q] = NoState
      BY <2>2, <3>1 DEF TableSourced
    <3>2. CASE table[q] # NoState
      <4>1. table[q] \in States /\ IsComplete(table[q])
        BY <3>2 DEF SourceIInv, TableSourced, TypeOK
      <4>2. PICK x \in Sessions : Sourced(q, x, table[q])
        BY <3>2 DEF SourceIInv, TableSourced
      <4>3. Sourced(q, x, table[q])'
        BY <2>2, <2>3, <4>1, <4>2
      <4> QED BY <2>2, <4>1, <4>3 DEF TableSourced, IsComplete, BlocksIn
    <3> QED BY <3>1, <3>2
  <2> QED BY <2>1, <2>4, <2>5 DEF SourceIInv
<1>2. ASSUME NEW p \in Pids, Restart(p) PROVE SourceIInv'
  <2>1. pubs' = pubs /\ dec' = dec /\ table' = table /\ cursor' = cursor /\ seen' = seen
    BY <1>2 DEF Restart, subVars
  <2>2. restarts' \in 0 .. MaxRestarts /\ version' \in [Pids -> 0 .. MaxPub]
    BY <1>2 DEF Restart, SourceIInv, TypeOK
  <2>3. TypeOK'
    BY <2>1, <2>2 DEF SourceIInv, TypeOK
  <2>4. ASSUME NEW q \in Pids PROVE version'[q] <= Len(pubs'[q])
    <3>1. Len(pubs[q]) \in Nat
      BY PubsType DEF SourceIInv
    <3>2. version'[q] = IF q = p THEN 0 ELSE version[q]
      BY <1>2 DEF Restart, SourceIInv, TypeOK
    <3> QED BY <2>1, <3>1, <3>2 DEF SourceIInv
  <2> QED BY <2>1, <2>3, <2>4, SameDecoders, SameTable DEF SourceIInv
<1>3. ASSUME NEW p \in Pids, NEW n \in Pubs, NEW i \in 0 .. 3 + Redundancy, Feed(p, n, i)
      PROVE  SourceIInv'
  BY <1>3, SourceFeed
<1>4. CASE Join
  <2>1. TypeOK'
    BY <1>4 DEF Join, SourceIInv, TypeOK, NoDecoders, NothingSeen, pubVars
  <2> QED
    BY <1>4, <2>1 DEF Join, SourceIInv, DecodersSourced, TableSourced, NoDecoders, pubVars
<1>5. CASE UNCHANGED vars
  <2>1. TypeOK' /\ pubs' = pubs /\ dec' = dec /\ table' = table /\ version' = version
    BY <1>5 DEF vars, pubVars, subVars, SourceIInv, TypeOK
  <2> QED BY <2>1, SameDecoders, SameTable DEF SourceIInv
<1> QED BY <1>1, <1>2, <1>3, <1>4, <1>5 DEF Next

\* Whatever publishers restart, however session ids come round and whatever the
\* channel does: what a decoder holds, and what is shown, is of one session id
\* and one length.
THEOREM SourceInvariance == Spec => []SourceIInv
<1>1. Init => SourceIInv
  <2> SUFFICES ASSUME Init PROVE SourceIInv
    OBVIOUS
  <2>1. TypeOK
    BY InitTypeOK
  <2>2. ASSUME NEW p \in Pids PROVE version[p] <= Len(pubs[p])
    BY DEF Init
  <2> QED BY <2>1, <2>2 DEF Init, SourceIInv, DecodersSourced, TableSourced, NoDecoders
<1>2. SourceIInv /\ [Next]_vars => SourceIInv'
  BY SourceNext
<1> QED BY <1>1, <1>2, PTL DEF Spec

\* Every variable keeps its type.
THEOREM TypeCorrect == Spec => []TypeOK
<1>1. SourceIInv => TypeOK
  BY DEF SourceIInv
<1> QED BY <1>1, SourceInvariance, PTL

\* Whatever publishers restart, however session ids come round and whatever the
\* channel does: a subscriber shows a mixture of publications only if all of them
\* had one session id and one length.
THEOREM TornOnlyByReuse == Spec => []TornByReuse
<1>1. SourceIInv => TornByReuse
  <2> SUFFICES ASSUME SourceIInv, NEW p \in Pids, table[p] # NoState,
                      NEW j \in BlocksIn(table[p]), NEW k \in BlocksIn(table[p])
               PROVE  /\ Session(p, table[p].got[j]) = Session(p, table[p].got[k])
                      /\ Size(p, table[p].got[j]) = Size(p, table[p].got[k])
    BY DEF TornByReuse
  <2>1. table[p].size \in Sizes
    BY DEF SourceIInv, TypeOK, States
  <2>2. {j, k} \subseteq Indices
    BY <2>1, BlocksInType
  <2>3. table[p].got[j] # 0 /\ table[p].got[k] # 0
    BY DEF SourceIInv, TableSourced, IsComplete
  <2>4. PICK x \in Sessions : Sourced(p, x, table[p])
    BY DEF SourceIInv, TableSourced
  <2> QED BY <2>2, <2>3, <2>4 DEF Sourced
<1> QED BY <1>1, SourceInvariance, PTL
=============================================================================
