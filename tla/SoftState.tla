----------------------------- MODULE SoftState -----------------------------
(***************************************************************************)
(* Soft-state broadcast (src/softstate/core.py): publishers that spray the  *)
(* frames of each new state once, a channel that loses, repeats and maybe   *)
(* reorders frames (src/softstate/channels.py), and one subscriber with its *)
(* table of decoders.  A frame that is corrupted fails its CRC and has no   *)
(* effect but a counter, so corruption is loss.                             *)
(*                                                                          *)
(* States are small, at most four blocks, so that a frame carries one block *)
(* (codec.py, blocks_for_frame); larger ones are the subject of Fountain.   *)
(* A block is named by the publication it was cut from, and the version and *)
(* time stamp lie in block 0, which takes a block size of 12 bytes or more. *)
(***************************************************************************)
EXTENDS Naturals, Sequences

CONSTANTS
    Pids,           \* the publishers' ids
    Sizes,          \* the total lengths a published state may have
    NBlocks,        \* the number of blocks of a state of each length
    Redundancy,     \* Publisher.redundancy: frames sent beyond the blocks
    SessionMod,     \* versions a session id can tell apart (256 in the code)
    Encrypted,      \* publishers and subscriber share a group password
    Reorder,        \* the channel may reorder and repeat frames (UDP)
    MaxPub,         \* bound: states published by one publisher
    MaxRestarts     \* bound: restarts of publishers

ASSUME SizesAssumption == NBlocks \in [Sizes -> 1 .. 4]
ASSUME ParamAssumption ==
    /\ Redundancy \in Nat /\ SessionMod \in Nat \ {0}
    /\ MaxPub \in Nat /\ MaxRestarts \in Nat
    /\ Encrypted \in BOOLEAN /\ Reorder \in BOOLEAN

Pubs == 1 .. MaxPub             \* publications of one publisher, in order
Sessions == 0 .. SessionMod - 1
Indices == 0 .. 3               \* block indices

\* A decoder of a session: the length it was made for, the publication each
\* block was taken from (0 for none yet), and the flag beside it in _dec.
NoEntry == [kind |-> "none"]
Entries == [kind : {"entry"}, size : Sizes, got : [Indices -> Pubs \cup {0}],
            done : BOOLEAN]
NewEntry(z) == [kind |-> "entry", size |-> z, got |-> [j \in Indices |-> 0],
                done |-> FALSE]

\* A committed state: where its blocks come from, and the version it shows.
NoState == [kind |-> "none"]
States == [kind : {"state"}, size : Sizes, got : [Indices -> Pubs \cup {0}],
           version : Pubs]

VARIABLES
    version,    \* Publisher.version, in memory only
    pubs,       \* history: the version and length of everything published
    restarts,   \* restarts so far
    cursor,     \* the frame an ordered channel delivered last
    dec,        \* Subscriber._dec, by publisher and epoch
    table,      \* Subscriber.table
    seen        \* history: the blocks of each publication delivered since joining

pubVars == <<version, pubs, restarts>>
subVars == <<dec, table>>
vars == <<pubVars, cursor, subVars, seen>>

NoFrame == [pub |-> 0, idx |-> 0]
NothingSeen == [p \in Pids |-> [n \in Pubs |-> {}]]
NoDecoders == [p \in Pids |-> [e \in Sessions |-> NoEntry]]

Init ==
    /\ version = [p \in Pids |-> 0]
    /\ pubs = [p \in Pids |-> <<>>]
    /\ restarts = 0
    /\ cursor = [p \in Pids |-> NoFrame]
    /\ dec = NoDecoders
    /\ table = [p \in Pids |-> NoState]
    /\ seen = NothingSeen

-----------------------------------------------------------------------------
(* Publisher *)

\* Publisher.frames: the next version, and its frames on their way.
Publish(p, z) ==
    /\ Len(pubs[p]) < MaxPub
    /\ version' = [version EXCEPT ![p] = @ + 1]
    /\ pubs' = [pubs EXCEPT ![p] = Append(@, [version |-> version[p] + 1, size |-> z])]
    /\ UNCHANGED <<restarts, cursor, subVars, seen>>

\* A new process makes a new Publisher, which counts from 0 again.
Restart(p) ==
    /\ restarts < MaxRestarts /\ restarts' = restarts + 1
    /\ version' = [version EXCEPT ![p] = 0]
    /\ UNCHANGED <<pubs, cursor, subVars, seen>>

-----------------------------------------------------------------------------
(* Channel *)

Size(p, n) == pubs[p][n].size

\* The epoch half of the session id.  Mutant: the id names the publisher only.
SessionOfPid(p, n) == 0
Session(p, n) == pubs[p][n].version % SessionMod
BlockOf(p, n, i) == i % NBlocks[Size(p, n)]

\* Frame i of publication n may arrive.  An ordered channel delivers every frame
\* once at most and in the order sent; the frames it passes over are lost.
Deliverable(p, n, i) ==
    /\ n <= Len(pubs[p]) /\ i < NBlocks[Size(p, n)] + Redundancy
    /\ Reorder \/ n > cursor[p].pub \/ (n = cursor[p].pub /\ i > cursor[p].idx)

\* It arrives.
Deliver(p, n, i) ==
    /\ Deliverable(p, n, i)
    /\ cursor' = IF Reorder THEN cursor ELSE [cursor EXCEPT ![p] = [pub |-> n, idx |-> i]]
    /\ seen' = [seen EXCEPT ![p][n] = @ \cup {BlockOf(p, n, i)}]

-----------------------------------------------------------------------------
(* Subscriber.feed *)

\* Mutant: a decoder of the session is used whatever length it was made for.
EntryAnyLength(p, n) ==
    LET e == dec[p][Session(p, n)]
    IN  IF e # NoEntry THEN e ELSE NewEntry(Size(p, n))

\* The decoder of the frame's session, a new one if there is none of its length.
Entry(p, n) ==
    LET e == dec[p][Session(p, n)]
    IN  IF e # NoEntry /\ e.size = Size(p, n) THEN e ELSE NewEntry(Size(p, n))

\* Decoder.ingest of a one-block frame: the first of each block counts.
Ingested(e, n, b) == IF e.got[b] = 0 THEN [e EXCEPT !.got[b] = n] ELSE e

BlocksIn(e) == 0 .. NBlocks[e.size] - 1

\* Mutant: complete with one block to go.
IsAlmostComplete(e) == \A j \in 0 .. NBlocks[e.size] - 2 : e.got[j] # 0
IsComplete(e) == \A j \in BlocksIn(e) : e.got[j] # 0
IsWhole(e) == \A j \in BlocksIn(e) : e.got[j] = e.got[0]

Stored(p, n, e) == [dec EXCEPT ![p][Session(p, n)] = e]

\* Mutant: _reap forgets to compare the publisher.
ReapedAll(p, n, e) ==
    [q \in Pids |-> [x \in Sessions |-> IF q = p /\ x = Session(p, n) THEN e ELSE NoEntry]]

\* After _reap the session that committed is the only one of its publisher.
Reaped(p, n, e) ==
    [dec EXCEPT ![p] = [x \in Sessions |-> IF x = Session(p, n) THEN e ELSE NoEntry]]

Fed(p, n, i) == Ingested(Entry(p, n), n, BlockOf(p, n, i))
Finished(e) == [e EXCEPT !.done = TRUE]
VersionIn(p, e) == pubs[p][e.got[0]].version

\* A payload that is mixed does not authenticate.
Opens(e) == Encrypted => IsWhole(e)

\* Any version is news to a subscriber that shows none: versions start at 1.
VersionShown(p) == IF table[p] = NoState THEN 0 ELSE table[p].version

Newer(p, e) == VersionIn(p, e) > VersionShown(p)

\* The session is done: the frame is dropped.
FeedDone(p, n, i) ==
    /\ Deliver(p, n, i)
    /\ Entry(p, n).done
    /\ UNCHANGED <<pubVars, subVars>>

FeedPartial(p, n, i) ==
    /\ Deliver(p, n, i)
    /\ ~Entry(p, n).done /\ ~IsComplete(Fed(p, n, i))
    /\ dec' = Stored(p, n, Fed(p, n, i))
    /\ UNCHANGED <<pubVars, table>>

\* The payload does not authenticate, or its version is not news; the session
\* stays done.
FeedRejected(p, n, i) ==
    LET e == Fed(p, n, i)
    IN  /\ Deliver(p, n, i)
        /\ ~Entry(p, n).done /\ IsComplete(e)
        /\ ~Opens(e) \/ ~Newer(p, e)
        /\ dec' = Stored(p, n, Finished(e))
        /\ UNCHANGED <<pubVars, table>>

\* The frame completes a state that authenticates and is news.
Commits(p, n, i) ==
    LET e == Fed(p, n, i)
    IN  ~Entry(p, n).done /\ IsComplete(e) /\ Opens(e) /\ Newer(p, e)

FeedCommit(p, n, i) ==
    LET e == Fed(p, n, i)
    IN  /\ Deliver(p, n, i) /\ Commits(p, n, i)
        /\ dec' = Reaped(p, n, Finished(e))
        /\ table' = [table EXCEPT ![p] = [kind |-> "state", size |-> e.size,
                                          got |-> e.got, version |-> VersionIn(p, e)]]
        /\ UNCHANGED pubVars

\* A new subscriber takes the place of the old one.
Join ==
    /\ dec' = NoDecoders
    /\ table' = [p \in Pids |-> NoState]
    /\ seen' = NothingSeen
    /\ UNCHANGED <<pubVars, cursor>>

-----------------------------------------------------------------------------

Feed(p, n, i) == \/ FeedDone(p, n, i) \/ FeedPartial(p, n, i)
                 \/ FeedRejected(p, n, i) \/ FeedCommit(p, n, i)

Next ==
    \/ \E p \in Pids : Restart(p) \/ \E z \in Sizes : Publish(p, z)
    \/ \E p \in Pids, n \in Pubs, i \in 0 .. 3 + Redundancy : Feed(p, n, i)
    \/ Join

Spec == Init /\ [][Next]_vars

-----------------------------------------------------------------------------
(* Properties *)

\* Every variable keeps its type.
TypeOK ==
    /\ version \in [Pids -> 0 .. MaxPub]
    /\ pubs \in [Pids -> Seq([version : Pubs, size : Sizes])]
    /\ \A p \in Pids : Len(pubs[p]) <= MaxPub
    /\ restarts \in 0 .. MaxRestarts
    /\ cursor \in [Pids -> [pub : Pubs \cup {0}, idx : 0 .. 3 + Redundancy]]
    /\ dec \in [Pids -> [Sessions -> Entries \cup {NoEntry}]]
    /\ table \in [Pids -> States \cup {NoState}]
    /\ seen \in [Pids -> [Pubs -> SUBSET Indices]]

\* What a subscriber shows is one publication, never a mixture of two: the
\* guarantee "never torn" of core.py.
NeverTorn == \A p \in Pids : table[p] # NoState => IsWhole(table[p])

\* The publication a subscriber shows, when it shows a whole one.
Shown(p) == IF table[p] = NoState THEN 0 ELSE table[p].got[0]

\* A subscriber that was delivered every block of a publication shows it, or a
\* later one: "the next is the whole truth".
Delivered(p, n) == n <= Len(pubs[p]) /\ seen[p][n] = 0 .. NBlocks[Size(p, n)] - 1
DeliveredIsShown == \A p \in Pids, n \in Pubs : Delivered(p, n) => Shown(p) >= n

\* The subscriber implements the abstract one: it moves from one whole
\* publication to a later whole publication.  A torn state is mapped to a
\* publication that is never made.
View(p) == IF table[p] # NoState /\ ~IsWhole(table[p]) THEN MaxPub + 1 ELSE Shown(p)
Broadcast == INSTANCE StateBroadcast WITH
    published <- [p \in Pids |-> Len(pubs[p])],
    view <- [p \in Pids |-> View(p)]
ForwardOnly == Broadcast!Spec

-----------------------------------------------------------------------------
(* The inductive invariant behind them.  It takes that no publisher restarts *)
(* and that no session id comes round again.                                 *)

DistinctSessions == MaxRestarts = 0 /\ MaxPub < SessionMod

\* Publication n has version n, so it is alone in its session.
Numbered == \A p \in Pids :
    /\ version[p] = Len(pubs[p])
    /\ \A n \in 1 .. Len(pubs[p]) : pubs[p][n].version = n

\* The decoder of a session holds blocks of its own publication only.
OwnBlocks == \A p \in Pids, x \in Sessions :
    dec[p][x] # NoEntry => \A j \in Indices : dec[p][x].got[j] \in {0, x}

\* A state shown is one publication, and shows the version of that publication.
TableWhole == \A p \in Pids : table[p] # NoState =>
    /\ \A j \in BlocksIn(table[p]) : table[p].got[j] = table[p].version
    /\ table[p].version <= Len(pubs[p])

\* On an ordered channel, a publication the subscriber does not show yet is
\* untouched, or its decoder holds exactly what was delivered of it.
Follows(e, p, n) ==
    /\ e # NoEntry /\ e.size = Size(p, n) /\ ~e.done /\ ~IsComplete(e)
    /\ \A j \in Indices : e.got[j] # 0 <=> j \in seen[p][n]
InStep(p, n) ==
    /\ n > cursor[p].pub => seen[p][n] = {}
    /\ Shown(p) < n =>
          \/ seen[p][n] = {} /\ dec[p][n] = NoEntry
          \/ seen[p][n] # {} /\ Follows(dec[p][n], p, n)
Progress == \A p \in Pids :
    /\ cursor[p].pub <= Len(pubs[p])
    /\ \A n \in Pubs : InStep(p, n)

\* The invariant of Subscriber.feed as a whole.
IInv == /\ TypeOK /\ Numbered /\ OwnBlocks /\ TableWhole
        /\ ~Reorder => Progress
-----------------------------------------------------------------------------
(* What holds with restarts, and with session ids that come round again.     *)

\* A state shown torn is put together from publications of one length and one
\* session id, which a decoder cannot tell apart; nothing else tears a state.
TornByReuse == \A p \in Pids : table[p] # NoState /\ ~IsWhole(table[p]) =>
    \A j, k \in BlocksIn(table[p]) :
        /\ Session(p, table[p].got[j]) = Session(p, table[p].got[k])
        /\ Size(p, table[p].got[j]) = Size(p, table[p].got[k])

\* The blocks of e are of publications with session id x and the length of e.
Sourced(p, x, e) == \A j \in Indices : e.got[j] # 0 =>
    /\ e.got[j] <= Len(pubs[p])
    /\ Session(p, e.got[j]) = x /\ Size(p, e.got[j]) = e.size

\* So are a publisher's decoders, and the state shown of it.
DecodersSourced(p) ==
    \A x \in Sessions : dec[p][x] # NoEntry => Sourced(p, x, dec[p][x])
TableSourced(p) == table[p] # NoState =>
    /\ IsComplete(table[p])
    /\ \E x \in Sessions : Sourced(p, x, table[p])

\* The invariant of Subscriber.feed that takes no assumption.
SourceIInv == TypeOK /\ \A p \in Pids :
    version[p] <= Len(pubs[p]) /\ DecodersSourced(p) /\ TableSourced(p)
=============================================================================
