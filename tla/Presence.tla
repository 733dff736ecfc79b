------------------------------ MODULE Presence ------------------------------
(***************************************************************************)
(* statusbus (src/applications/statusbus/bus.py) over SoftState: producers   *)
(* publish records, and a consumer's thread asks for a snapshot of the live  *)
(* ones (Subscriber.snapshot, src/softstate/core.py) while the receive       *)
(* thread feeds frames.  The iteration over the table is not locked.         *)
(***************************************************************************)
EXTENDS SoftState, FiniteSets

CONSTANTS
    Ttl,        \* after which a quiet publisher is left out
    MaxClock    \* bound: clock ticks

ASSUME ClockAssumption == Ttl \in Nat /\ MaxClock \in Nat

VARIABLES
    clock,      \* time.perf_counter
    stamp,      \* the time beside each state of the table
    commit,     \* the frame whose state feed is about to store, and the time read
    snap        \* the snapshot in progress, or the last one

NoCommit == [pid |-> "none"]
NoSnap == [pc |-> "none"]

presenceVars == <<vars, clock, stamp, commit, snap>>

PresenceInit ==
    /\ Init
    /\ clock = 0 /\ stamp = [p \in Pids |-> 0]
    /\ commit = NoCommit /\ snap = NoSnap

Listed == {p \in Pids : table[p] # NoState}

-----------------------------------------------------------------------------

\* Consumer.feed, of a frame that brings no new state.
ConsumerFeed(p, n, i) ==
    /\ commit = NoCommit
    /\ FeedDone(p, n, i) \/ FeedPartial(p, n, i) \/ FeedRejected(p, n, i)
    /\ UNCHANGED <<clock, stamp, commit, snap>>

\* A new state is stored beside the time, which is read before it is stored.
ReadClock(p, n, i) ==
    /\ commit = NoCommit /\ Deliverable(p, n, i) /\ Commits(p, n, i)
    /\ commit' = [pid |-> p, pub |-> n, idx |-> i, at |-> clock]
    /\ UNCHANGED <<vars, clock, stamp, snap>>

Store ==
    /\ commit # NoCommit /\ FeedCommit(commit.pid, commit.pub, commit.idx)
    /\ stamp' = [stamp EXCEPT ![commit.pid] = commit.at] /\ commit' = NoCommit
    /\ UNCHANGED <<clock, snap>>

Tick ==
    /\ clock < MaxClock /\ clock' = clock + 1
    /\ UNCHANGED <<vars, stamp, commit, snap>>

\* snapshot reads the clock and starts to iterate; was and since are history.
SnapshotBegin ==
    /\ snap.pc # "iterate"
    /\ snap' = [pc |-> "iterate", now |-> clock, todo |-> Listed, out |-> <<>>,
                was |-> table, since |-> stamp]
    /\ UNCHANGED <<vars, clock, stamp, commit>>

\* Mutant: the clock is read again for every entry.
LiveByNow(p) == clock <= stamp[p] + Ttl
Live(p) == snap.now <= stamp[p] + Ttl

\* The table grew under the iteration, which Python notices at its next step.
Grown == Cardinality(Listed) # Cardinality({p \in Pids : snap.was[p] # NoState})

SnapshotItem(p) ==
    /\ snap.pc = "iterate" /\ ~Grown /\ p \in snap.todo
    /\ snap' = [snap EXCEPT
           !.todo = @ \ {p},
           !.out = IF Live(p) THEN [q \in DOMAIN @ \cup {p} |-> IF q = p THEN table[p] ELSE @[q]]
                   ELSE @]
    /\ UNCHANGED <<vars, clock, stamp, commit>>

SnapshotEnd ==
    /\ snap.pc = "iterate" /\ ~Grown /\ snap.todo = {}
    /\ snap' = [snap EXCEPT !.pc = "returned"]
    /\ UNCHANGED <<vars, clock, stamp, commit>>

\* RuntimeError: dictionary changed size during iteration.
SnapshotRaises ==
    /\ snap.pc = "iterate" /\ Grown
    /\ snap' = [snap EXCEPT !.pc = "raised"]
    /\ UNCHANGED <<vars, clock, stamp, commit>>

\* A new consumer takes the place of the old one, with nothing listed.
NewConsumer ==
    /\ Join
    /\ stamp' = [p \in Pids |-> 0] /\ commit' = NoCommit /\ snap' = NoSnap
    /\ UNCHANGED clock

-----------------------------------------------------------------------------

Producers ==
    /\ \E p \in Pids : Restart(p) \/ \E z \in Sizes : Publish(p, z)
    /\ UNCHANGED <<clock, stamp, commit, snap>>

Snapshot ==
    \/ SnapshotBegin \/ SnapshotEnd \/ SnapshotRaises
    \/ \E p \in Pids : SnapshotItem(p)

PresenceNext ==
    \/ \E p \in Pids, n \in Pubs, i \in 0 .. 3 + Redundancy :
          ConsumerFeed(p, n, i) \/ ReadClock(p, n, i)
    \/ Store \/ Producers \/ Snapshot \/ NewConsumer \/ Tick

PresenceSpec == PresenceInit /\ [][PresenceNext]_presenceVars

-----------------------------------------------------------------------------
(* Properties *)

\* Consumer.snapshot: the check field of a record belongs to its value.
Consistent(s) == IsWhole(s)

\* What a snapshot answers of p: listed with a record at least as new as the one
\* shown when it began if p was live then; else not, unless p published since.
Answered(p) ==
    LET listed == p \in DOMAIN snap.out
        live == snap.was[p] # NoState /\ snap.now <= snap.since[p] + Ttl
        fresh == snap.was[p] = NoState \/ snap.out[p].version > snap.was[p].version
    IN  /\ live => listed
        /\ listed => /\ live \/ fresh
                     /\ ~fresh => snap.out[p] = snap.was[p]
                     /\ Consistent(snap.out[p])

\* A snapshot that returns lists everyone who was live when it began, with a
\* record at least as new as the one shown then; whoever it lists was live then
\* or has published since; and no record of it is torn.  It raises only if a
\* publisher was shown for the first time meanwhile.
SnapshotCurrent ==
    /\ snap.pc = "returned" => \A p \in Pids : Answered(p)
    /\ snap.pc = "raised" => \E p \in Listed : snap.was[p] = NoState

-----------------------------------------------------------------------------
(* The inductive invariant behind it, beside that of SoftState *)

\* Every variable keeps its type.
PresenceTypeOK ==
    /\ clock \in 0 .. MaxClock /\ stamp \in [Pids -> Nat]
    /\ \/ commit = NoCommit
       \/ commit \in [pid : Pids, pub : Pubs, idx : 0 .. 3 + Redundancy, at : Nat]
    /\ \/ snap = NoSnap
       \/ /\ snap \in [pc : {"iterate", "returned", "raised"}, now : Nat, todo : SUBSET Pids,
                        out : {snap.out}, was : [Pids -> States \cup {NoState}],
                        since : [Pids -> Nat]]
          /\ snap.out \in [DOMAIN snap.out -> States] /\ DOMAIN snap.out \subseteq Pids

\* The time read for the next state is no earlier than that of the last.
StampsOK ==
    /\ \A p \in Pids : stamp[p] <= clock
    /\ commit # NoCommit => stamp[commit.pid] <= commit.at /\ commit.at <= clock

\* What was shown when the iteration began is shown still, or something newer that
\* was stamped no earlier.
Kept(p) ==
    \/ table[p] = snap.was[p] /\ stamp[p] = snap.since[p]
    \/ table[p] # NoState /\ table[p].version > snap.was[p].version /\ stamp[p] >= snap.since[p]

\* Those listed, and those not answered yet, were shown when the iteration began.
Iterating == snap.pc = "iterate" =>
    /\ snap.now <= clock
    /\ \A p \in Pids : snap.was[p] # NoState => Kept(p)
    /\ snap.todo \cap DOMAIN snap.out = {}
    /\ \A p \in snap.todo \cup DOMAIN snap.out : snap.was[p] # NoState
    /\ \A p \in Pids \ snap.todo : Answered(p)

PresenceIInv == IInv /\ PresenceTypeOK /\ StampsOK /\ Iterating /\ SnapshotCurrent
=============================================================================
