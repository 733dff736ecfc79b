----------------------------- MODULE StoreShare -----------------------------
(***************************************************************************)
(* The shared side of softstate.Store (src/softstate/store.py): every node   *)
(* announces its whole namespace when it changes, when the store starts and   *)
(* at every refresh, and keeps the namespaces it received of every node, its  *)
(* own included, as its merged view.  A change may fail where it saves, and   *)
(* an announcement where it is encoded or sent; both raise, out of set or     *)
(* delete into the caller, out of the refresh thread's loop into nothing.     *)
(*                                                                          *)
(* An announcement is one message, which softstate delivers whole or not at   *)
(* all (SoftState), or mixed with one of the same version from before a       *)
(* restart.  A save takes effect at once (StoreDisk).  A process that dies    *)
(* between the save and the announcement is one whose announcement is lost.   *)
(* Each key is set by one node, as set's docstring asks.                      *)
(***************************************************************************)
EXTENDS Namespace, Naturals

CONSTANTS
    Nodes,
    Owner,      \* the node that sets a key
    Nobody,     \* no key is to be notified by the caller's thread
    MaxCall,    \* bound: calls of set and delete
    MaxRestart, \* bound: restarts
    MaxFault    \* bound: failing file and socket operations, lost announcements

ASSUME ConstantsAssumption ==
    /\ Owner \in [Keys -> Nodes] /\ Nobody \notin Keys
    /\ MaxCall \in Nat /\ MaxRestart \in Nat /\ MaxFault \in Nat

VARIABLES
    local,      \* Store._local
    disk,       \* the namespace a restart will load
    version,    \* Publisher.version
    refreshing, \* the nodes whose refresh thread runs
    remote,     \* Store._remote, beside the version Subscriber.table has
    net,        \* the announcements on their way to each node
    calling,    \* the key set or delete will notify of
    arrived,    \* the keys _on_remote will notify of
    told,       \* what a callback of on_change read when it was last called
    unsaid,     \* history: the nodes that could not save a change and announced nothing since
    untold,     \* history: the keys of changes that failed, not notified since
    calls, restarts, faults

ownVars == <<local, disk, version, refreshing, unsaid>>
noticeVars == <<calling, arrived, told, untold>>
boundVars == <<calls, restarts, faults>>
vars == <<ownVars, remote, net, noticeVars, boundVars>>

Message == [from : Nodes, ns : Namespaces, ver : Nat \ {0}]

\* get: the node's own keys win, then the value announced under the highest
\* version.
Get(n, k) ==
    IF local[n][k] # Absent THEN local[n][k]
    ELSE LET holders == {p \in Nodes : remote[n][p].ns[k] # Absent}
             newest == CHOOSE p \in holders :
                           \A q \in holders : remote[n][q].ver <= remote[n][p].ver
         IN  IF holders = {} THEN Absent ELSE remote[n][newest].ns[k]

NoView == [p \in Nodes |-> [ns |-> Empty, ver |-> 0]]

\* The stores run, their first announcements were lost.
Init ==
    /\ local = [n \in Nodes |-> Empty] /\ disk = [n \in Nodes |-> Empty]
    /\ version = [n \in Nodes |-> 1] /\ refreshing = Nodes
    /\ remote = [n \in Nodes |-> NoView] /\ net = [n \in Nodes |-> {}]
    /\ calling = [n \in Nodes |-> Nobody] /\ arrived = [n \in Nodes |-> {}]
    /\ told = [n \in Nodes |-> Empty]
    /\ unsaid = {} /\ untold = [n \in Nodes |-> {}]
    /\ calls = 0 /\ restarts = 0 /\ faults = 0

-----------------------------------------------------------------------------
(* Changes and announcements *)

\* Mutant: the version counts changes, not announcements.
SameVersion(v) == v
NextVersion(v) == v + 1

Announcement(n, ns, v) == [from |-> n, ns |-> Encoded(ns), ver |-> v]

\* _publish: node n announces ns, and the nodes of R will receive it.
Publish(n, ns, R) ==
    LET v == NextVersion(version[n])
    IN  /\ version' = [version EXCEPT ![n] = v]
        /\ net' = [q \in Nodes |-> IF q \in R THEN net[q] \cup {Announcement(n, ns, v)}
                                   ELSE net[q]]
        /\ unsaid' = unsaid \ {n}

Fault == faults < MaxFault /\ faults' = faults + 1

\* _publish raises in json.dumps, with nothing done, or in send, when the frames
\* sent so far may do for the whole namespace.
PublishRaises(n, ns) ==
    \/ ~Serializable(ns) /\ UNCHANGED <<version, net, unsaid, faults>>
    \/ Serializable(ns) /\ Fault /\ \E R \in {{}, Nodes} : Publish(n, ns, R)

\* set and delete change the namespace first of all.
Alter(n, k, v) ==
    /\ calling[n] = Nobody /\ calls < MaxCall
    /\ local' = [local EXCEPT ![n] = With(@, k, v)]
    /\ calls' = calls + 1

\* Mutant: the namespace is announced before it is changed.
ChangePublishFirst(n, k, v) ==
    /\ Alter(n, k, v) /\ Serializable(local'[n])
    /\ disk' = [disk EXCEPT ![n] = Encoded(local'[n])]
    /\ Publish(n, local[n], Nodes)
    /\ calling' = [calling EXCEPT ![n] = k]
    /\ UNCHANGED <<refreshing, remote, arrived, told, untold, restarts, faults>>

\* A change is saved and announced, and its key is notified next.
Change(n, k, v) ==
    /\ Alter(n, k, v) /\ Serializable(local'[n])
    /\ disk' = [disk EXCEPT ![n] = Encoded(local'[n])]
    /\ Publish(n, local'[n], Nodes)
    /\ calling' = [calling EXCEPT ![n] = k]
    /\ UNCHANGED <<refreshing, remote, arrived, told, untold, restarts, faults>>

\* _persist raises: the namespace stays changed in memory, and that is all.
ChangeUnsaved(n, k, v) ==
    /\ Alter(n, k, v)
    /\ Fault \/ (~Serializable(local'[n]) /\ UNCHANGED faults)
    /\ unsaid' = unsaid \cup {n}
    /\ untold' = [untold EXCEPT ![n] = @ \cup {k}]
    /\ UNCHANGED <<disk, version, refreshing, remote, net, calling, arrived, told,
                   restarts>>

\* It is saved and _publish raises: nobody is notified.
ChangeUnsent(n, k, v) ==
    /\ Alter(n, k, v) /\ Serializable(local'[n])
    /\ disk' = [disk EXCEPT ![n] = Encoded(local'[n])]
    /\ PublishRaises(n, local'[n])
    /\ untold' = [untold EXCEPT ![n] = @ \cup {k}]
    /\ UNCHANGED <<refreshing, remote, calling, arrived, told, restarts>>

Set(n, k, v) ==
    /\ Owner[k] = n
    /\ Change(n, k, v) \/ ChangeUnsaved(n, k, v) \/ ChangeUnsent(n, k, v)
Delete(n, k) ==
    /\ local[n][k] # Absent
    /\ \/ Change(n, k, Absent) \/ ChangeUnsaved(n, k, Absent) \/ ChangeUnsent(n, k, Absent)

\* delete of a key the node does not have only notifies.
DeleteMissing(n, k) ==
    /\ calling[n] = Nobody /\ local[n][k] = Absent /\ calls < MaxCall
    /\ calling' = [calling EXCEPT ![n] = k]
    /\ calls' = calls + 1
    /\ UNCHANGED <<ownVars, remote, net, arrived, told, untold, restarts, faults>>

\* Some node does not have the namespace of n.
Stale(n) == \E q \in Nodes : remote[q][n].ns # Encoded(local[n])

\* The refresh thread.  A refresh while nobody needs it, or while the one
\* before is on its way, is left out.
Refresh(n) ==
    /\ n \in refreshing /\ Serializable(local[n])
    /\ Stale(n) /\ \A q \in Nodes : \A m \in net[q] : m.from # n
    /\ Publish(n, local[n], Nodes)
    /\ UNCHANGED <<local, disk, refreshing, remote, noticeVars, boundVars>>

\* _refresh_loop handles no exception: the thread ends.
RefreshRaises(n) ==
    /\ n \in refreshing /\ PublishRaises(n, local[n])
    /\ refreshing' = refreshing \ {n}
    /\ UNCHANGED <<local, disk, remote, noticeVars, calls, restarts>>

\* The process ends and a new one starts from what is on disk.
Restart(n) ==
    /\ restarts < MaxRestart /\ restarts' = restarts + 1
    /\ local' = [local EXCEPT ![n] = disk[n]]
    /\ remote' = [remote EXCEPT ![n] = NoView]
    /\ version' = [version EXCEPT ![n] = NextVersion(0)]
    /\ LET m == Announcement(n, disk[n], NextVersion(0))
       IN  net' = [q \in Nodes |-> IF q = n THEN {m} ELSE net[q] \cup {m}]
    /\ refreshing' = refreshing \cup {n}
    /\ calling' = [calling EXCEPT ![n] = Nobody] /\ arrived' = [arrived EXCEPT ![n] = {}]
    /\ told' = [told EXCEPT ![n] = disk[n]]
    /\ unsaid' = unsaid \ {n} /\ untold' = [untold EXCEPT ![n] = {}]
    /\ UNCHANGED <<disk, calls, faults>>

-----------------------------------------------------------------------------
(* The network *)

Lose(n, m) ==
    /\ Fault
    /\ net' = [net EXCEPT ![n] = @ \ {m}]
    /\ UNCHANGED <<ownVars, remote, noticeVars, calls, restarts>>

\* Announcements of one store and one version, from before a restart and after.
Confused(m, o) == restarts > 0 /\ m # o /\ m.from = o.from /\ m.ver = o.ver

\* Their blocks are put together: some keys come from one, some from the other.
\* A value or a key that is itself torn is left out.
Mix(n, m, o) ==
    /\ Confused(m, o)
    /\ \E K \in SUBSET Keys :
          net' = [net EXCEPT ![n] = (@ \ {m, o}) \cup
                     {[m EXCEPT !.ns = [k \in Keys |-> IF k \in K THEN m.ns[k] ELSE o.ns[k]]]}]
    /\ UNCHANGED <<ownVars, remote, noticeVars, boundVars>>

Newer(n, m) == m.ver > remote[n][m.from].ver

\* Or they make no JSON: the version is taken, and _on_remote returns early.
Garble(n, m, o) ==
    /\ Confused(m, o)
    /\ net' = [net EXCEPT ![n] = @ \ {m, o}]
    /\ remote' = IF Newer(n, m)
                 THEN [remote EXCEPT ![n][m.from] = [ns |-> @.ns, ver |-> m.ver]] ELSE remote
    /\ UNCHANGED <<ownVars, noticeVars, boundVars>>

-----------------------------------------------------------------------------
(* Announcements received, and callbacks *)

\* Mutant: a store is not notified of its own announcement when it comes back.
FromOthers(n, m) == {k \in Keys : m.ns[k] # Absent /\ m.from # n}
Announced(n, m) == {k \in Keys : m.ns[k] # Absent}

\* feed and _on_remote, on the receive thread.
Receive(n, m) ==
    /\ arrived[n] = {}
    /\ net' = [net EXCEPT ![n] = @ \ {m}]
    /\ IF Newer(n, m)
       THEN /\ remote' = [remote EXCEPT ![n][m.from] = [ns |-> m.ns, ver |-> m.ver]]
            /\ arrived' = [arrived EXCEPT ![n] = Announced(n, m)]
       ELSE UNCHANGED <<remote, arrived>>
    /\ UNCHANGED <<ownVars, calling, told, untold, boundVars>>

\* _notify, on either thread, after the lock is released: the callback reads
\* the key.
Tell(n, k) ==
    /\ told' = [told EXCEPT ![n][k] = Get(n, k)]
    /\ untold' = [untold EXCEPT ![n] = @ \ {k}]

NotifyChange(n) ==
    /\ calling[n] # Nobody
    /\ Tell(n, calling[n]) /\ calling' = [calling EXCEPT ![n] = Nobody]
    /\ UNCHANGED <<ownVars, remote, net, arrived, boundVars>>

NotifyArrived(n, k) ==
    /\ k \in arrived[n]
    /\ Tell(n, k) /\ arrived' = [arrived EXCEPT ![n] = @ \ {k}]
    /\ UNCHANGED <<ownVars, remote, net, calling, boundVars>>

-----------------------------------------------------------------------------

Caller(n) == \E k \in Keys :
    (\E v \in Values : Set(n, k, v)) \/ Delete(n, k) \/ DeleteMissing(n, k)
Refresher(n) == Refresh(n) \/ RefreshRaises(n)
Receiver(n) == (\E m \in net[n] : Receive(n, m)) \/ \E k \in Keys : NotifyArrived(n, k)
Network(n) ==
    \/ \E m \in net[n] : Lose(n, m)
    \/ \E m, o \in net[n] : Mix(n, m, o) \/ Garble(n, m, o)

Next == \E n \in Nodes :
    \/ Caller(n) \/ NotifyChange(n) \/ Refresher(n) \/ Receiver(n) \/ Restart(n)
    \/ Network(n)

Spec == Init /\ [][Next]_vars

\* The receive thread runs, and the refresh thread until it ends, a call of set or
\* delete goes on, and what is not lost arrives.  Callers need not call again.
FairSpec == Spec /\ \A n \in Nodes :
    WF_vars(Receiver(n)) /\ WF_vars(Refresher(n)) /\ WF_vars(NotifyChange(n))

-----------------------------------------------------------------------------
(* Properties *)

\* Every variable keeps its type.
TypeOK ==
    /\ local \in [Nodes -> Namespaces] /\ disk \in [Nodes -> Namespaces]
    /\ version \in [Nodes -> Nat \ {0}] /\ refreshing \subseteq Nodes
    /\ remote \in [Nodes -> [Nodes -> [ns : Namespaces, ver : Nat]]]
    /\ \A n \in Nodes : net[n] \subseteq Message
    /\ calling \in [Nodes -> Keys \cup {Nobody}] /\ arrived \in [Nodes -> SUBSET Keys]
    /\ told \in [Nodes -> Namespaces]
    /\ unsaid \subseteq Nodes /\ untold \in [Nodes -> SUBSET Keys]
    /\ calls \in 0 .. MaxCall /\ restarts \in 0 .. MaxRestart
    /\ faults \in 0 .. MaxFault

\* "Absolute state": while no store restarts, whoever holds the latest version a
\* node announced holds the namespace of that node as it is now, unless the node
\* changed it since and could not save it.
LatestIsCurrent == restarts = 0 => \A n, p \in Nodes :
    remote[n][p].ver = version[p] /\ p \notin unsaid => remote[n][p].ns = Encoded(local[p])

\* "Fired on any local or remote change": when no callback is due at a node, the
\* hook last read of every key that has a value the value it has now, unless the
\* call that changed the key raised.
HookUpToDate == \A n \in Nodes : calling[n] = Nobody /\ arrived[n] = {} =>
    \A k \in Keys \ untold[n] : Get(n, k) # Absent => told[n][k] = Get(n, k)

\* "Loss heals", and so do restarts, failing calls and mixtures: unless a node's
\* refresh thread ends, every node holds its namespace in the end, itself included.
Heals == <>[](\A n \in refreshing : \A q \in Nodes : remote[q][n].ns = Encoded(local[n]))

-----------------------------------------------------------------------------
(* The inductive invariant behind the safety properties *)

\* What was saved, and so what a restart announces, is JSON.
DiskOK == \A n \in Nodes : Serializable(disk[n])

\* Only its owner has a key in its namespace, here, on disk or on its way.
Owned(ns, p) == \A k \in Keys : ns[k] # Absent => Owner[k] = p
OwnersOnly == \A p \in Nodes :
    /\ Owned(local[p], p) /\ Owned(disk[p], p)
    /\ \A n \in Nodes : Owned(remote[n][p].ns, p)
    /\ \A n \in Nodes : \A m \in net[n] : Owned(m.ns, m.from)

\* While no store restarts, no version is above the publisher's, and the
\* publisher's own stands for the namespace as it is.
UpTo(p, ver, ns) ==
    /\ ver <= version[p]
    /\ ver = version[p] /\ p \notin unsaid => ns = Encoded(local[p])
VersionsOK == restarts = 0 => \A n, p \in Nodes :
    /\ UpTo(p, remote[n][p].ver, remote[n][p].ns)
    /\ \A m \in net[n] : UpTo(m.from, m.ver, m.ns)

\* A key of which no callback is due was told as it is, if it has a value.
Due(n, k) == k \in arrived[n] \/ calling[n] = k \/ k \in untold[n]
ToldOK == \A n \in Nodes, k \in Keys :
    Get(n, k) # Absent /\ ~Due(n, k) => told[n][k] = Get(n, k)

\* The invariant of announcements and callbacks as a whole.
IInv == TypeOK /\ DiskOK /\ OwnersOnly /\ VersionsOK /\ ToldOK
=============================================================================
