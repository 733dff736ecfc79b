-------------------------- MODULE StoreShareProofs --------------------------
(***************************************************************************)
(* The shared side of softstate.Store, for any nodes, keys, values and       *)
(* owners, any loss and order of announcements, and any number of restarts,   *)
(* of saves and of announcements that fail: LatestIsCurrent and HookUpToDate. *)
(***************************************************************************)
EXTENDS StoreShare, TLAPS

USE ConstantsAssumption, JsonAssumption

\* A namespace written as JSON has the same keys, and can be written again.
LEMMA EncodedFacts ==
    ASSUME NEW ns \in Namespaces, Serializable(ns)
    PROVE  /\ Encoded(ns) \in Namespaces /\ Serializable(Encoded(ns))
           /\ \A k \in Keys : Encoded(ns)[k] # Absent <=> ns[k] # Absent
<1>1. \A k \in Keys : ns[k] # Absent =>
         ns[k] \in Values /\ Json[ns[k]] \in Values /\ Json[Json[ns[k]]] # NoJson
  BY DEF Serializable, Namespaces
<1> QED BY <1>1 DEF Encoded, Namespaces, Serializable

\* The merged view of a key: the node's own value, or else what its owner
\* announced.  No version decides, as no other node has the key.
GetByOwner == \A n \in Nodes, k \in Keys :
    Get(n, k) = IF local[n][k] # Absent THEN local[n][k] ELSE remote[n][Owner[k]].ns[k]

\* Get reads a key where GetByOwner says.
LEMMA GetOwned == TypeOK /\ OwnersOnly => GetByOwner
<1> SUFFICES ASSUME TypeOK, OwnersOnly, NEW n \in Nodes, NEW k \in Keys
             PROVE  Get(n, k) = IF local[n][k] # Absent THEN local[n][k]
                                ELSE remote[n][Owner[k]].ns[k]
  BY DEF GetByOwner
<1> DEFINE holders == {p \in Nodes : remote[n][p].ns[k] # Absent}
           newest == CHOOSE p \in holders :
                         \A q \in holders : remote[n][q].ver <= remote[n][p].ver
<1>1. Get(n, k) = IF local[n][k] # Absent THEN local[n][k]
                  ELSE IF holders = {} THEN Absent ELSE remote[n][newest].ns[k]
  BY Zenon DEF Get
<1>2. Owner[k] \in Nodes /\ holders \subseteq {Owner[k]}
  BY DEF OwnersOnly, Owned
<1>3. CASE remote[n][Owner[k]].ns[k] = Absent
  <2>1. holders = {}
    BY <1>2, <1>3
  <2> HIDE DEF holders, newest
  <2> QED BY <1>1, <1>3, <2>1
<1>4. CASE remote[n][Owner[k]].ns[k] # Absent
  <2>1. holders = {Owner[k]}
    BY <1>2, <1>4
  <2>2. remote[n][Owner[k]].ver \in Nat
    BY <1>2 DEF TypeOK
  <2>3. newest = Owner[k]
    BY <2>1, <2>2
  <2> HIDE DEF holders, newest
  <2> QED BY <1>1, <2>1, <2>3
<1> QED BY <1>3, <1>4

\* The view of a key depends on nothing but the node's own value and the
\* owner's announcement.
LEMMA GetKept ==
    ASSUME TypeOK, OwnersOnly, TypeOK', OwnersOnly', NEW n \in Nodes, NEW k \in Keys,
           local'[n][k] = local[n][k],
           remote'[n][Owner[k]].ns[k] = remote[n][Owner[k]].ns[k]
    PROVE  Get(n, k)' = Get(n, k)
<1>1. Get(n, k) = IF local[n][k] # Absent THEN local[n][k] ELSE remote[n][Owner[k]].ns[k]
  BY GetOwned DEF GetByOwner
<1>2. (TypeOK /\ OwnersOnly => GetByOwner)'
  BY GetOwned, PTL
<1>3. Get(n, k)' = IF local'[n][k] # Absent THEN local'[n][k] ELSE remote'[n][Owner[k]].ns[k]
  BY <1>2 DEF GetByOwner
<1> QED BY <1>1, <1>3

-----------------------------------------------------------------------------

\* The stores start in a state of IInv.
LEMMA InitIInv == Init => IInv
<1> SUFFICES ASSUME Init PROVE IInv
  OBVIOUS
<1> USE DEF Init, Empty, Namespaces, NoView
<1>1. TypeOK
  BY DEF TypeOK
<1>2. OwnersOnly /\ DiskOK
  BY DEF OwnersOnly, Owned, DiskOK, Serializable
<1>3. VersionsOK
  BY DEF VersionsOK, UpTo, Encoded
<1>4. ToldOK
  BY <1>1, <1>2, GetOwned DEF ToldOK, GetByOwner
<1> QED BY <1>1, <1>2, <1>3, <1>4 DEF IInv

\* An announcement of a node's namespace keeps the types, and comes from it.
LEMMA PublishFacts ==
    ASSUME TypeOK, NEW n \in Nodes, NEW ns \in Namespaces, Serializable(ns),
           NEW R, Publish(n, ns, R)
    PROVE  /\ version' = [version EXCEPT ![n] = version[n] + 1]
           /\ version' \in [Nodes -> Nat \ {0}]
           /\ unsaid' = unsaid \ {n} /\ unsaid' \subseteq Nodes
           /\ \A q \in Nodes : net'[q] \subseteq Message
           /\ \A q \in Nodes : \A m \in net'[q] :
                 m \in net[q] \/ (m.from = n /\ m.ns = Encoded(ns) /\ m.ver = version[n] + 1)
<1> DEFINE m == [from |-> n, ns |-> Encoded(ns), ver |-> version[n] + 1]
<1>1. m \in Message
  BY EncodedFacts DEF Message, TypeOK
<1>2. /\ version' = [version EXCEPT ![n] = version[n] + 1]
      /\ net' = [q \in Nodes |-> IF q \in R THEN net[q] \cup {m} ELSE net[q]]
      /\ unsaid' = unsaid \ {n}
  BY DEF Publish, NextVersion, Announcement
<1>3. version' \in [Nodes -> Nat \ {0}] /\ unsaid' \subseteq Nodes
  BY <1>2 DEF TypeOK
<1>4. \A q \in Nodes : net'[q] \subseteq Message
  BY <1>1, <1>2 DEF TypeOK
<1>5. \A q \in Nodes : \A x \in net'[q] : x \in net[q] \/ x = m
  BY <1>2
<1> QED BY <1>2, <1>3, <1>4, <1>5

\* An announcement of the namespace a node has from now on, under a version
\* above all others, keeps the versions in order.
LEMMA PublishVersions ==
    ASSUME IInv, NEW n \in Nodes, NEW ns \in Namespaces, Serializable(ns),
           NEW R, Publish(n, ns, R),
           local'[n] = ns, \A p \in Nodes : p # n => local'[p] = local[p],
           UNCHANGED <<remote, restarts>>
    PROVE  VersionsOK'
<1> USE DEF IInv
<1> SUFFICES ASSUME restarts = 0 PROVE VersionsOK'
  BY DEF VersionsOK
<1>1. /\ version' = [version EXCEPT ![n] = version[n] + 1] /\ unsaid' = unsaid \ {n}
      /\ \A q \in Nodes : \A m \in net'[q] :
            m \in net[q] \/ (m.from = n /\ m.ns = Encoded(ns) /\ m.ver = version[n] + 1)
  BY PublishFacts
<1>2. ASSUME NEW p \in Nodes, NEW ver \in Nat, NEW x, UpTo(p, ver, x)
      PROVE  UpTo(p, ver, x)'
  <2>1. CASE p = n
    BY <1>1, <1>2, <2>1 DEF UpTo, TypeOK
  <2>2. CASE p # n
    <3>1. version'[p] = version[p] /\ local'[p] = local[p] /\ (p \in unsaid' <=> p \in unsaid)
      BY <1>1, <2>2 DEF TypeOK
    <3> QED BY <1>2, <3>1 DEF UpTo, Encoded
  <2> QED BY <2>1, <2>2
<1>3. ASSUME NEW q \in Nodes, NEW p \in Nodes
      PROVE  UpTo(p, remote[q][p].ver, remote[q][p].ns)'
  <2>1. remote[q][p].ver \in Nat /\ UpTo(p, remote[q][p].ver, remote[q][p].ns)
    BY DEF VersionsOK, TypeOK
  <2>2. UpTo(p, remote[q][p].ver, remote[q][p].ns)' =
        (/\ remote[q][p].ver <= version'[p]
         /\ remote[q][p].ver = version'[p] /\ p \notin unsaid' =>
               remote[q][p].ns = Encoded(local'[p]))
    BY DEF UpTo, Encoded
  <2>3. CASE p = n
    BY <1>1, <2>1, <2>2, <2>3 DEF UpTo, TypeOK
  <2>4. CASE p # n
    <3>1. version'[p] = version[p] /\ local'[p] = local[p] /\ (p \in unsaid' <=> p \in unsaid)
      BY <1>1, <2>4 DEF TypeOK
    <3> QED BY <2>1, <2>2, <3>1 DEF UpTo
  <2> QED BY <2>3, <2>4
<1>4. ASSUME NEW q \in Nodes, NEW m \in net'[q] PROVE UpTo(m.from, m.ver, m.ns)'
  <2>1. CASE m \in net[q]
    <3>1. m.from \in Nodes /\ m.ver \in Nat /\ UpTo(m.from, m.ver, m.ns)
      BY <2>1 DEF VersionsOK, TypeOK, Message
    <3> QED BY <1>2, <3>1
  <2>2. CASE m.from = n /\ m.ns = Encoded(ns) /\ m.ver = version[n] + 1
    BY <1>1, <2>2 DEF UpTo, TypeOK, Encoded
  <2> QED BY <1>1, <2>1, <2>2
<1> QED BY <1>3, <1>4 DEF VersionsOK

\* A change that is not announced leaves the versions in order, as its node is
\* remembered.
LEMMA UnsaidVersions ==
    ASSUME IInv, NEW n \in Nodes, \A p \in Nodes : p # n => local'[p] = local[p],
           unsaid' = unsaid \cup {n}, UNCHANGED <<version, remote, net, restarts>>
    PROVE  VersionsOK'
<1> SUFFICES ASSUME restarts = 0 PROVE VersionsOK'
  BY DEF VersionsOK
<1>1. ASSUME NEW p \in Nodes, NEW ver, NEW x, UpTo(p, ver, x) PROVE UpTo(p, ver, x)'
  BY <1>1 DEF UpTo, Encoded
<1>2. ASSUME NEW q \in Nodes, NEW p \in Nodes
      PROVE  UpTo(p, remote[q][p].ver, remote[q][p].ns)'
  <2>1. UpTo(p, remote[q][p].ver, remote[q][p].ns)
    BY DEF IInv, VersionsOK
  <2> QED BY <2>1 DEF UpTo, Encoded
<1>3. ASSUME NEW q \in Nodes, NEW m \in net'[q] PROVE UpTo(m.from, m.ver, m.ns)'
  <2>1. m \in net[q] /\ m.from \in Nodes /\ UpTo(m.from, m.ver, m.ns)
    BY DEF IInv, VersionsOK, TypeOK, Message
  <2> QED BY <1>1, <2>1
<1> QED BY <1>2, <1>3 DEF VersionsOK

\* A change of one key, saved and announced or not, of which a callback is due or
\* is remembered as missing.
LEMMA AlterIInv ==
    ASSUME IInv, NEW n \in Nodes, NEW k \in Keys, NEW v \in Values \cup {Absent},
           Alter(n, k, v), Owner[k] = n \/ local[n][k] # Absent,
           \/ disk' = disk
           \/ Serializable(local'[n]) /\ disk' = [disk EXCEPT ![n] = Encoded(local'[n])],
           \/ \E R \in SUBSET Nodes : Serializable(local'[n]) /\ Publish(n, local'[n], R)
           \/ unsaid' = unsaid \cup {n} /\ UNCHANGED <<version, net>>,
           UNCHANGED <<refreshing, remote, arrived, told, restarts>>,
           calling' \in [Nodes -> Keys \cup {Nobody}], untold' \in [Nodes -> SUBSET Keys],
           faults' \in 0 .. MaxFault,
           Due(n, k)', \A q \in Nodes, j \in Keys : Due(q, j) => Due(q, j)'
    PROVE  IInv'
<1> USE DEF IInv
<1>10. [local[n] EXCEPT ![k] = v] \in Namespaces
  BY DEF TypeOK, Namespaces
<1>1. PICK ns \in Namespaces :
         /\ ns = [local[n] EXCEPT ![k] = v] /\ local' = [local EXCEPT ![n] = ns]
         /\ local'[n] = ns
  BY <1>10 DEF Alter, With, TypeOK
<1>2. \A p \in Nodes : p # n => local'[p] = local[p]
  BY <1>1 DEF TypeOK
<1>3. \A p \in Nodes : \/ disk'[p] = disk[p]
                       \/ p = n /\ Serializable(ns) /\ disk'[p] = Encoded(ns)
  <2>1. CASE Serializable(ns) /\ disk' = [disk EXCEPT ![n] = Encoded(ns)]
    <3> QED BY <2>1 DEF TypeOK
  <2> QED BY <1>1, <2>1
<1>4. disk' \in [Nodes -> Namespaces] /\ DiskOK'
  <2>1. Serializable(ns) => Encoded(ns) \in Namespaces /\ Serializable(Encoded(ns))
    BY <1>1, EncodedFacts
  <2>2. ASSUME NEW p \in Nodes PROVE disk'[p] \in Namespaces /\ Serializable(disk'[p])
    <3>1. disk[p] \in Namespaces /\ Serializable(disk[p])
      BY DEF TypeOK, DiskOK
    <3> QED BY <1>3, <2>1, <3>1
  <2>3. disk' = [p \in Nodes |-> disk'[p]]
    BY DEF TypeOK
  <2> QED BY <2>2, <2>3 DEF DiskOK, Serializable
<1>5. /\ version' \in [Nodes -> Nat \ {0}] /\ unsaid' \subseteq Nodes
      /\ \A q \in Nodes : net'[q] \subseteq Message
      /\ \A q \in Nodes : \A m \in net'[q] :
            m \in net[q] \/ (m.from = n /\ Serializable(ns) /\ m.ns = Encoded(ns))
      /\ VersionsOK'
  <2>1. ASSUME NEW R \in SUBSET Nodes, Serializable(local'[n]), Publish(n, local'[n], R)
        PROVE  <1>5
    BY <1>1, <1>2, <2>1, PublishFacts, PublishVersions
  <2>2. CASE unsaid' = unsaid \cup {n} /\ UNCHANGED <<version, net>>
    <3>1. VersionsOK'
      BY <1>2, <2>2, UnsaidVersions
    <3> QED BY <2>2, <3>1 DEF TypeOK
  <2> QED BY <2>1, <2>2
<1>6. TypeOK'
  <2>1. local' \in [Nodes -> Namespaces]
    BY <1>1 DEF TypeOK
  <2>2. calls' \in 0 .. MaxCall
    BY DEF Alter, TypeOK
  <2> QED BY <1>4, <1>5, <2>1, <2>2 DEF TypeOK
<1>7. Owned(ns, n) /\ (Serializable(ns) => Owned(Encoded(ns), n))
  <2>1. Owned(ns, n)
    BY <1>1 DEF OwnersOnly, Owned, TypeOK, Namespaces
  <2> QED BY <1>1, <2>1, EncodedFacts DEF Owned
<1>8. OwnersOnly'
  <2>1. ASSUME NEW p \in Nodes PROVE Owned(local'[p], p) /\ Owned(disk'[p], p)
    <3>1. Owned(local[p], p) /\ Owned(disk[p], p)
      BY DEF OwnersOnly
    <3> QED BY <1>1, <1>2, <1>3, <1>7, <3>1
  <2>2. ASSUME NEW q \in Nodes, NEW m \in net'[q] PROVE Owned(m.ns, m.from)
    <3>1. m \in net[q] => Owned(m.ns, m.from)
      BY DEF OwnersOnly
    <3> QED BY <1>5, <1>7, <3>1
  <2>3. \A p \in Nodes, q \in Nodes : Owned(remote'[q][p].ns, p)
    BY DEF OwnersOnly
  <2> QED BY <2>1, <2>2, <2>3 DEF OwnersOnly, Owned
<1>9. ToldOK'
  <2> SUFFICES ASSUME NEW q \in Nodes, NEW j \in Keys, Get(q, j)' # Absent, ~Due(q, j)'
               PROVE  told'[q][j] = Get(q, j)'
    BY DEF ToldOK
  <2>1. ~(q = n /\ j = k) /\ ~Due(q, j)
    OBVIOUS
  <2>2. local'[q][j] = local[q][j]
    BY <1>1, <2>1 DEF TypeOK, Namespaces
  <2>3. Get(q, j)' = Get(q, j)
    BY <1>6, <1>8, <2>2, GetKept
  <2> QED BY <2>1, <2>3 DEF ToldOK
<1> QED BY <1>4, <1>5, <1>6, <1>8, <1>9

\* What set and delete do, with and without failures.
LEMMA ChangeIInv ==
    ASSUME IInv, NEW n \in Nodes, NEW k \in Keys, NEW v \in Values \cup {Absent},
           Owner[k] = n \/ local[n][k] # Absent,
           Change(n, k, v) \/ ChangeUnsaved(n, k, v) \/ ChangeUnsent(n, k, v)
    PROVE  IInv'
<1> USE DEF IInv
<1>1. CASE Change(n, k, v)
  <2>1. calling' = [calling EXCEPT ![n] = k] /\ calling[n] = Nobody /\ untold' = untold
    BY <1>1 DEF Change, Alter
  <2>2. Due(n, k)' /\ \A q \in Nodes, j \in Keys : Due(q, j) => Due(q, j)'
    BY <1>1, <2>1 DEF Due, TypeOK, Change
  <2>3. /\ calling' \in [Nodes -> Keys \cup {Nobody}] /\ untold' \in [Nodes -> SUBSET Keys]
        /\ faults' \in 0 .. MaxFault
    BY <1>1, <2>1 DEF Change, TypeOK
  <2> QED BY <1>1, <2>2, <2>3, AlterIInv DEF Change
<1>2. CASE ChangeUnsaved(n, k, v) \/ ChangeUnsent(n, k, v)
  <2>1. untold' = [untold EXCEPT ![n] = @ \cup {k}] /\ UNCHANGED <<calling, arrived>>
    BY <1>2 DEF ChangeUnsaved, ChangeUnsent
  <2>2. Due(n, k)' /\ \A q \in Nodes, j \in Keys : Due(q, j) => Due(q, j)'
    BY <2>1 DEF Due, TypeOK
  <2>3. calling' \in [Nodes -> Keys \cup {Nobody}] /\ untold' \in [Nodes -> SUBSET Keys]
    BY <2>1 DEF TypeOK
  <2>4. faults' \in 0 .. MaxFault
    BY <1>2 DEF ChangeUnsaved, ChangeUnsent, PublishRaises, Fault, TypeOK
  <2>5. CASE ChangeUnsaved(n, k, v)
    BY <2>2, <2>3, <2>4, <2>5, AlterIInv DEF ChangeUnsaved
  <2>6. CASE ChangeUnsent(n, k, v)
    <3>1. \E R \in SUBSET Nodes : Serializable(local'[n]) /\ Publish(n, local'[n], R)
      BY <2>6 DEF ChangeUnsent, PublishRaises
    <3> QED BY <2>2, <2>3, <2>4, <2>6, <3>1, AlterIInv DEF ChangeUnsent
  <2> QED BY <1>2, <2>5, <2>6
<1> QED BY <1>1, <1>2

\* A step after which no less is due, and that leaves the stores and what the
\* hooks were told as they are.
LEMMA QuietIInv ==
    ASSUME IInv, UNCHANGED <<local, disk, version, unsaid, remote, told>>, TypeOK',
           \A q \in Nodes : net'[q] \subseteq net[q], UNCHANGED restarts,
           \A q \in Nodes, j \in Keys : Due(q, j) => Due(q, j)'
    PROVE  IInv'
<1> USE DEF IInv
<1>1. OwnersOnly' /\ VersionsOK' /\ DiskOK'
  BY DEF OwnersOnly, Owned, VersionsOK, UpTo, Encoded, DiskOK, Serializable
<1>2. \A q \in Nodes, j \in Keys : Get(q, j)' = Get(q, j)
  BY <1>1, GetKept
<1> QED BY <1>1, <1>2 DEF ToldOK

\* An announcement by the refresh thread, which may be its last.
LEMMA AnnounceIInv ==
    ASSUME IInv, NEW n \in Nodes, Serializable(local[n]), NEW R, Publish(n, local[n], R),
           UNCHANGED <<local, disk, remote, calling, arrived, told, untold, calls, restarts>>,
           refreshing' \subseteq Nodes, faults' \in 0 .. MaxFault
    PROVE  IInv'
<1> USE DEF IInv
<1>1. local[n] \in Namespaces
  BY DEF TypeOK
<1>2. TypeOK'
  BY <1>1, PublishFacts DEF TypeOK
<1>3. Owned(Encoded(local[n]), n)
  BY <1>1, EncodedFacts DEF OwnersOnly, Owned
<1>4. OwnersOnly' /\ DiskOK'
  <2>1. \A q \in Nodes : \A m \in net'[q] : Owned(m.ns, m.from)
    BY <1>1, <1>3, PublishFacts DEF OwnersOnly
  <2>2. OwnersOnly'
    BY <2>1 DEF OwnersOnly, Owned
  <2> QED BY <2>2 DEF DiskOK, Serializable
<1>5. VersionsOK'
  BY <1>1, PublishVersions
<1>6. ToldOK'
  <2>1. \A q \in Nodes, j \in Keys : Get(q, j)' = Get(q, j)
    BY <1>2, <1>4, GetKept
  <2> QED BY <2>1 DEF ToldOK, Due
<1> QED BY <1>2, <1>4, <1>5, <1>6

\* The refresh thread.
LEMMA RefresherIInv == ASSUME IInv, NEW n \in Nodes, Refresher(n) PROVE IInv'
<1>1. CASE Refresh(n)
  <2>1. refreshing' \subseteq Nodes /\ faults' \in 0 .. MaxFault
    BY <1>1 DEF Refresh, IInv, TypeOK, boundVars
  <2> QED BY <1>1, <2>1, AnnounceIInv DEF Refresh, noticeVars, boundVars
<1>2. CASE RefreshRaises(n)
  <2>1. refreshing' \subseteq Nodes /\ faults' \in 0 .. MaxFault
    BY <1>2 DEF RefreshRaises, PublishRaises, Fault, IInv, TypeOK
  <2>2. CASE ~Serializable(local[n]) /\ UNCHANGED <<version, net, unsaid, faults>>
    <3>1. TypeOK'
      BY <1>2, <2>1, <2>2 DEF RefreshRaises, noticeVars, IInv, TypeOK
    <3> QED BY <1>2, <2>2, <3>1, QuietIInv DEF RefreshRaises, noticeVars, Due
  <2>3. ASSUME NEW R, Serializable(local[n]), Publish(n, local[n], R) PROVE IInv'
    BY <1>2, <2>1, <2>3, AnnounceIInv DEF RefreshRaises, noticeVars
  <2> QED BY <1>2, <2>2, <2>3 DEF RefreshRaises, PublishRaises
<1> QED BY <1>1, <1>2 DEF Refresher

\* A process that starts again reads nothing but the namespace it saved.
LEMMA RestartIInv == ASSUME IInv, NEW n \in Nodes, Restart(n) PROVE IInv'
<1> USE DEF IInv
<1> DEFINE m == [from |-> n, ns |-> Encoded(disk[n]), ver |-> 1]
<1>1. /\ remote' = [remote EXCEPT ![n] = [p \in Nodes |-> [ns |-> Empty, ver |-> 0]]]
      /\ version' = [version EXCEPT ![n] = 1]
      /\ local' = [local EXCEPT ![n] = disk[n]] /\ disk' = disk
      /\ net' = [q \in Nodes |-> IF q = n THEN {m} ELSE net[q] \cup {m}]
      /\ refreshing' = refreshing \cup {n} /\ unsaid' = unsaid \ {n}
      /\ calling' = [calling EXCEPT ![n] = Nobody]
      /\ arrived' = [arrived EXCEPT ![n] = {}] /\ untold' = [untold EXCEPT ![n] = {}]
      /\ told' = [told EXCEPT ![n] = disk[n]]
      /\ restarts' = restarts + 1 /\ restarts < MaxRestart /\ UNCHANGED <<calls, faults>>
  BY DEF Restart, NextVersion, NoView, Announcement
<1>2. /\ disk[n] \in Namespaces /\ Serializable(disk[n])
      /\ Empty \in Namespaces /\ m \in Message
  <2>1. disk[n] \in Namespaces /\ Serializable(disk[n])
    BY DEF TypeOK, DiskOK
  <2> QED BY <2>1, EncodedFacts DEF Empty, Namespaces, Message
<1>3. TypeOK'
  <2>1. remote' \in [Nodes -> [Nodes -> [ns : Namespaces, ver : Nat]]]
    BY <1>1, <1>2 DEF TypeOK
  <2>2. \A q \in Nodes : net'[q] \subseteq Message
    BY <1>1, <1>2 DEF TypeOK
  <2>3. version' \in [Nodes -> Nat \ {0}] /\ restarts' \in 0 .. MaxRestart
    BY <1>1 DEF TypeOK
  <2>4. /\ calling' \in [Nodes -> Keys \cup {Nobody}] /\ arrived' \in [Nodes -> SUBSET Keys]
        /\ untold' \in [Nodes -> SUBSET Keys]
    BY <1>1 DEF TypeOK
  <2>5. told' \in [Nodes -> Namespaces] /\ local' \in [Nodes -> Namespaces]
    BY <1>1, <1>2 DEF TypeOK
  <2>6. refreshing' \subseteq Nodes /\ unsaid' \subseteq Nodes
    BY <1>1 DEF TypeOK
  <2> QED BY <1>1, <2>1, <2>2, <2>3, <2>4, <2>5, <2>6 DEF TypeOK
<1>4. OwnersOnly' /\ DiskOK'
  <2>1. \A p \in Nodes, q \in Nodes : Owned(remote'[q][p].ns, p)
    BY <1>1 DEF OwnersOnly, Owned, Empty, TypeOK
  <2>2. Owned(m.ns, m.from)
    BY <1>2, EncodedFacts DEF OwnersOnly, Owned
  <2>3. ASSUME NEW q \in Nodes, NEW x \in net'[q] PROVE Owned(x.ns, x.from)
    <3>1. x \in net[q] => Owned(x.ns, x.from)
      BY DEF OwnersOnly
    <3>2. x \in net[q] \/ x = m
      BY <1>1
    <3> QED BY <2>2, <3>1, <3>2
  <2>4. ASSUME NEW p \in Nodes PROVE Owned(local'[p], p) /\ Owned(disk'[p], p)
    <3>1. local'[p] \in {local[p], disk[p]} /\ disk'[p] = disk[p]
      BY <1>1 DEF TypeOK
    <3> QED BY <3>1 DEF OwnersOnly
  <2>5. DiskOK'
    BY <1>1 DEF DiskOK, Serializable
  <2> QED BY <2>1, <2>3, <2>4, <2>5 DEF OwnersOnly
<1>5. VersionsOK'
  BY <1>1 DEF VersionsOK, TypeOK
<1>6. ToldOK'
  <2> SUFFICES ASSUME NEW q \in Nodes, NEW j \in Keys, Get(q, j)' # Absent, ~Due(q, j)'
               PROVE  told'[q][j] = Get(q, j)'
    BY DEF ToldOK
  <2>1. CASE q = n
    <3>1. remote'[n][Owner[j]].ns[j] = Absent /\ local'[n] = disk[n]
      BY <1>1 DEF TypeOK, Empty
    <3>2. (TypeOK /\ OwnersOnly => GetByOwner)'
      BY GetOwned, PTL
    <3>3. Get(n, j)' \in {disk[n][j], Absent}
      BY <1>3, <1>4, <3>1, <3>2 DEF GetByOwner
    <3> QED BY <1>1, <2>1, <3>3 DEF TypeOK
  <2>2. CASE q # n
    <3>1. local'[q] = local[q] /\ remote'[q] = remote[q]
      BY <1>1, <2>2 DEF TypeOK
    <3>2. Get(q, j)' = Get(q, j)
      BY <1>3, <1>4, <3>1, GetKept
    <3> QED BY <1>1, <2>2, <3>2 DEF ToldOK, Due, TypeOK
  <2> QED BY <2>1, <2>2
<1> QED BY <1>3, <1>4, <1>5, <1>6

\* What happens to announcements of one version and two lives.
LEMMA ConfusedIInv ==
    ASSUME IInv, NEW n \in Nodes, NEW m \in net[n], NEW o \in net[n],
           Mix(n, m, o) \/ Garble(n, m, o)
    PROVE  IInv'
<1> USE DEF IInv
<1>1. /\ m \in Message /\ o \in Message /\ m.from = o.from /\ restarts > 0
      /\ Owned(m.ns, m.from) /\ Owned(o.ns, o.from)
      /\ UNCHANGED <<local, disk, version, refreshing, unsaid, calling, arrived, told,
                     untold, calls, restarts, faults>>
  BY DEF Mix, Garble, Confused, TypeOK, OwnersOnly, ownVars, noticeVars, boundVars
<1>2. VersionsOK' /\ DiskOK'
  BY <1>1 DEF VersionsOK, DiskOK, Serializable, TypeOK
<1>3. CASE Mix(n, m, o)
  <2>1. PICK K \in SUBSET Keys :
           net' = [net EXCEPT ![n] = (@ \ {m, o}) \cup
                     {[m EXCEPT !.ns = [k \in Keys |-> IF k \in K THEN m.ns[k] ELSE o.ns[k]]]}]
    BY <1>3 DEF Mix
  <2> DEFINE x == [m EXCEPT !.ns = [k \in Keys |-> IF k \in K THEN m.ns[k] ELSE o.ns[k]]]
  <2>2. x \in Message /\ Owned(x.ns, x.from)
    BY <1>1 DEF Message, Namespaces, Owned
  <2>8. remote' = remote /\ net' = [net EXCEPT ![n] = (net[n] \ {m, o}) \cup {x}]
    BY <1>3, <2>1 DEF Mix
  <2> HIDE DEF x
  <2>3. /\ remote' = remote
        /\ \A q \in Nodes : net'[q] \subseteq net[q] \cup {x}
    BY <2>8 DEF TypeOK
  <2>4. TypeOK'
    BY <1>1, <2>2, <2>3 DEF TypeOK
  <2>5. OwnersOnly'
    <3>1. \A q \in Nodes : \A y \in net'[q] : Owned(y.ns, y.from)
      BY <2>2, <2>3 DEF OwnersOnly
    <3> QED BY <1>1, <2>3, <3>1 DEF OwnersOnly, Owned
  <2>6. ToldOK'
    <3>1. \A q \in Nodes, j \in Keys : Get(q, j)' = Get(q, j)
      BY <1>1, <2>3, <2>4, <2>5, GetKept
    <3> QED BY <1>1, <3>1 DEF ToldOK, Due
  <2> QED BY <1>2, <2>4, <2>5, <2>6
<1>4. CASE Garble(n, m, o)
  <2>1. net' = [net EXCEPT ![n] = @ \ {m, o}]
    BY <1>4 DEF Garble
  <2>2. /\ remote' \in [Nodes -> [Nodes -> [ns : Namespaces, ver : Nat]]]
        /\ \A q \in Nodes, p \in Nodes : remote'[q][p].ns = remote[q][p].ns
    <3>1. m.from \in Nodes /\ m.ver \in Nat
      BY <1>1 DEF Message
    <3>2. CASE remote' = remote
      BY <3>2 DEF TypeOK
    <3>3. CASE remote' = [remote EXCEPT ![n][m.from] =
                             [ns |-> remote[n][m.from].ns, ver |-> m.ver]]
      BY <3>1, <3>3 DEF TypeOK
    <3> QED BY <1>4, <3>2, <3>3 DEF Garble
  <2>3. \A q \in Nodes : net'[q] \subseteq net[q]
    BY <2>1 DEF TypeOK
  <2>4. TypeOK'
    BY <1>1, <2>2, <2>3 DEF TypeOK
  <2>5. OwnersOnly'
    <3>1. \A q \in Nodes : \A y \in net'[q] : Owned(y.ns, y.from)
      BY <2>3 DEF OwnersOnly
    <3>2. \A q \in Nodes, p \in Nodes : Owned(remote'[q][p].ns, p)
      BY <2>2 DEF OwnersOnly
    <3> QED BY <1>1, <3>1, <3>2 DEF OwnersOnly, Owned
  <2>6. ToldOK'
    <3>1. \A q \in Nodes, j \in Keys : Get(q, j)' = Get(q, j)
      BY <1>1, <2>2, <2>4, <2>5, GetKept
    <3> QED BY <1>1, <3>1 DEF ToldOK, Due
  <2> QED BY <1>2, <2>4, <2>5, <2>6
<1> QED BY <1>3, <1>4

\* An announcement arrives: nothing but its sender's namespace changes, and the
\* keys of it that have a value are to be told.
LEMMA ReceiveIInv ==
    ASSUME IInv, NEW n \in Nodes, NEW m \in net[n], Receive(n, m)
    PROVE  IInv'
<1> USE DEF IInv
<1>1. /\ net' = [net EXCEPT ![n] = @ \ {m}] /\ arrived[n] = {}
      /\ UNCHANGED <<local, disk, version, refreshing, unsaid, calling, told, untold, calls,
                     restarts, faults>>
  BY DEF Receive, ownVars, boundVars
<1>2. m \in Message /\ m.from \in Nodes /\ m.ns \in Namespaces /\ m.ver \in Nat
  BY DEF TypeOK, Message
<1>3. \A q \in Nodes : net'[q] \subseteq net[q]
  BY <1>1 DEF TypeOK
<1>4. CASE ~Newer(n, m)
  <2>1. remote' = remote /\ arrived' = arrived
    BY <1>4 DEF Receive
  <2>2. TypeOK'
    BY <1>1, <1>3, <2>1 DEF TypeOK
  <2> QED BY <1>1, <1>3, <2>1, <2>2, QuietIInv DEF Due
<1>5. CASE Newer(n, m)
  <2>1. /\ remote' = [remote EXCEPT ![n][m.from] = [ns |-> m.ns, ver |-> m.ver]]
        /\ arrived' = [arrived EXCEPT ![n] = Announced(n, m)]
    BY <1>5 DEF Receive
  <2>2. /\ remote' \in [Nodes -> [Nodes -> [ns : Namespaces, ver : Nat]]]
        /\ remote'[n][m.from] = [ns |-> m.ns, ver |-> m.ver]
        /\ \A q \in Nodes, p \in Nodes :
              q # n \/ p # m.from => remote'[q][p] = remote[q][p]
    BY <1>2, <2>1 DEF TypeOK
  <2>3. TypeOK'
    <3>1. arrived' \in [Nodes -> SUBSET Keys]
      BY <2>1 DEF TypeOK, Announced
    <3> QED BY <1>1, <1>3, <2>2, <3>1 DEF TypeOK
  <2>4. OwnersOnly'
    <3>1. ASSUME NEW p \in Nodes, NEW q \in Nodes
          PROVE  Owned(remote'[q][p].ns, p)
      <4>1. CASE q = n /\ p = m.from
        <5>1. Owned(m.ns, m.from)
          BY DEF OwnersOnly
        <5>2. remote'[q][p].ns = m.ns
          BY <2>2, <4>1
        <5> QED BY <4>1, <5>1, <5>2
      <4>2. CASE q # n \/ p # m.from
        <5>1. remote'[q][p] = remote[q][p]
          BY <2>2, <4>2
        <5>2. Owned(remote[q][p].ns, p)
          BY DEF OwnersOnly
        <5> QED BY <5>1, <5>2
      <4> QED BY <4>1, <4>2
    <3>2. \A q \in Nodes : \A x \in net'[q] : Owned(x.ns, x.from)
      BY <1>3 DEF OwnersOnly
    <3>3. \A p \in Nodes : Owned(local'[p], p) /\ Owned(disk'[p], p)
      BY <1>1 DEF OwnersOnly
    <3> HIDE DEF IInv
    <3> QED BY <3>1, <3>2, <3>3 DEF OwnersOnly, Owned
  <2>5. VersionsOK'
    <3> SUFFICES ASSUME restarts = 0, NEW q \in Nodes, NEW p \in Nodes
                 PROVE  /\ UpTo(p, remote[q][p].ver, remote[q][p].ns)'
                        /\ \A x \in net'[q] : UpTo(x.from, x.ver, x.ns)'
      BY <1>1 DEF VersionsOK
    <3>1. UpTo(p, remote[q][p].ver, remote[q][p].ns)'
      <4>1. CASE q = n /\ p = m.from
        <5>1. UpTo(m.from, m.ver, m.ns)
          BY DEF VersionsOK
        <5>2. remote'[q][p].ver = m.ver /\ remote'[q][p].ns = m.ns
          BY <2>2, <4>1
        <5> QED BY <1>1, <4>1, <5>1, <5>2 DEF UpTo, Encoded
      <4>2. CASE q # n \/ p # m.from
        <5>1. remote'[q][p] = remote[q][p]
          BY <2>2, <4>2
        <5>2. UpTo(p, remote[q][p].ver, remote[q][p].ns)
          BY DEF VersionsOK
        <5> QED BY <1>1, <5>1, <5>2 DEF UpTo, Encoded
      <4> QED BY <4>1, <4>2
    <3>2. ASSUME NEW x \in net'[q] PROVE UpTo(x.from, x.ver, x.ns)'
      <4>1. UpTo(x.from, x.ver, x.ns)
        BY <1>3 DEF VersionsOK
      <4> QED BY <1>1, <4>1 DEF UpTo, Encoded
    <3> QED BY <3>1, <3>2
  <2>6. ToldOK'
    <3> SUFFICES ASSUME NEW q \in Nodes, NEW j \in Keys, Get(q, j)' # Absent, ~Due(q, j)'
                 PROVE  told'[q][j] = Get(q, j)'
      BY DEF ToldOK
    <3>1. CASE q = n /\ m.from = Owner[j]
      <4>1. m.ns[j] = Absent
        BY <2>1, <3>1 DEF Due, Announced, TypeOK
      <4>2. (TypeOK /\ OwnersOnly => GetByOwner)'
        BY GetOwned, PTL
      <4>3. local[n][j] # Absent /\ Get(n, j)' = local[n][j]
        BY <1>1, <2>2, <2>3, <2>4, <3>1, <4>1, <4>2 DEF GetByOwner
      <4>4. Get(n, j) = local[n][j]
        BY <4>3, GetOwned DEF GetByOwner
      <4>5. ~Due(n, j)
        BY <1>1, <3>1 DEF Due
      <4> QED BY <1>1, <3>1, <4>3, <4>4, <4>5 DEF ToldOK
    <3>2. CASE ~(q = n /\ m.from = Owner[j])
      <4>1. remote'[q][Owner[j]] = remote[q][Owner[j]]
        BY <2>2, <3>2
      <4>3. Get(q, j)' = Get(q, j)
        BY <1>1, <2>3, <2>4, <4>1, GetKept
      <4>2. ~Due(q, j)
        BY <1>1, <2>1 DEF Due, TypeOK
      <4> QED BY <1>1, <4>2, <4>3 DEF ToldOK
    <3> QED BY <3>1, <3>2
  <2>7. DiskOK'
    BY <1>1 DEF DiskOK, Serializable
  <2> QED BY <2>3, <2>4, <2>5, <2>6, <2>7
<1> QED BY <1>4, <1>5

\* A callback is told the view of its key.
LEMMA NotifyIInv ==
    ASSUME IInv, NEW n \in Nodes, NEW k \in Keys, Tell(n, k),
           UNCHANGED <<ownVars, remote, net, boundVars>>,
           calling' \in [Nodes -> Keys \cup {Nobody}], arrived' \in [Nodes -> SUBSET Keys],
           \A q \in Nodes, j \in Keys : Due(q, j) => Due(q, j)' \/ (q = n /\ j = k)
    PROVE  IInv'
<1> USE DEF IInv, ownVars, boundVars
<1>1. Get(n, k) \in Values \cup {Absent}
  <2>1. local[n][k] \in Values \cup {Absent}
    BY DEF TypeOK, Namespaces
  <2>2. remote[n][Owner[k]].ns[k] \in Values \cup {Absent}
    BY ConstantsAssumption DEF TypeOK, Namespaces
  <2>3. Get(n, k) \in {local[n][k], remote[n][Owner[k]].ns[k]}
    BY GetOwned DEF GetByOwner
  <2> QED BY <2>1, <2>2, <2>3
<1>2. TypeOK'
  <2>1. told' \in [Nodes -> Namespaces]
    BY <1>1 DEF Tell, TypeOK, Namespaces
  <2>2. untold' \in [Nodes -> SUBSET Keys]
    BY DEF Tell, TypeOK
  <2> QED BY <2>1, <2>2 DEF TypeOK
<1>3. OwnersOnly' /\ VersionsOK' /\ DiskOK'
  BY DEF OwnersOnly, Owned, VersionsOK, UpTo, Encoded, DiskOK, Serializable
<1>4. ToldOK'
  <2> SUFFICES ASSUME NEW q \in Nodes, NEW j \in Keys, Get(q, j)' # Absent, ~Due(q, j)'
               PROVE  told'[q][j] = Get(q, j)'
    BY DEF ToldOK
  <2>1. Get(q, j)' = Get(q, j)
    BY <1>2, <1>3, GetKept
  <2>2. CASE q = n /\ j = k
    BY <2>1, <2>2 DEF Tell, TypeOK, Namespaces
  <2>3. CASE ~(q = n /\ j = k)
    <3>1. told'[q][j] = told[q][j]
      BY <2>3 DEF Tell, TypeOK, Namespaces
    <3> QED BY <2>1, <2>3, <3>1 DEF ToldOK
  <2> QED BY <2>2, <2>3
<1> QED BY <1>2, <1>3, <1>4

-----------------------------------------------------------------------------

\* Every step preserves the invariant.
LEMMA NextIInv == ASSUME IInv, [Next]_vars PROVE IInv'
<1>1. ASSUME NEW n \in Nodes, Caller(n) PROVE IInv'
  <2>1. ASSUME NEW k \in Keys, NEW v \in Values, Set(n, k, v) PROVE IInv'
    BY <2>1, ChangeIInv DEF Set
  <2>2. ASSUME NEW k \in Keys, Delete(n, k) PROVE IInv'
    BY <2>2, ChangeIInv DEF Delete
  <2>3. ASSUME NEW k \in Keys, DeleteMissing(n, k) PROVE IInv'
    <3> USE <2>3 DEF DeleteMissing, ownVars
    <3>1. calling' = [calling EXCEPT ![n] = k] /\ calling[n] = Nobody
      OBVIOUS
    <3>2. TypeOK'
      BY <3>1 DEF IInv, TypeOK
    <3>3. \A q \in Nodes, j \in Keys : Due(q, j) => Due(q, j)'
      BY <3>1 DEF Due, IInv, TypeOK
    <3> QED BY <3>2, <3>3, QuietIInv
  <2> QED BY <1>1, <2>1, <2>2, <2>3 DEF Caller
<1>2. ASSUME NEW n \in Nodes, NotifyChange(n) PROVE IInv'
  <2>1. /\ calling[n] \in Keys /\ calling' = [calling EXCEPT ![n] = Nobody] /\ arrived' = arrived
         /\ untold' = [untold EXCEPT ![n] = @ \ {calling[n]}]
    BY <1>2 DEF Tell, NotifyChange, IInv, TypeOK
  <2>2. \A q \in Nodes, j \in Keys : Due(q, j) => Due(q, j)' \/ (q = n /\ j = calling[n])
    BY <2>1 DEF Due, IInv, TypeOK
  <2>3. calling' \in [Nodes -> Keys \cup {Nobody}] /\ arrived' \in [Nodes -> SUBSET Keys]
    BY <2>1 DEF IInv, TypeOK
  <2> QED BY <1>2, <2>1, <2>2, <2>3, NotifyIInv DEF NotifyChange
<1>3. ASSUME NEW n \in Nodes, NEW k \in Keys, NotifyArrived(n, k) PROVE IInv'
  <2>1. /\ arrived' = [arrived EXCEPT ![n] = @ \ {k}] /\ calling' = calling
        /\ untold' = [untold EXCEPT ![n] = @ \ {k}]
    BY <1>3 DEF NotifyArrived, Tell
  <2>2. \A q \in Nodes, j \in Keys : Due(q, j) => Due(q, j)' \/ (q = n /\ j = k)
    BY <2>1 DEF Due, IInv, TypeOK
  <2>3. calling' \in [Nodes -> Keys \cup {Nobody}] /\ arrived' \in [Nodes -> SUBSET Keys]
    BY <2>1 DEF IInv, TypeOK
  <2> QED BY <1>3, <2>2, <2>3, NotifyIInv DEF NotifyArrived
<1>4. ASSUME NEW n \in Nodes, NEW m \in net[n], Lose(n, m) PROVE IInv'
  <2> USE <1>4 DEF Lose, Fault, noticeVars
  <2>1. \A q \in Nodes : net'[q] \subseteq net[q]
    BY DEF IInv, TypeOK
  <2>2. TypeOK'
    BY <2>1 DEF IInv, TypeOK, ownVars
  <2>3. \A q \in Nodes, j \in Keys : Due(q, j) => Due(q, j)'
    BY DEF Due
  <2> QED BY <2>1, <2>2, <2>3, QuietIInv DEF ownVars
<1>5. CASE UNCHANGED vars
  <2> USE <1>5 DEF vars, ownVars, noticeVars, boundVars
  <2>1. TypeOK'
    BY DEF IInv, TypeOK
  <2>2. \A q \in Nodes, j \in Keys : Due(q, j) => Due(q, j)'
    BY DEF Due
  <2> QED BY <2>1, <2>2, QuietIInv
<1>6. ASSUME NEW n \in Nodes, Network(n) PROVE IInv'
  BY <1>4, <1>6, ConfusedIInv DEF Network
<1> QED
  BY <1>1, <1>2, <1>3, <1>5, <1>6, RefresherIInv, RestartIInv, ReceiveIInv DEF Next, Receiver

\* Announcements, views and callbacks stay within the invariant.
THEOREM Invariance == Spec => []IInv
<1>1. IInv /\ [Next]_vars => IInv'
  BY NextIInv
<1> QED BY <1>1, InitIInv, PTL DEF Spec

\* Every variable keeps its type.
THEOREM TypeCorrect == Spec => []TypeOK
<1>1. IInv => TypeOK
  BY DEF IInv
<1> QED BY <1>1, Invariance, PTL

\* While no store restarts, the latest version of a namespace announced is the
\* namespace as it is, however many changes, refreshes and losses there were and
\* whichever of them failed, but for a change that was not saved and is not
\* announced yet.
THEOREM LatestWins == Spec => []LatestIsCurrent
<1>1. IInv => LatestIsCurrent
  BY DEF IInv, VersionsOK, UpTo, LatestIsCurrent
<1> QED BY <1>1, Invariance, PTL

\* When no callback is due, the hook was told every value of the merged view, in
\* whatever order changes, announcements and callbacks of two threads came, but
\* for the keys of calls that raised.
THEOREM HooksAreTold == Spec => []HookUpToDate
<1>1. IInv => HookUpToDate
  BY DEF IInv, ToldOK, Due, HookUpToDate
<1> QED BY <1>1, Invariance, PTL
=============================================================================
