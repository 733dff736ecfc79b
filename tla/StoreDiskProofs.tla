-------------------------- MODULE StoreDiskProofs --------------------------
(***************************************************************************)
(* The persistence of softstate.Store, for every set of keys and values and *)
(* every bound on the faults: type correctness, SavedIsDurable, BackupUsed, *)
(* and the refinement of DurableStore until a file rots.                    *)
(***************************************************************************)
EXTENDS StoreDisk, TLAPS

USE JsonAssumption, FileAssumption, BoundAssumption

\* The JSON form of a namespace is a namespace, and is its own JSON form.
LEMMA EncodedType ==
    ASSUME NEW ns \in Namespaces, Serializable(ns)
    PROVE  Encoded(ns) \in Namespaces /\ Canonical(Encoded(ns))
<1> DEFINE e == Encoded(ns)
<1>1. \A k \in Keys : ns[k] = Absent \/ (ns[k] \in Values /\ Json[ns[k]] # NoJson)
  BY DEF Namespaces, Serializable
<1>2. e \in Namespaces
  BY <1>1 DEF Namespaces, Encoded
<1>3. \A k \in Keys : (IF e[k] = Absent THEN Absent ELSE Json[e[k]]) = e[k]
  BY <1>1 DEF Encoded
<1>4. Encoded(e) = [k \in Keys |-> e[k]]
  BY <1>3 DEF Encoded
<1>5. e = [k \in Keys |-> e[k]]
  BY DEF Encoded
<1> QED BY <1>2, <1>4, <1>5 DEF Canonical

\* The namespace without keys is its own JSON form.
LEMMA EmptyType == Empty \in Namespaces /\ Canonical(Empty)
BY DEF Empty, Namespaces, Canonical, Encoded

\* set and delete make a namespace of a namespace.
LEMMA ChangeType ==
    ASSUME NEW ns \in Namespaces, NEW k \in Keys
    PROVE  /\ Without(ns, k) \in Namespaces
           /\ \A v \in Values : With(ns, k, v) \in Namespaces
BY DEF Namespaces, With, Without

\* What a restart loads is a namespace in JSON form.
LEMMA RecoverType ==
    ASSUME TypeOK, FilesOK
    PROVE  Recover(path, bak) \in Namespaces /\ Canonical(Recover(path, bak))
BY EmptyType DEF TypeOK, FilesOK, Recover, Good, FileStates

\* The store starts in a state of IInv.
LEMMA InitIInv == Init => IInv
<1> SUFFICES ASSUME Init PROVE IInv
  OBVIOUS
<1>1. TypeOK
  <2>1. crashes \in 0 .. MaxCrash /\ rots \in 0 .. MaxRot /\ ioErrors \in 0 .. MaxIOError
    BY DEF Init
  <2>2. /\ local \in Namespaces /\ blob \in Namespaces
        /\ last \in Namespaces /\ before \in Namespaces
    BY EmptyType DEF Init
  <2>3. path \in FileStates /\ tmp \in FileStates /\ bak \in FileStates
    BY DEF Init, FileStates
  <2>4. pc \in Steps \cup {"idle", "down"} /\ dirty \in BOOLEAN
    BY DEF Init
  <2> QED BY <2>1, <2>2, <2>3, <2>4 DEF TypeOK
<1>2. FilesOK
  BY EmptyType DEF Init, FilesOK, Steps, Canonical
<1>3. PathOK /\ BackupOK /\ SavedIsDurable
  BY DEF Init, PathOK, BackupOK, SavedIsDurable
<1> QED BY <1>1, <1>2, <1>3 DEF IInv

\* Between calls: start, set, delete and exit.
LEMMA CallIInv == ASSUME IInv, Call PROVE IInv'
<1> USE DEF IInv, files, faults, history
<1>1. CASE Load
  <2>1. Recover(path, bak) \in Namespaces /\ Canonical(Recover(path, bak))
    BY RecoverType
  <2>2. TypeOK' /\ FilesOK' /\ PathOK' /\ BackupOK'
    BY <1>1, <2>1 DEF Load, TypeOK, FilesOK, Steps, Canonical, PathOK, BackupOK, Unharmed
  <2>3. SavedIsDurable'
    BY <1>1, <2>1 DEF Load, SavedIsDurable, Canonical
  <2> QED BY <2>2, <2>3
<1>2. ASSUME NEW k \in Keys, NEW v \in Values, SetKey(k, v)
      PROVE  IInv'
  <2>1. local' \in Namespaces
    BY <1>2, ChangeType DEF SetKey, TypeOK
  <2> QED
    BY <1>2, <2>1 DEF SetKey, TypeOK, FilesOK, Steps, Canonical,
                      PathOK, BackupOK, Unharmed, SavedIsDurable
<1>3. ASSUME NEW k \in Keys, DeleteKey(k) PROVE IInv'
  <2>1. local' \in Namespaces
    BY <1>3, ChangeType DEF DeleteKey, TypeOK
  <2> QED
    BY <1>3, <2>1 DEF DeleteKey, TypeOK, FilesOK, Steps, Canonical,
                      PathOK, BackupOK, Unharmed, SavedIsDurable
<1>4. CASE Exit
  BY <1>4, EmptyType DEF Exit, TypeOK, FilesOK, Steps, Canonical, PathOK,
                         BackupOK, Unharmed, SavedIsDurable
<1> QED BY <1>1, <1>2, <1>3, <1>4 DEF Call

\* The steps of a save that leave path alone.
LEMMA EncodeIInv == ASSUME IInv, Encode \/ EncodeFails PROVE IInv'
<1> USE DEF IInv, files, faults, history
<1>1. CASE Encode
  <2>1. Encoded(local) \in Namespaces /\ Canonical(Encoded(local))
    BY <1>1, EncodedType DEF Encode, TypeOK
  <2> QED
    BY <1>1, <2>1 DEF Encode, TypeOK, FilesOK, Steps, Canonical, PathOK,
                      BackupOK, Unharmed, SavedIsDurable
<1>2. CASE EncodeFails
  BY <1>2 DEF EncodeFails, TypeOK, FilesOK, Steps, Canonical, PathOK,
              BackupOK, Unharmed, SavedIsDurable
<1> QED BY <1>1, <1>2

\* The new bytes go to path.tmp; an OSError ends the save.
LEMMA TmpIInv == ASSUME IInv, OpenTmp \/ WriteTmp \/ SaveFails PROVE IInv'
<1> USE DEF IInv, files, faults, history
<1>1. CASE OpenTmp
  BY <1>1 DEF OpenTmp, TypeOK, FileStates, FilesOK, Steps, Canonical, PathOK,
              BackupOK, Unharmed, SavedIsDurable
<1>2. CASE WriteTmp
  BY <1>2 DEF WriteTmp, TypeOK, FileStates, FilesOK, Steps, Canonical, PathOK,
              BackupOK, Unharmed, SavedIsDurable
<1>3. CASE SaveFails
  BY <1>3 DEF SaveFails, TypeOK, FilesOK, Steps, Canonical, PathOK,
              BackupOK, Unharmed, SavedIsDurable
<1> QED BY <1>1, <1>2, <1>3

\* The previous version goes to path.bak, or the copy fails.
LEMMA BackupIInv ==
    ASSUME IInv, NoBackup \/ OpenBak \/ CopyBak \/ BackupFails PROVE IInv'
<1> USE DEF IInv, files, faults, history
<1>1. CASE NoBackup
  BY <1>1 DEF NoBackup, TypeOK, FilesOK, Steps, Canonical, PathOK,
              BackupOK, Unharmed, SavedIsDurable
<1>2. CASE OpenBak
  BY <1>2 DEF OpenBak, TypeOK, FileStates, FilesOK, Steps, Canonical, PathOK,
              BackupOK, Unharmed, SavedIsDurable
<1>3. CASE CopyBak
  BY <1>3 DEF CopyBak, TypeOK, FilesOK, Steps, Canonical, PathOK,
              BackupOK, Unharmed, SavedIsDurable
<1>4. CASE BackupFails
  BY <1>4 DEF BackupFails, TypeOK, FilesOK, Steps, Canonical, PathOK,
              BackupOK, Unharmed, SavedIsDurable
<1> QED BY <1>1, <1>2, <1>3, <1>4

\* os.replace makes the namespace in memory the one at path.
LEMMA ReplaceIInv == ASSUME IInv, Replace PROVE IInv'
<1> USE DEF IInv, files, faults, history
<1>1. tmp = Encoded(local) /\ tmp \in Namespaces /\ Canonical(tmp)
  BY EncodedType DEF Replace, TypeOK, FilesOK, Steps
<1>2. TypeOK' /\ FilesOK' /\ PathOK'
  BY <1>1 DEF Replace, TypeOK, FileStates, FilesOK, Steps, Canonical, PathOK
<1>3. BackupOK'
  BY <1>1 DEF Replace, BackupOK, Unharmed, TypeOK
<1>4. SavedIsDurable'
  BY <1>1 DEF Replace, SavedIsDurable, Recover, Good
<1> QED BY <1>2, <1>3, <1>4

\* The process crashes, or a file rots.
LEMMA FaultIInv == ASSUME IInv, Crash \/ Rot PROVE IInv'
<1> USE DEF IInv, files, faults, history
<1>1. CASE Crash
  BY <1>1, EmptyType DEF Crash, TypeOK, FilesOK, Steps, Canonical, PathOK,
                         BackupOK, Unharmed, SavedIsDurable
<1>2. CASE Rot
  <2>1. TypeOK' /\ FilesOK' /\ PathOK'
    BY <1>2 DEF Rot, TypeOK, FileStates, FilesOK, Steps, Canonical, PathOK, Good
  <2>2. BackupOK'
    BY <1>2 DEF Rot, Good, BackupOK, Unharmed, TypeOK, PathOK
  <2>3. SavedIsDurable'
    BY <1>2 DEF Rot, TypeOK, SavedIsDurable
  <2> QED BY <2>1, <2>2, <2>3
<1> QED BY <1>1, <1>2

\* The store stays within IInv.
THEOREM Invariance == Spec => []IInv
<1>1. IInv /\ [Next]_vars => IInv'
  <2> SUFFICES ASSUME IInv, [Next]_vars PROVE IInv'
    OBVIOUS
  <2>1. CASE Next
    BY <2>1, CallIInv, EncodeIInv, TmpIInv, BackupIInv, ReplaceIInv, FaultIInv
       DEF Next, Persist
  <2>2. CASE UNCHANGED vars
    BY <2>2 DEF vars, files, faults, history, IInv, TypeOK, FilesOK, Canonical,
                PathOK, BackupOK, Unharmed, SavedIsDurable
  <2> QED BY <2>1, <2>2
<1> QED BY <1>1, InitIInv, PTL DEF Spec

\* Every variable of the store keeps its type.
THEOREM TypeCorrect == Spec => []TypeOK
<1>1. IInv => TypeOK
  BY DEF IInv
<1> QED BY <1>1, Invariance, PTL

\* As long as no file has rotted, a set or delete that returned survives every
\* later crash and every later OSError.
THEOREM Durability == Spec => []SavedIsDurable
<1>1. IInv => SavedIsDurable
  BY DEF IInv
<1> QED BY <1>1, Invariance, PTL

\* As long as one rotten file is all that went wrong, a restart finds the last
\* namespace saved or the one before it.
THEOREM BackupWorks == Spec => []BackupUsed
<1>1. IInv => BackupUsed
  BY DEF IInv, PathOK, BackupOK, BackupUsed, Recover, Good
<1> QED BY <1>1, Invariance, PTL

-----------------------------------------------------------------------------

\* Namespaces and their JSON forms are the same on both levels.
LEMMA SameNamespaces ==
    /\ Durable!Empty = Empty
    /\ \A ns : Durable!Serializable(ns) <=> Serializable(ns)
    /\ \A ns : Durable!Encoded(ns) = Encoded(ns)
    /\ \A ns, k, v : Durable!With(ns, k, v) = With(ns, k, v)
    /\ \A ns, k : Durable!Without(ns, k) = Without(ns, k)
BY DEF Durable!Empty, Empty, Durable!Serializable, Serializable,
       Durable!Encoded, Encoded, Durable!With, With, Durable!Without, Without

\* Until a file rots, crashes and failing file operations never show: the store
\* implements the abstract one, whose namespace changes only as a whole, by a
\* commit.
THEOREM Implements == Spec => CrashAtomic
<1> DEFINE memory == IF pc = "down" THEN NotRunning ELSE local
           durable == Recover(path, bak)
<1>1. Init => Durable!Init
  BY SameNamespaces DEF Init, Durable!Init, Recover, Good
<1>2. IInv /\ [Next]_vars => [rots' = 0 => [Durable!Next]_(Durable!absVars)]_vars
  <2> SUFFICES ASSUME IInv, [Next]_vars, rots' = 0
               PROVE  Durable!Next \/ UNCHANGED <<memory, durable>>
    BY DEF Durable!absVars
  <2> USE DEF files, faults, history
  <2>9. ~Rot
    BY DEF Rot, IInv, TypeOK
  <2>1. rots = 0 /\ path # Torn /\ local \in Namespaces
    <3>1. rots' = rots
      BY <2>9 DEF Next, Call, Persist, Load, Exit, SetKey, DeleteKey, Encode,
                  EncodeFails, OpenTmp, WriteTmp, NoBackup, OpenBak, CopyBak,
                  BackupFails, Replace, SaveFails, Crash, vars
    <3> QED BY <3>1 DEF IInv, TypeOK, PathOK
  <2>2. CASE Load
    BY <2>2 DEF Load, Durable!Next, Durable!Start
  <2>3. ASSUME NEW k \in Keys, NEW v \in Values, SetKey(k, v)
        PROVE  Durable!Next
    BY <2>1, <2>3, SameNamespaces DEF SetKey, Durable!Next, Durable!Change
  <2>4. ASSUME NEW k \in Keys, DeleteKey(k)
        PROVE  Durable!Next
    BY <2>1, <2>4, SameNamespaces DEF DeleteKey, Durable!Next, Durable!Change
  <2>5. CASE Exit \/ Crash
    BY <2>1, <2>5 DEF Exit, Crash, Durable!Next, Durable!Stop
  <2>6. CASE Replace
    <3>1. Serializable(local) /\ tmp = Encoded(local) /\ tmp \in Namespaces
      BY <2>6, EncodedType DEF Replace, IInv, TypeOK, FilesOK, Steps
    <3>2. durable' = Encoded(local) /\ memory' = memory /\ memory = local
      BY <2>6, <3>1 DEF Replace, Recover, Good
    <3> QED BY <2>1, <3>1, <3>2, SameNamespaces DEF Durable!Next, Durable!Commit
  <2>7. CASE OpenBak \/ CopyBak
    BY <2>1, <2>7 DEF OpenBak, CopyBak, IInv, PathOK, Recover, Good
  <2>8. CASE Encode \/ EncodeFails \/ OpenTmp \/ WriteTmp \/ NoBackup
             \/ BackupFails \/ SaveFails
    BY <2>8 DEF Encode, EncodeFails, OpenTmp, WriteTmp, NoBackup, BackupFails,
                SaveFails
  <2>10. CASE UNCHANGED vars
    BY <2>10 DEF vars
  <2> QED
    BY <2>2, <2>3, <2>4, <2>5, <2>6, <2>7, <2>8, <2>9, <2>10
       DEF Next, Call, Persist
<1> QED BY <1>1, <1>2, Invariance, PTL DEF Spec, CrashAtomic
=============================================================================
