----------------------------- MODULE StoreDisk -----------------------------
(***************************************************************************)
(* Persistence of softstate.Store (src/softstate/store.py): set and delete  *)
(* with every file operation of _persist a step of its own, _load at the    *)
(* next start, and the process crashing, the file system failing or a file  *)
(* rotting in between.                                                      *)
(*                                                                          *)
(* set and delete hold the store's lock from the change of _local to the    *)
(* end of _persist, so one save at a time is in progress.  A crash is the   *)
(* end of the process: what it wrote stays in the file system.              *)
(*                                                                          *)
(* A file is Missing, a namespace with a matching checksum, or Torn: any    *)
(* content its checksum gives away.                                         *)
(***************************************************************************)
EXTENDS Namespace, Naturals

CONSTANTS
    Missing, Torn,                  \* states of a file, see above
    NotRunning,                     \* of the abstract store
    MaxCrash, MaxRot, MaxIOError    \* bounds on the faults of one behaviour

ASSUME FileAssumption ==
    /\ Missing # Torn /\ Missing \notin Namespaces /\ Torn \notin Namespaces
    /\ NotRunning \notin Namespaces
ASSUME BoundAssumption == MaxCrash \in Nat /\ MaxRot \in Nat /\ MaxIOError \in Nat

VARIABLES
    pc,         \* the step of _persist that is next; "idle" between calls, "down" without a process
    local,      \* Store._local
    blob,       \* the bytes _persist has encoded
    path,       \* the file at Store.path
    tmp,        \* the file at path + ".tmp"
    bak,        \* the file at path + ".bak"
    crashes, rots, ioErrors,    \* faults so far
    dirty,      \* history: the last save raised, so memory is ahead of the disk
    last,       \* history: the namespace the last os.replace put at path
    before      \* history: the one it replaced

files == <<path, tmp, bak>>
faults == <<crashes, rots, ioErrors>>
history == <<dirty, last, before>>
vars == <<pc, local, blob, files, faults, history>>

Init ==
    /\ pc = "down" /\ local = Empty /\ blob = Empty
    /\ path = Missing /\ tmp = Missing /\ bak = Missing
    /\ crashes = 0 /\ rots = 0 /\ ioErrors = 0
    /\ dirty = FALSE /\ last = Empty /\ before = Empty

\* _load: the first of path and path.bak whose checksum matches.
Good(f) == f \notin {Missing, Torn}

\* Mutant: without the checksum the first file there is counts.
RecoverUnchecked(p, b) == IF p # Missing THEN p ELSE IF b # Missing THEN b ELSE Empty
Recover(p, b) == IF Good(p) THEN p ELSE IF Good(b) THEN b ELSE Empty

Load ==
    /\ pc = "down"
    /\ pc' = "idle"
    /\ local' = Recover(path, bak) /\ dirty' = FALSE
    /\ UNCHANGED <<blob, files, faults, last, before>>

-----------------------------------------------------------------------------
(* set and delete, up to _persist *)

SetKey(k, v) ==
    /\ pc = "idle"
    /\ pc' = "encode"
    /\ local' = With(local, k, v)
    /\ UNCHANGED <<blob, files, faults, history>>

\* Mutant: delete without _persist.
DeleteKeyUnsaved(k) ==
    /\ pc = "idle" /\ local[k] # Absent
    /\ local' = Without(local, k)
    /\ UNCHANGED <<pc, blob, files, faults, history>>

\* Deleting a key the node does not have changes nothing.
DeleteKey(k) ==
    /\ pc = "idle" /\ local[k] # Absent
    /\ pc' = "encode"
    /\ local' = Without(local, k)
    /\ UNCHANGED <<blob, files, faults, history>>

-----------------------------------------------------------------------------
(* _persist *)

Encode ==
    /\ pc = "encode" /\ Serializable(local)
    /\ pc' = "open"
    /\ blob' = Encoded(local)
    /\ UNCHANGED <<local, files, faults, history>>

\* json.dumps raises; the key keeps its new value in memory.
EncodeFails ==
    /\ pc = "encode" /\ ~Serializable(local)
    /\ pc' = "idle" /\ dirty' = TRUE
    /\ UNCHANGED <<local, blob, files, faults, last, before>>

\* Mutant: the file is written in place.
OpenInPlace ==
    /\ pc = "open"
    /\ pc' = "write" /\ path' = Torn
    /\ UNCHANGED <<local, blob, tmp, bak, faults, history>>

OpenTmp ==
    /\ pc = "open"
    /\ pc' = "write" /\ tmp' = Torn
    /\ UNCHANGED <<local, blob, path, bak, faults, history>>

\* Mutant: os.replace comes before the bytes are out.
WriteTmpLater ==
    /\ pc = "write"
    /\ pc' = "backup"
    /\ UNCHANGED <<local, blob, files, faults, history>>

WriteTmp ==
    /\ pc = "write"
    /\ pc' = "backup" /\ tmp' = blob
    /\ UNCHANGED <<local, blob, path, bak, faults, history>>

\* Mutant: the previous version is never kept.
NeverBackup ==
    /\ pc = "backup"
    /\ pc' = "replace"
    /\ UNCHANGED <<local, blob, files, faults, history>>

\* shutil.copy2 truncates the backup before it copies; what it copies is not
\* checked.
NoBackup ==
    /\ pc = "backup" /\ path = Missing
    /\ pc' = "replace"
    /\ UNCHANGED <<local, blob, files, faults, history>>

OpenBak ==
    /\ pc = "backup" /\ path # Missing
    /\ pc' = "copy" /\ bak' = Torn
    /\ UNCHANGED <<local, blob, path, tmp, faults, history>>

CopyBak ==
    /\ pc = "copy"
    /\ pc' = "replace" /\ bak' = path
    /\ UNCHANGED <<local, blob, path, tmp, faults, history>>

\* An OSError of the copy is ignored, in whatever state it leaves the backup.
BackupFails ==
    /\ pc = "copy" \/ (pc = "backup" /\ path # Missing)
    /\ ioErrors < MaxIOError /\ ioErrors' = ioErrors + 1
    /\ pc' = "replace"
    /\ UNCHANGED <<local, blob, files, crashes, rots, history>>

Replace ==
    /\ pc = "replace"
    /\ pc' = "idle"
    /\ path' = tmp /\ tmp' = Missing
    /\ dirty' = FALSE /\ last' = tmp /\ before' = last
    /\ UNCHANGED <<local, blob, bak, faults>>

\* Any other OSError leaves set or delete as an exception.
SaveFails ==
    /\ pc \in {"open", "write", "replace"}
    /\ ioErrors < MaxIOError /\ ioErrors' = ioErrors + 1
    /\ pc' = "idle" /\ dirty' = TRUE
    /\ UNCHANGED <<local, blob, files, crashes, rots, last, before>>

-----------------------------------------------------------------------------
(* The process ends between calls, or crashes within one; a file rots. *)

Exit ==
    /\ pc = "idle"
    /\ pc' = "down" /\ local' = Empty /\ blob' = Empty
    /\ UNCHANGED <<files, faults, history>>

Crash ==
    /\ pc \notin {"idle", "down"}
    /\ crashes < MaxCrash /\ crashes' = crashes + 1
    /\ pc' = "down" /\ local' = Empty /\ blob' = Empty
    /\ UNCHANGED <<files, rots, ioErrors, history>>

Rot ==
    /\ rots < MaxRot /\ rots' = rots + 1
    /\ \/ Good(path) /\ path' = Torn /\ UNCHANGED bak
       \/ Good(bak) /\ bak' = Torn /\ UNCHANGED path
    /\ UNCHANGED <<pc, local, blob, tmp, crashes, ioErrors, history>>

-----------------------------------------------------------------------------

Call ==
    \/ \E k \in Keys : DeleteKey(k) \/ \E v \in Values : SetKey(k, v)
    \/ Load \/ Exit

Persist ==
    \/ Encode \/ EncodeFails \/ OpenTmp \/ WriteTmp \/ NoBackup \/ OpenBak
    \/ CopyBak \/ BackupFails \/ Replace \/ SaveFails

Next == Call \/ Persist \/ Crash \/ Rot

Spec == Init /\ [][Next]_vars

-----------------------------------------------------------------------------
(* Properties *)

Steps == {"encode", "open", "write", "backup", "copy", "replace"}
FileStates == Namespaces \cup {Missing, Torn}

\* Every variable keeps its type.
TypeOK ==
    /\ pc \in Steps \cup {"idle", "down"}
    /\ local \in Namespaces /\ blob \in Namespaces
    /\ path \in FileStates /\ tmp \in FileStates /\ bak \in FileStates
    /\ crashes \in 0 .. MaxCrash /\ rots \in 0 .. MaxRot
    /\ ioErrors \in 0 .. MaxIOError
    /\ dirty \in BOOLEAN /\ last \in Namespaces /\ before \in Namespaces

\* A set or delete that returned is on disk: at rest, unless the last save
\* raised or a file rotted, a restart finds exactly what memory holds (its JSON
\* form), however often the process crashed.
SavedIsDurable ==
    pc = "idle" /\ ~dirty /\ rots = 0 => Recover(path, bak) = Encoded(local)

\* Whatever the moment of a crash or of a failing file operation, until a file
\* rots, what a restart would load changes only when a save commits, and then
\* at once from the old namespace to the whole new one: the steps are those of
\* the abstract store.
Durable == INSTANCE DurableStore WITH
    memory <- IF pc = "down" THEN NotRunning ELSE local,
    durable <- Recover(path, bak)
CrashAtomic ==
    Durable!Init /\ [][rots' = 0 => [Durable!Next]_(Durable!absVars)]_vars

\* One fault at the most, and that a file that rots.
Unharmed == crashes = 0 /\ ioErrors = 0 /\ rots <= 1

\* A file that rots costs one version at the most: between calls a restart
\* finds the namespace saved last or the one saved before it.
BackupUsed ==
    Unharmed /\ pc \in {"idle", "down"} => Recover(path, bak) \in {last, before}

-----------------------------------------------------------------------------
(* The inductive invariant behind them *)

\* Bytes on their way to the disk, and what is there, are JSON forms.
Canonical(f) == f \in Namespaces => Encoded(f) = f
FilesOK ==
    /\ Canonical(path) /\ Canonical(tmp) /\ Canonical(bak) /\ Canonical(blob)
    /\ pc \in Steps \ {"encode"} => Serializable(local) /\ blob = Encoded(local)
    /\ pc \in {"backup", "copy", "replace"} => tmp = blob

\* path is missing until the first save, and only rot makes it unreadable.
PathOK ==
    /\ path \in {Missing, Torn, last}
    /\ path = Missing => last = Empty /\ bak = Missing
    /\ pc = "copy" => path # Missing
    /\ rots = 0 => path # Torn

\* Without a crash or an OSError, the backup is the version before last between
\* calls and the last one once it is copied; a single rot spoils one of the two.
BackupOK == Unharmed =>
    /\ pc \notin {"copy", "replace"} =>
          /\ bak \in {Missing, Torn, before}
          /\ bak = Missing => before = Empty
          /\ ~(path = Torn /\ bak = Torn)
          /\ rots = 0 => bak # Torn
    /\ pc = "replace" =>
          /\ bak \in {Missing, Torn, last}
          /\ bak = Missing => last = Empty
          /\ rots = 0 => bak # Torn

\* The invariant of _persist as a whole: what each file holds at each of its steps.
IInv == /\ TypeOK /\ FilesOK /\ PathOK /\ BackupOK
        /\ SavedIsDurable
=============================================================================
