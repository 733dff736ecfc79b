----------------------------- MODULE Namespace -----------------------------
(***************************************************************************)
(* The namespace of one node of softstate.Store, and what it becomes when   *)
(* it is written as JSON and read again (src/softstate/store.py, _persist   *)
(* and _load).                                                              *)
(***************************************************************************)
CONSTANTS
    Keys,       \* keys of the namespace (strings)
    Values,     \* values callers may set
    Absent,     \* marks a key the namespace does not have
    NoJson,     \* marks a value json.dumps rejects
    Json        \* what each value is after json.dumps and json.loads

\* Reading what was written once and writing it again changes nothing more:
\* a tuple comes back as a list, and a list as a list.
ASSUME JsonAssumption ==
    /\ Absent \notin Values /\ NoJson \notin Values
    /\ Json \in [Values -> Values \cup {NoJson}]
    /\ \A v \in Values : Json[v] # NoJson => Json[Json[v]] = Json[v]

Namespaces == [Keys -> Values \cup {Absent}]
Empty == [k \in Keys |-> Absent]

\* json.dumps accepts the namespace.
Serializable(ns) == \A k \in Keys : ns[k] # Absent => Json[ns[k]] # NoJson

\* The namespace a later _load makes of the bytes written for ns.
Encoded(ns) == [k \in Keys |-> IF ns[k] = Absent THEN Absent ELSE Json[ns[k]]]

\* The two ways a caller changes a namespace: set and delete.
With(ns, k, v) == [ns EXCEPT ![k] = v]
Without(ns, k) == [ns EXCEPT ![k] = Absent]
=============================================================================
