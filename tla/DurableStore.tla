---------------------------- MODULE DurableStore ----------------------------
(***************************************************************************)
(* What the persistence of softstate.Store promises: one durable namespace, *)
(* replaced as a whole by the namespace in memory, and by nothing else.     *)
(* A process that stops or crashes, at any point, leaves it as it is.       *)
(***************************************************************************)
EXTENDS Namespace

CONSTANT NotRunning     \* the memory of no process

VARIABLES
    memory,     \* the namespace the running process holds
    durable     \* the namespace the next process will start with

absVars == <<memory, durable>>

Init == memory = NotRunning /\ durable = Empty

Start == memory = NotRunning /\ memory' = durable /\ UNCHANGED durable

Change ==
    /\ memory # NotRunning
    /\ \E k \in Keys : \/ \E v \in Values : memory' = With(memory, k, v)
                       \/ memory' = Without(memory, k)
    /\ UNCHANGED durable

Commit ==
    /\ memory # NotRunning /\ Serializable(memory)
    /\ durable' = Encoded(memory)
    /\ UNCHANGED memory

Stop == memory # NotRunning /\ memory' = NotRunning /\ UNCHANGED durable

Next == Start \/ Change \/ Commit \/ Stop

Spec == Init /\ [][Next]_absVars
=============================================================================
