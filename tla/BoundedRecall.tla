---------------------------- MODULE BoundedRecall ----------------------------
(* What a recall promises, whatever sits in front of the database: it        *)
(* answers from a state of the brain no older than the newest change that    *)
(* was answered, as one to be seen, before the recall began.  A brain's state*)
(* is the number of committed statements that changed what a recall returns. *)
EXTENDS Integers

CONSTANTS Namespaces, Readers

VARIABLES
    version,    \* version[ns]: changes committed
    acked,      \* acked[ns]: the newest change that was answered as one to be seen
    reading     \* reading[r]: no recall, one under way, or one answered

vars == <<version, acked, reading>>

NoRecall == [step |-> "idle"]

Init ==
    /\ version = [ns \in Namespaces |-> 0]
    /\ acked = [ns \in Namespaces |-> 0]
    /\ reading = [r \in Readers |-> NoRecall]

Commit(ns) ==
    /\ version' = [version EXCEPT ![ns] = @ + 1]
    /\ UNCHANGED <<acked, reading>>

Ack(ns) ==
    /\ \E v \in acked[ns]..version[ns] : acked' = [acked EXCEPT ![ns] = v]
    /\ UNCHANGED <<version, reading>>

Begin(r, ns) ==
    /\ reading[r] = NoRecall
    /\ reading' = [reading EXCEPT ![r] = [step |-> "begun", ns |-> ns, floor |-> acked[ns]]]
    /\ UNCHANGED <<version, acked>>

Answer(r) ==
    /\ reading[r].step = "begun"
    /\ \E v \in reading[r].floor..version[reading[r].ns] :
          reading' = [reading EXCEPT ![r] = [step |-> "answered", ns |-> @.ns, floor |-> @.floor,
                                             got |-> v]]
    /\ UNCHANGED <<version, acked>>

\* The caller takes the answer, or a recall fails or is abandoned.
Leave(r) ==
    /\ reading' = [reading EXCEPT ![r] = NoRecall]
    /\ UNCHANGED <<version, acked>>

Next ==
    \/ \E ns \in Namespaces : Commit(ns) \/ Ack(ns)
    \/ \E r \in Readers : Answer(r) \/ Leave(r) \/ \E ns \in Namespaces : Begin(r, ns)

Spec == Init /\ [][Next]_vars
=============================================================================
