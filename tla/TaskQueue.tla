----------------------------- MODULE TaskQueue ------------------------------
(***************************************************************************)
(* What the consumer group promises about file processing tasks, without   *)
(* consumers, attempts, rebalances or crashes: the tasks of a partition    *)
(* are settled (processed, or given up after the last attempt) in order,   *)
(* and the committed offset never passes a task that is not settled, so no *)
(* task is lost by committing past it.                                     *)
(***************************************************************************)
EXTENDS Integers, Sequences

CONSTANTS Partition, Task

VARIABLES
    topic,      \* topic[p]: the log of partition p
    settled,    \* settled[p]: offsets of p settled so far
    committed   \* committed[p]: the group's committed offset in p

queueVars == <<topic, settled, committed>>

QueueInit ==
    /\ topic = [p \in Partition |-> <<>>]
    /\ settled = [p \in Partition |-> {}]
    /\ committed = [p \in Partition |-> 0]

Publish(p, t) ==
    /\ topic' = [topic EXCEPT ![p] = Append(@, t)]
    /\ UNCHANGED <<settled, committed>>

Settle(p, o) ==
    /\ o \in DOMAIN topic[p]
    /\ 1 .. o - 1 \subseteq settled[p]
    /\ settled' = [settled EXCEPT ![p] = @ \cup {o}]
    /\ UNCHANGED <<topic, committed>>

CommitTo(p, o) ==
    /\ 1 .. o \subseteq settled[p]
    /\ committed' = [committed EXCEPT ![p] = o]
    /\ UNCHANGED <<topic, settled>>

QueueNext ==
    \E p \in Partition :
        \/ \E t \in Task : Publish(p, t)
        \/ \E o \in 1 .. Len(topic[p]) : Settle(p, o) \/ CommitTo(p, o)

QueueSpec == QueueInit /\ [][QueueNext]_queueVars
=============================================================================
