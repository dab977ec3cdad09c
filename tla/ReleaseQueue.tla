---------------------------- MODULE ReleaseQueue ----------------------------
(***************************************************************************)
(* What the release flusher promises: for every release group it carries   *)
(* one cumulative count from the registry (latest) to Home (applied) and   *)
(* back (acked). Counts may be skipped, because a later count includes the *)
(* earlier ones; they are never invented, never go back, and none is       *)
(* acknowledged before Home has it.                                        *)
(***************************************************************************)
EXTENDS Integers

CONSTANTS
    Groups,     \* release groups: a credential and a model
    MaxSeq      \* bound on the cumulative counts

ASSUME MaxSeqAssumption == MaxSeq \in Nat

VARIABLES
    latest,     \* releaseState.Latest: the highest count marked dirty
    applied,    \* external: the highest count Home has received
    acked       \* releaseState.Acked: the highest count Home confirmed

queueVars == <<latest, applied, acked>>

QueueInit ==
    /\ latest  = [g \in Groups |-> 0]
    /\ applied = [g \in Groups |-> 0]
    /\ acked   = [g \in Groups |-> 0]

\* MarkDirty records the highest count of a group.
Mark(g, n) ==
    /\ latest' = [latest EXCEPT ![g] = IF n > @ THEN n ELSE @]
    /\ UNCHANGED <<applied, acked>>

\* Home receives some count that was marked.
Apply(g, n) ==
    /\ applied[g] < n /\ n <= latest[g]
    /\ applied' = [applied EXCEPT ![g] = n]
    /\ UNCHANGED <<latest, acked>>

\* The flusher learns that Home has the count.
Ack(g, n) ==
    /\ acked[g] < n /\ n <= applied[g]
    /\ acked' = [acked EXCEPT ![g] = n]
    /\ UNCHANGED <<latest, applied>>

QueueNext ==
    \E g \in Groups, n \in 1..MaxSeq : Mark(g, n) \/ Apply(g, n) \/ Ack(g, n)

QueueSpec == QueueInit /\ [][QueueNext]_queueVars
=============================================================================
