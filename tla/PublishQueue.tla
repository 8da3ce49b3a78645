---------------------------- MODULE PublishQueue ----------------------------
(***************************************************************************)
(* What the worker half of the indexer promises to its consumers: windows  *)
(* of the chain are published topic by topic, at least once, and a window  *)
(* is marked done only when everything it has is published.  The promise   *)
(* behind the statuses of internal/entity/block_time.go, with no goroutine,*)
(* transaction, lock or broker in it.                                      *)
(***************************************************************************)
CONSTANTS
    Row,        \* windows
    Topic,
    Chain       \* Chain[t]: the windows that have data for topic t

VARIABLES
    published,  \* published[t]: the windows consumers of t can read
    done        \* windows marked done

vars == <<published, done>>

Init ==
    /\ published = [t \in Topic |-> {}]
    /\ done = {}

Publish(t, r) ==
    /\ r \in Chain[t]
    /\ published' = [published EXCEPT ![t] = @ \cup {r}]
    /\ UNCHANGED done

(* Windows handed out together are completed together. *)
Complete(S) ==
    /\ \A r \in S : \A t \in Topic : r \in Chain[t] => r \in published[t]
    /\ done' = done \cup S
    /\ UNCHANGED published

(* Windows may be handed out again: delivery is at least once. *)
Reopen(S) ==
    /\ done' = done \ S
    /\ UNCHANGED published

Next ==
    \/ \E t \in Topic, r \in Row : Publish(t, r)
    \/ \E S \in SUBSET Row : Complete(S) \/ Reopen(S)

Spec == Init /\ [][Next]_vars
=============================================================================
