------------------------------ MODULE MCWorker ------------------------------
(* Instances of Worker for TLC. *)
EXTENDS Worker, TLC

CONSTANTS w1, w2, r1, r2

OneProcess == {Worker}
TwoProcesses == {{w} : w \in Worker}

(* Every window has data for every topic. *)
FullChain == [t \in Topic |-> Row]

(* Every window has blocks, one of them nothing else. *)
SparseChain == [t \in Topic |-> IF t = BlocksTopic THEN Row ELSE Row \ {r1}]

(* One window has no block at all. *)
GappedChain == [t \in Topic |-> Row \ {r1}]

WorkerSymmetry == Permutations(Worker)
=============================================================================
