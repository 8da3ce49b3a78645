----------------------------- MODULE MCIndexer -----------------------------
(* Instances of Indexer for TLC. *)
EXTENDS Indexer

CONSTANT w1

OneProcess == {Worker}
=============================================================================
