----------------------------- MODULE MCProcess -----------------------------
(* Instances of Process for TLC. *)
EXTENDS Process

CONSTANTS b1, b2

OnePart == [b \in Batch |-> 1]

(* One batch is larger than a part of 5 MB. *)
OneLarge == [b \in Batch |-> IF b = b1 THEN 2 ELSE 1]
=============================================================================
