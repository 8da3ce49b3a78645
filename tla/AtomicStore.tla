----------------------------- MODULE AtomicStore -----------------------------
(***************************************************************************)
(* What repo.Transactor promises a caller: its writes appear in the store  *)
(* together or not at all, and an answer of nil means that they are there. *)
(* After an error they may be there as well.                               *)
(***************************************************************************)
CONSTANTS
    Caller,
    Item        \* what a call may write

VARIABLES
    wrote,      \* wrote[c]: the writes of the call under way
    stored,     \* stored[c]: those others can see
    reply       \* reply[c]: "none", or the answer "nil", "err" or "panic"

vars == <<wrote, stored, reply>>

Init ==
    /\ wrote = [c \in Caller |-> {}]
    /\ stored = [c \in Caller |-> {}]
    /\ reply = [c \in Caller |-> "none"]

Call(c) ==
    /\ reply[c] # "none"
    /\ wrote' = [wrote EXCEPT ![c] = {}]
    /\ stored' = [stored EXCEPT ![c] = {}]
    /\ reply' = [reply EXCEPT ![c] = "none"]

Write(c) ==
    /\ reply[c] = "none"
    /\ stored[c] = {}
    /\ \E i \in Item : wrote' = [wrote EXCEPT ![c] = @ \cup {i}]
    /\ UNCHANGED <<stored, reply>>

(* All of them, at once, with the answer. *)
Return(c) ==
    /\ reply[c] = "none"
    /\ \E ok \in BOOLEAN, r \in {"nil", "err", "panic"} :
          /\ stored' = [stored EXCEPT ![c] = IF ok THEN wrote[c] ELSE {}]
          /\ reply' = [reply EXCEPT ![c] = r]
          /\ r = "nil" => ok
          /\ r = "panic" => ~ok
    /\ UNCHANGED wrote

Next == \E c \in Caller : Call(c) \/ Write(c) \/ Return(c)

Spec == Init /\ [][Next]_vars
=============================================================================
