--------------------------- MODULE AtomicPublish ---------------------------
(***************************************************************************)
(* What SendJson of KafkaTxProducer promises a caller: consumers get its   *)
(* messages while it is under way or never, whatever becomes of the        *)
(* producer it used, and an answer of nil means that they got them.        *)
(* After an error they may have got them as well.                          *)
(***************************************************************************)
CONSTANT Caller     \* a call of SendJson, and all its messages

VARIABLES
    visible,    \* calls whose messages consumers can read
    reply       \* reply[c]: "none", or the answer "nil" or "err"

vars == <<visible, reply>>

Init ==
    /\ visible = {}
    /\ reply = [c \in Caller |-> "none"]

Publish(c) ==
    /\ reply[c] = "none"
    /\ visible' = visible \cup {c}
    /\ UNCHANGED reply

Succeed(c) ==
    /\ reply[c] = "none"
    /\ visible' = visible \cup {c}
    /\ reply' = [reply EXCEPT ![c] = "nil"]

Fail(c) ==
    /\ reply[c] = "none"
    /\ reply' = [reply EXCEPT ![c] = "err"]
    /\ UNCHANGED visible

Next == \E c \in Caller : Publish(c) \/ Succeed(c) \/ Fail(c)

Spec == Init /\ [][Next]_vars
=============================================================================
