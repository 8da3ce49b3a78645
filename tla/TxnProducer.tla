---------------------------- MODULE TxnProducer ----------------------------
(***************************************************************************)
(* KafkaTxProducer, internal/infra/kafka_producer.go 127-170 and 239-374:  *)
(* SendJson borrows a sarama producer from a pool, sends its messages in a *)
(* Kafka transaction, commits or aborts it and gives the producer back.    *)
(*                                                                         *)
(* A producer is the number in its transaction id.  What it does is sarama *)
(* and the brokers, modelled from how SendJson uses them: its status, and  *)
(* the answers of BeginTxn, CommitTxn and AbortTxn, which may be an error  *)
(* though the brokers did what they were asked.  The messages of a call    *)
(* are abstracted to the call.                                             *)
(***************************************************************************)
EXTENDS Integers, Sequences, SequencesExt

CONSTANTS
    Caller,
    MaxIds      \* bound on transactionIdGenerator

(* Assumed by the module that instantiates this one. *)
TxnProducerAssumption == MaxIds \in Nat \ {0}

Producer == 0 .. MaxIds - 1
NoProducer == -1

VARIABLES
    lock,       \* producersLock: {} or {the caller that holds it}
    producers,  \* the pool, a stack
    generator,  \* transactionIdGenerator
    pc,         \* pc[c]: where c is in SendJson
    mine,       \* mine[c]: the producer c borrowed, or is about to take
    status,     \* status[p]: TxnStatus, or "none" and "closed"
    open,       \* open[p]: calls with messages in the transaction of p
    visible,    \* calls whose messages consumers can read
    reply       \* reply[c]: "none", "nil" or "err"

pool == <<lock, producers, generator>>
brokers == <<status, open, visible>>
vars == <<pool, pc, mine, brokers, reply>>

Goto(c, l) == pc' = [pc EXCEPT ![c] = l]
BecomeOf(c, st) == status' = [status EXCEPT ![mine[c]] = st]

Init ==
    /\ lock = {}
    /\ producers = <<>>
    /\ generator = 0
    /\ pc = [c \in Caller |-> "idle"]
    /\ mine = [c \in Caller |-> NoProducer]
    /\ status = [p \in Producer |-> "none"]
    /\ open = [p \in Producer |-> {}]
    /\ visible = {}
    /\ reply = [c \in Caller |-> "none"]

-----------------------------------------------------------------------------
(* The pool: borrow, release and clear. *)

SendJson(c) ==
    /\ pc[c] = "idle"
    /\ reply[c] = "none"
    /\ Goto(c, "borrow")
    /\ UNCHANGED <<pool, mine, brokers, reply>>

(* Mutant: a mutex nobody locks.                                            *)
NeverLocked == TRUE

Unlocked == lock = {}

Lock(c, l) ==
    /\ Unlocked
    /\ lock' = {c}
    /\ Goto(c, l)

LockToBorrow(c) ==
    /\ pc[c] = "borrow"
    /\ Lock(c, "borrowing")
    /\ UNCHANGED <<producers, generator, mine, brokers, reply>>

Empty(c) == pc[c] = "borrowing" /\ producers = <<>>

(* Mutant: every producer gets the id of the first.                         *)
NextIdSame == generator

NextId == generator + 1

(* The pool is empty: make a producer. *)
NewProducer(c) ==
    /\ Empty(c)
    /\ generator < MaxIds
    /\ generator' = NextId
    /\ status' = [status EXCEPT ![generator] = "ready"]
    /\ mine' = [mine EXCEPT ![c] = generator]
    /\ lock' = {}
    /\ Goto(c, "begin")
    /\ UNCHANGED <<producers, open, visible, reply>>

(* No broker answers: try again, with the lock held.  The id this uses up   *)
(* is not counted.                                                          *)
NoNewProducer(c) ==
    /\ Empty(c)
    /\ UNCHANGED vars

(* producer = p.producers[index] *)
ReadTop(c) ==
    /\ pc[c] = "borrowing"
    /\ producers # <<>>
    /\ mine' = [mine EXCEPT ![c] = Last(producers)]
    /\ Goto(c, "take")
    /\ UNCHANGED <<pool, brokers, reply>>

(* p.producers = p.producers[:index] *)
TakeTop(c) ==
    /\ pc[c] = "take"
    /\ producers' = Front(producers)
    /\ lock' = {}
    /\ Goto(c, "begin")
    /\ UNCHANGED <<generator, mine, brokers, reply>>

LockToRelease(c) ==
    /\ pc[c] = "release"
    /\ Lock(c, "releasing")
    /\ UNCHANGED <<producers, generator, mine, brokers, reply>>

(* Mutant: every producer goes back to the pool.                            *)
NeverInError(p) == FALSE

(* ProducerTxnFlagInError *)
InError(p) == status[p] \in {"abortable", "fatal"}

Release(c) ==
    /\ pc[c] = "releasing"
    /\ IF InError(mine[c])
       THEN BecomeOf(c, "closed") /\ UNCHANGED producers
       ELSE producers' = Append(producers, mine[c]) /\ UNCHANGED status
    /\ mine' = [mine EXCEPT ![c] = NoProducer]
    /\ lock' = {}
    /\ Goto(c, "idle")
    /\ UNCHANGED <<generator, open, visible, reply>>

(* The cleanup of the app, between two holders of the lock.                 *)
Clear ==
    /\ Unlocked
    /\ producers # <<>>
    /\ status' = [p \in Producer |->
                    IF p \in Range(producers) THEN "closed" ELSE status[p]]
    /\ producers' = <<>>
    /\ UNCHANGED <<lock, generator, pc, mine, open, visible, reply>>

-----------------------------------------------------------------------------
(* SendJson with its producer. *)

Answer(c, r) == reply' = [reply EXCEPT ![c] = r]

BeginTxn(c) ==
    /\ pc[c] = "begin"
    /\ \/ status[mine[c]] = "ready" /\ BecomeOf(c, "txn")
          /\ Goto(c, "input") /\ UNCHANGED reply
       \/ UNCHANGED status /\ Goto(c, "release") /\ Answer(c, "err")
       \/ BecomeOf(c, "fatal") /\ Goto(c, "release") /\ Answer(c, "err")
    /\ UNCHANGED <<pool, mine, open, visible>>

Input(c) ==
    /\ pc[c] = "input"
    /\ open' = [open EXCEPT ![mine[c]] = @ \cup {c}]
    /\ Goto(c, "commit")
    /\ UNCHANGED <<pool, mine, status, visible, reply>>

(* The brokers end the transaction of p. *)
EndTxn(p, vis) ==
    /\ open' = [open EXCEPT ![p] = {}]
    /\ visible' = visible \cup vis

(* One CommitTxn that fails: the transaction is still on and may be tried   *)
(* again, has to be aborted, or is beyond help.  It may have been carried   *)
(* out all the same.                                                        *)
CommitError(c) ==
    /\ \E st \in {"txn", "abortable", "fatal"} : BecomeOf(c, st)
    /\ UNCHANGED open
    /\ visible' \in {visible, visible \cup open[mine[c]]}

CommitTxn(c) ==
    /\ pc[c] = "commit"
    /\ status[mine[c]] = "txn"
    /\ \/ /\ BecomeOf(c, "ready")
          /\ EndTxn(mine[c], open[mine[c]])
          /\ Goto(c, "release") /\ Answer(c, "nil")
       \/ CommitError(c) /\ Goto(c, "loop") /\ UNCHANGED reply
    /\ UNCHANGED <<pool, mine>>

(* Mutant: the loop does not look for ProducerTxnFlagFatalError.            *)
NeverFatal(p) == FALSE

Fatal(p) == status[p] = "fatal"

(* Mutant: what is broken off is not told. *)
BreakFatalNil(c) ==
    /\ pc[c] = "loop"
    /\ Fatal(mine[c])
    /\ Goto(c, "release") /\ Answer(c, "nil")
    /\ UNCHANGED <<pool, mine, brokers>>

(* "fatal error. need to recreate producer." *)
BreakFatal(c) ==
    /\ pc[c] = "loop"
    /\ Fatal(mine[c])
    /\ Goto(c, "release") /\ Answer(c, "err")
    /\ UNCHANGED <<pool, mine, brokers>>

(* "If an error occurred just retry it." *)
AbortTxn(c) ==
    /\ pc[c] = "loop"
    /\ status[mine[c]] = "abortable"
    /\ \/ /\ BecomeOf(c, "ready") /\ EndTxn(mine[c], {})
          /\ Goto(c, "release") /\ Answer(c, "err")
       \/ /\ \E st \in {"abortable", "fatal"} : BecomeOf(c, st)
          /\ UNCHANGED <<open, visible, pc, reply>>
    /\ UNCHANGED <<pool, mine>>

(* "if not you can retry": a success leaves err nil, and the loop goes on.  *)
RetryCommit(c) ==
    /\ pc[c] = "loop"
    /\ status[mine[c]] = "txn"
    /\ \/ BecomeOf(c, "ready") /\ EndTxn(mine[c], open[mine[c]])
       \/ CommitError(c)
    /\ UNCHANGED <<pool, pc, mine, reply>>

(* CommitTxn outside a transaction is refused, and refused again.           *)
CommitNothing(c) ==
    /\ pc[c] = "loop"
    /\ status[mine[c]] \notin {"txn", "abortable"}
    /\ ~Fatal(mine[c])
    /\ UNCHANGED vars

-----------------------------------------------------------------------------

AllReturned ==
    /\ \A c \in Caller : reply[c] # "none" /\ pc[c] = "idle"
    /\ UNCHANGED vars

Step(c) ==
    \/ LockToBorrow(c) \/ NewProducer(c) \/ NoNewProducer(c)
    \/ ReadTop(c) \/ TakeTop(c)
    \/ LockToRelease(c) \/ Release(c)
    \/ BeginTxn(c) \/ Input(c) \/ CommitTxn(c)
    \/ BreakFatal(c) \/ AbortTxn(c) \/ RetryCommit(c) \/ CommitNothing(c)

Next ==
    \/ \E c \in Caller : SendJson(c) \/ Step(c)
    \/ Clear
    \/ AllReturned

Spec == Init /\ [][Next]_vars

(* Where a call waits for the lock, or tries something for ever. *)
Attempt(c) ==
    \/ LockToBorrow(c) \/ LockToRelease(c)
    \/ NewProducer(c)
    \/ AbortTxn(c) /\ pc'[c] = "release"
    \/ RetryCommit(c) /\ status'[mine[c]] = "ready"

(* Goroutines run and get the lock in turn, and what is tried for ever      *)
(* succeeds some time: making a producer, aborting, committing again.       *)
Fairness == \A c \in Caller : WF_vars(Step(c)) /\ SF_vars(Attempt(c))

-----------------------------------------------------------------------------
(* Properties. *)

Holds(c, p) == mine[c] = p /\ pc[c] # "take"

(* Types; producers have ids below the generator. *)
TypeOK ==
    /\ lock \in {{}} \cup {{c} : c \in Caller}
    /\ producers \in Seq(Producer)
    /\ generator \in 0 .. MaxIds
    /\ pc \in [Caller -> {"idle", "borrow", "borrowing", "take", "begin",
                          "input", "commit", "loop", "release", "releasing"}]
    /\ mine \in [Caller -> Producer \cup {NoProducer}]
    /\ status \in [Producer -> {"none", "ready", "txn", "abortable", "fatal",
                                "closed"}]
    /\ \A p \in Producer : status[p] = "none" <=> p >= generator
    /\ open \in [Producer -> SUBSET Caller]
    /\ visible \subseteq Caller
    /\ reply \in [Caller -> {"none", "nil", "err"}]

(* A transactional producer cannot be shared: each is with one call or once *)
(* in the pool, and neither release nor the cleanup closes one a call has   *)
(* in hand.                                                                 *)
Exclusive ==
    \A p \in Producer :
        /\ \A c, d \in Caller : Holds(c, p) /\ Holds(d, p) => c = d
        /\ \A c \in Caller : Holds(c, p) => status[p] # "closed"
        /\ \A i, j \in DOMAIN producers :
              producers[i] = p /\ producers[j] = p => i = j
        /\ \A c \in Caller : Holds(c, p) => p \notin Range(producers)

(* "If released producer is erroneous close it and don't return it to the   *)
(* producer pool": what the next call borrows can begin a transaction, and  *)
(* has none of somebody else's messages in it.                              *)
PooledReady ==
    \A p \in Range(producers) : status[p] = "ready" /\ open[p] = {}

(* SendJson implements the promise of AtomicPublish: what a call left in a  *)
(* transaction is not published by the commit of another.                   *)
AtP == INSTANCE AtomicPublish

ImplementsAtomicPublish == AtP!Spec

(* kafka_producer.go:363, "if not you can retry": a call ends, whatever     *)
(* fails, but for one case the code has wrong: a commit that succeeds when  *)
(* it is tried again leaves its call in the loop.                           *)
CallEndsOrRecommits ==
    \A c \in Caller :
        pc[c] # "idle" ~> \/ pc[c] = "idle"
                          \/ pc[c] = "loop" /\ status[mine[c]] = "ready"
=============================================================================
