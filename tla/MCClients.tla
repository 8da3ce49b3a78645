----------------------------- MODULE MCClients -----------------------------
(***************************************************************************)
(* The three clients of the infrastructure that several goroutines share:  *)
(* Transactor, TxnProducer and AsyncProducer.  They have no state in       *)
(* common, so a behaviour is a behaviour of one of them, while the other   *)
(* two stay in their initial states, in which no fair action of theirs is  *)
(* enabled.                                                                *)
(***************************************************************************)
EXTENDS Transactor

CONSTANTS MaxIds, Msg, Room

VARIABLES
    component,  \* the one that moves
    lock, producers, generator, step, mine, status, open, visible, answer,
    call, pending, answers, inKafka, logged, reported, producer

txnVars == <<lock, producers, generator, step, mine, status, open, visible,
             answer>>
asyncVars == <<call, pending, answers, inKafka, logged, reported, producer>>

TP == INSTANCE TxnProducer WITH pc <- step, reply <- answer
AP == INSTANCE AsyncProducer WITH stored <- inKafka

ASSUME ProducersAssumption == TP!TxnProducerAssumption /\ AP!RoomAssumption

ClientsInit ==
    /\ component \in {"Transactor", "TxnProducer", "AsyncProducer"}
    /\ Init /\ TP!Init /\ AP!Init

ClientsNext ==
    \/ /\ component = "Transactor"
       /\ Next /\ UNCHANGED <<component, txnVars, asyncVars>>
    \/ /\ component = "TxnProducer"
       /\ TP!Next /\ UNCHANGED <<component, vars, asyncVars>>
    \/ /\ component = "AsyncProducer"
       /\ AP!Next /\ UNCHANGED <<component, vars, txnVars>>

ClientsVars == <<component, vars, txnVars, asyncVars>>

ClientsSpec ==
    /\ ClientsInit /\ [][ClientsNext]_ClientsVars
    /\ Fairness /\ TP!Fairness /\ AP!Fairness

-----------------------------------------------------------------------------
(* The properties, under the names of their modules. *)

(* Types of all three, the ids of transactional producers, and the bounds   *)
(* of the pool of connections and of the asynchronous producer.             *)
ClientsTypeOK == TypeOK /\ TP!TypeOK /\ AP!TypeOK

(* No two calls share a producer, and nobody closes one in use.             *)
Exclusive == TP!Exclusive

(* What the pool gives out can begin a transaction.                         *)
PooledReady == TP!PooledReady

(* Messages are published by their own call, before it answers.             *)
ImplementsAtomicPublish == TP!ImplementsAtomicPublish

(* A call ends unless its commit succeeded at a retry.                      *)
CallEndsOrRecommits == TP!CallEndsOrRecommits

(* A message it took is in it, in Kafka, or told to have failed.            *)
Accounted == AP!Accounted

(* cleanup ends.                                                            *)
CleanupEnds == AP!CleanupEnds

(* A failure is told unless it waits for ever behind a success nobody reads.*)
FailureToldOrBlocked == AP!FailureToldOrBlocked
=============================================================================
