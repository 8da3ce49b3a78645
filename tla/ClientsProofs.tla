--------------------------- MODULE ClientsProofs ---------------------------
(***************************************************************************)
(* The shared clients side by side: a step of one leaves what the other    *)
(* two have alone, so each keeps what its own module proves of it.         *)
(***************************************************************************)
EXTENDS MCClients, TransactorProofs

TPP == INSTANCE TxnProducerProofs WITH pc <- step, reply <- answer
APP == INSTANCE AsyncProducerProofs WITH stored <- inKafka

-----------------------------------------------------------------------------
(* TP and TPP are the same module under two names, and so are AP and APP.   *)

LEMMA SameTxnProducer == TP!Spec => TPP!Spec
<1>1. (TPP!Next <=> TP!Next) /\ (TPP!Init <=> TP!Init)
  BY DEF TP!Producer, TPP!Producer, TP!NoProducer, TPP!NoProducer, TP!pool,
         TPP!pool, TP!brokers, TPP!brokers, TP!vars, TPP!vars, TP!Goto,
         TPP!Goto, TP!BecomeOf, TPP!BecomeOf, TP!Init, TPP!Init,
         TP!SendJson, TPP!SendJson, TP!Unlocked, TPP!Unlocked, TP!Lock,
         TPP!Lock, TP!LockToBorrow, TPP!LockToBorrow, TP!Empty, TPP!Empty,
         TP!NextId, TPP!NextId, TP!NewProducer, TPP!NewProducer,
         TP!NoNewProducer, TPP!NoNewProducer, TP!ReadTop, TPP!ReadTop,
         TP!TakeTop, TPP!TakeTop, TP!LockToRelease, TPP!LockToRelease,
         TP!InError, TPP!InError, TP!Release, TPP!Release, TP!Clear,
         TPP!Clear, TP!Answer, TPP!Answer, TP!BeginTxn, TPP!BeginTxn,
         TP!Input, TPP!Input, TP!EndTxn, TPP!EndTxn, TP!CommitError,
         TPP!CommitError, TP!CommitTxn, TPP!CommitTxn, TP!Fatal, TPP!Fatal,
         TP!BreakFatal, TPP!BreakFatal, TP!AbortTxn, TPP!AbortTxn,
         TP!RetryCommit, TPP!RetryCommit, TP!CommitNothing,
         TPP!CommitNothing, TP!AllReturned, TPP!AllReturned, TP!Step,
         TPP!Step, TP!Next, TPP!Next, TP!Last, TPP!Last, TP!Front,
         TPP!Front, TP!Range, TPP!Range
<1>2. [TP!Next]_(TP!vars) => [TPP!Next]_(TPP!vars)
  BY <1>1 DEF TP!vars, TPP!vars, TP!pool, TPP!pool, TP!brokers, TPP!brokers
<1> QED
  BY <1>1, <1>2, PTL DEF TP!Spec, TPP!Spec

LEMMA SameAsyncProducer == AP!Spec => APP!Spec
<1>1. (APP!Next <=> AP!Next) /\ (APP!Init <=> AP!Init)
  BY DEF AP!vars, APP!vars, AP!ReturnSuccesses, APP!ReturnSuccesses,
         AP!ReturnErrors, APP!ReturnErrors, AP!Init, APP!Init, AP!SendJson,
         APP!SendJson, AP!Input, APP!Input, AP!Answered, APP!Answered,
         AP!Answer, APP!Answer, AP!SuccessesAreRead, APP!SuccessesAreRead,
         AP!ReturnSuccess, APP!ReturnSuccess, AP!Failure, APP!Failure,
         AP!ReturnError, APP!ReturnError, AP!Close, APP!Close,
         AP!InputClosing, APP!InputClosing, AP!InputClosed,
         APP!InputClosed, AP!Closed, APP!Closed, AP!CallerStep,
         APP!CallerStep, AP!Sarama, APP!Sarama, AP!Next, APP!Next,
         AP!ToSet, APP!ToSet
<1>2. [AP!Next]_(AP!vars) => [APP!Next]_(APP!vars)
  BY <1>1 DEF AP!vars, APP!vars
<1> QED
  BY <1>1, <1>2, PTL DEF AP!Spec, APP!Spec

-----------------------------------------------------------------------------
(* Side by side. *)

LEMMA EachIsItself == ClientsSpec => Spec /\ TP!Spec /\ AP!Spec
<1>1. ClientsInit => Init /\ TP!Init /\ AP!Init
  BY DEF ClientsInit
<1>2. [ClientsNext]_ClientsVars =>
          [Next]_vars /\ [TP!Next]_(TP!vars) /\ [AP!Next]_(AP!vars)
  BY DEF ClientsNext, ClientsVars, vars, txnVars, asyncVars, TP!vars, TP!pool,
         TP!brokers, AP!vars
<1> QED
  BY <1>1, <1>2, PTL DEF ClientsSpec, Spec, TP!Spec, AP!Spec

LEMMA Pool == ClientsSpec => []TPP!PoolInv
<1>1. TPP!Spec => []TPP!PoolInv
  BY ProducersAssumption, TPP!Invariant
     DEF TP!TxnProducerAssumption, TPP!TxnProducerAssumption
<1> QED
  BY <1>1, EachIsItself, SameTxnProducer, PTL

LEMMA Account == ClientsSpec => []APP!AccountInv
<1>1. APP!Spec => []APP!AccountInv
  BY ProducersAssumption, APP!Invariant DEF AP!RoomAssumption, APP!RoomAssumption
<1> QED
  BY <1>1, EachIsItself, SameAsyncProducer, PTL

-----------------------------------------------------------------------------
(* The theorems. *)

(* Types of all three clients, the ids of transactional producers, and the  *)
(* bounds of the two pools (base_repo.go 23-84, kafka_producer.go 69-374).  *)
THEOREM ClientsTyped == ClientsSpec => []ClientsTypeOK
<1>1. TPP!PoolInv => TP!TypeOK
  BY DEF TPP!PoolInv, TPP!TypeOK, TP!TypeOK, TPP!Producer, TP!Producer,
         TPP!NoProducer, TP!NoProducer
<1>2. APP!AccountInv => AP!TypeOK
  BY DEF APP!AccountInv, APP!TypeOK, AP!TypeOK
<1>3. ClientsSpec => []TypeOK
  BY EachIsItself, TypeCorrect, PTL
<1> QED
  BY <1>1, <1>2, <1>3, Pool, Account, PTL DEF ClientsTypeOK

(* kafka_producer.go 265-306: whatever the other clients do, no two calls   *)
(* share a transactional producer and nobody closes one in use.             *)
THEOREM OneProducerPerCall == ClientsSpec => []Exclusive
<1>1. TPP!Spec => []TPP!Exclusive
  BY ProducersAssumption, TPP!NotShared
     DEF TP!TxnProducerAssumption, TPP!TxnProducerAssumption
<1>2. TPP!Exclusive => Exclusive
  BY DEF Exclusive, TPP!Exclusive, TP!Exclusive, TPP!Holds, TP!Holds,
         TPP!Producer, TP!Producer, TPP!Range, TP!Range
<1> QED
  BY <1>1, <1>2, EachIsItself, SameTxnProducer, PTL

(* kafka_producer.go 321-374: beside the other clients SendJson publishes a *)
(* call's messages in one piece, under that call, as AtomicPublish says.    *)
THEOREM PublishedByOwnCall == ClientsSpec => ImplementsAtomicPublish
<1>1. TPP!Spec => TPP!ImplementsAtomicPublish
  BY ProducersAssumption, TPP!Refinement
     DEF TP!TxnProducerAssumption, TPP!TxnProducerAssumption
<1>2. /\ TPP!AtP!Init <=> TP!AtP!Init
      /\ [TPP!AtP!Next]_(TPP!AtP!vars) <=> [TP!AtP!Next]_(TP!AtP!vars)
  BY DEF TPP!AtP!Init, TP!AtP!Init, TPP!AtP!Next, TP!AtP!Next, TPP!AtP!vars,
         TP!AtP!vars, TPP!AtP!Publish, TP!AtP!Publish, TPP!AtP!Succeed,
         TP!AtP!Succeed, TPP!AtP!Fail, TP!AtP!Fail
<1>3. TPP!ImplementsAtomicPublish => ImplementsAtomicPublish
  BY <1>2, PTL
     DEF TPP!ImplementsAtomicPublish, ImplementsAtomicPublish,
         TP!ImplementsAtomicPublish, TPP!AtP!Spec, TP!AtP!Spec
<1> QED
  BY <1>1, <1>3, EachIsItself, SameTxnProducer, PTL

(* kafka_producer.go 289-300: the pool gives out producers that can begin a *)
(* transaction and hold nobody's messages.                                  *)
THEOREM PoolIsReady == ClientsSpec => []PooledReady
<1>1. TPP!PoolInv => PooledReady
  BY DEF TPP!PoolInv, TPP!PooledReady, PooledReady, TP!PooledReady,
         TPP!Range, TP!Range
<1> QED
  BY <1>1, Pool, PTL

(* kafka_producer.go 108-122, 216-237: a message SendJson returned nil for  *)
(* is in the asynchronous producer, in Kafka, or told to have failed.       *)
THEOREM MessagesAccounted == ClientsSpec => []Accounted
<1>1. APP!AccountInv => Accounted
  BY DEF APP!AccountInv, APP!Accounted, Accounted, AP!Accounted,
         APP!InProducer, AP!InProducer, APP!ToSet, AP!ToSet
<1> QED
  BY <1>1, Account, PTL
=============================================================================
