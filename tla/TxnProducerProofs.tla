------------------------- MODULE TxnProducerProofs -------------------------
(***************************************************************************)
(* The pool of transactional producers, for any callers and any number of  *)
(* producers: each is in one place only, and what is in the pool can be    *)
(* used.                                                                   *)
(***************************************************************************)
EXTENDS TxnProducer, TLAPS

Locking == {"borrowing", "take", "releasing"}
EmptyHanded == {"idle", "borrow", "borrowing"}

(* The lock is held by the caller that is between Lock and Unlock. *)
LockInv == \A c \in Caller : lock = {c} <=> pc[c] \in Locking

(* No id is given out twice, as all below the generator are in use. *)
FreshInv == \A p \in Producer : p >= generator => open[p] = {}

(* What a call knows of the producer it has. *)
CallInv ==
    \A c \in Caller :
        /\ mine[c] = NoProducer <=> pc[c] \in EmptyHanded
        /\ pc[c] = "take" => producers # <<>> /\ mine[c] = Last(producers)
        /\ pc[c] \in {"begin", "release", "releasing"}
              => \/ status[mine[c]] = "ready" /\ open[mine[c]] = {}
                 \/ status[mine[c]] = "fatal" /\ pc[c] # "begin"
        /\ pc[c] \in {"input", "commit"} => status[mine[c]] = "txn"
        /\ pc[c] = "loop"
              => status[mine[c]] \in {"txn", "abortable", "fatal", "ready"}

(* A producer is with one call or in the pool, where it is once. *)
OnePlace ==
    /\ \A c, d \in Caller :
          mine[c] # NoProducer /\ mine[c] = mine[d] => c = d
    /\ \A c \in Caller : pc[c] # "take" => mine[c] \notin Range(producers)
    /\ IsInjective(producers)

PoolInv ==
    /\ TypeOK /\ LockInv /\ FreshInv /\ CallInv /\ OnePlace /\ PooledReady

-----------------------------------------------------------------------------
(* The stack. *)

LEMMA TopOff ==
    ASSUME NEW S, NEW s \in Seq(S), s # <<>>, IsInjective(s)
    PROVE  /\ Front(s) \in Seq(S) /\ IsInjective(Front(s))
           /\ Last(s) \in S /\ Last(s) \in Range(s)
           /\ Range(Front(s)) = Range(s) \ {Last(s)}
<1> DEFINE n == Len(s)
<1>1. n \in Nat \ {0} /\ DOMAIN s = 1 .. n /\ \A i \in 1 .. n : s[i] \in S
  OBVIOUS
<1>2. Front(s) = SubSeq(s, 1, n - 1) /\ Last(s) = s[n]
  BY DEF Front, Last
<1>3. /\ Front(s) \in Seq(S) /\ DOMAIN Front(s) = 1 .. n - 1
      /\ \A i \in 1 .. n - 1 : Front(s)[i] = s[i]
  BY <1>1, <1>2
<1> HIDE DEF n
<1>4. \A i \in 1 .. n : (i \in 1 .. n - 1 <=> i # n)
  BY <1>1
<1>5. n \in 1 .. n /\ 1 .. n - 1 \subseteq 1 .. n
  BY <1>1
<1>6. Range(Front(s)) = Range(s) \ {s[n]} /\ s[n] \in Range(s)
  BY <1>1, <1>3, <1>4, <1>5 DEF Range, IsInjective
<1>7. IsInjective(Front(s))
  BY <1>1, <1>3, <1>5 DEF IsInjective
<1> QED
  BY <1>1, <1>2, <1>3, <1>5, <1>6, <1>7

LEMMA Pushed ==
    ASSUME NEW S, NEW s \in Seq(S), IsInjective(s),
           NEW x \in S, x \notin Range(s)
    PROVE  /\ Append(s, x) \in Seq(S) /\ IsInjective(Append(s, x))
           /\ Range(Append(s, x)) = Range(s) \cup {x}
<1> DEFINE n == Len(s)
           t == Append(s, x)
<1>1. n \in Nat /\ DOMAIN s = 1 .. n
  OBVIOUS
<1>2. /\ t \in Seq(S) /\ DOMAIN t = 1 .. n + 1 /\ t[n + 1] = x
      /\ \A i \in 1 .. n : t[i] = s[i]
  OBVIOUS
<1>3. \A i \in 1 .. n + 1 : i \in 1 .. n \/ i = n + 1
  BY <1>1
<1>4. n + 1 \in 1 .. n + 1 /\ 1 .. n \subseteq 1 .. n + 1
  BY <1>1
<1> HIDE DEF n, t
<1>5. Range(t) = Range(s) \cup {x}
  BY <1>1, <1>2, <1>3, <1>4 DEF Range
<1>6. IsInjective(t)
  BY <1>1, <1>2, <1>3, <1>4 DEF Range, IsInjective
<1> QED
  BY <1>2, <1>5, <1>6 DEF t

-----------------------------------------------------------------------------
(* The steps. *)

LEMMA NoneIsNoProducer == NoProducer \notin Producer
BY DEF NoProducer, Producer

LEMMA InvInit ==
    ASSUME TxnProducerAssumption, Init
    PROVE  PoolInv
<1>1. TypeOK
  BY DEF Init, TypeOK, TxnProducerAssumption, Producer
<1>2. Range(producers) = {} /\ IsInjective(producers)
  BY DEF Init, Range, IsInjective
<1> QED
  BY <1>1, <1>2 DEF Init, PoolInv, LockInv, FreshInv, CallInv, OnePlace,
     PooledReady, Locking, EmptyHanded

(* Steps of a call between borrowing and releasing, which leave the pool    *)
(* and the lock alone and touch the call's own producer only.               *)
OwnStep(c) ==
    \/ BeginTxn(c) \/ Input(c) \/ CommitTxn(c)
    \/ BreakFatal(c) \/ AbortTxn(c) \/ RetryCommit(c)

LEMMA OwnStepNext ==
    ASSUME PoolInv, NEW c \in Caller, OwnStep(c)
    PROVE  PoolInv'
<1> USE DEF PoolInv
<1>1. /\ UNCHANGED <<pool, mine>>
      /\ pc[c] \in {"begin", "input", "commit", "loop", "release"}
      /\ pc'[c] \in {"begin", "input", "commit", "loop", "release"}
      /\ pc' = [pc EXCEPT ![c] = pc'[c]]
      /\ status' = [status EXCEPT ![mine[c]] = status'[mine[c]]]
      /\ open' = [open EXCEPT ![mine[c]] = open'[mine[c]]]
  BY DEF OwnStep, BeginTxn, Input, CommitTxn, BreakFatal, AbortTxn,
         RetryCommit, Goto, BecomeOf, CommitError, EndTxn, brokers, TypeOK
<1>2. mine[c] \in Producer /\ status[mine[c]] # "none"
  BY DEF TypeOK, CallInv, EmptyHanded, OwnStep, BeginTxn, Input, CommitTxn,
         BreakFatal, AbortTxn, RetryCommit
<1>3. /\ status'[mine[c]] \in {"ready", "txn", "abortable", "fatal"}
      /\ pc'[c] = "release" => \/ status'[mine[c]] = "fatal"
                               \/ /\ status'[mine[c]] = "ready"
                                  /\ open'[mine[c]] = {}
      /\ pc'[c] \in {"input", "commit"} => status'[mine[c]] = "txn"
      /\ pc'[c] # "begin"
  <2> USE DEF Goto, BecomeOf, TypeOK, CallInv
  <2>1. CASE BeginTxn(c)
    BY <2>1, <1>2 DEF BeginTxn
  <2>2. CASE Input(c)
    BY <2>2, <1>2 DEF Input
  <2>3. CASE CommitTxn(c)
    BY <2>3, <1>2 DEF CommitTxn, CommitError, EndTxn
  <2>4. CASE BreakFatal(c)
    BY <2>4, <1>2 DEF BreakFatal, Fatal, brokers
  <2>5. CASE AbortTxn(c)
    BY <2>5, <1>2 DEF AbortTxn, EndTxn
  <2>6. CASE RetryCommit(c)
    BY <2>6, <1>2 DEF RetryCommit, CommitError, EndTxn
  <2> QED
    BY <2>1, <2>2, <2>3, <2>4, <2>5, <2>6 DEF OwnStep
<1>4. /\ open'[mine[c]] \subseteq Caller /\ visible' \subseteq Caller
      /\ reply' \in [Caller -> {"none", "nil", "err"}]
  BY <1>2 DEF OwnStep, BeginTxn, Input, CommitTxn, BreakFatal, AbortTxn,
          RetryCommit, Answer, CommitError, EndTxn, brokers, TypeOK
<1>5. TypeOK'
  <2>1. /\ status' \in [Producer -> {"none", "ready", "txn", "abortable",
                                     "fatal", "closed"}]
        /\ \A p \in Producer : status'[p] = "none" <=> p >= generator
    BY <1>1, <1>2, <1>3 DEF TypeOK
  <2>2. open' \in [Producer -> SUBSET Caller]
    BY <1>1, <1>2, <1>4 DEF TypeOK
  <2>3. pc' \in [Caller -> {"idle", "borrow", "borrowing", "take", "begin",
                           "input", "commit", "loop", "release", "releasing"}]
    BY <1>1 DEF TypeOK
  <2> QED
    BY <1>1, <1>4, <2>1, <2>2, <2>3 DEF TypeOK, pool
<1>6. LockInv' /\ FreshInv' /\ OnePlace'
  BY <1>1, <1>2, <1>3 DEF TypeOK, LockInv, FreshInv, OnePlace, Locking, pool
<1>7. CallInv'
  BY <1>1, <1>2, <1>3, NoneIsNoProducer
     DEF TypeOK, CallInv, OnePlace, EmptyHanded, pool
<1>8. PooledReady'
  <2>1. mine[c] \notin Range(producers) /\ UNCHANGED producers
    BY <1>1 DEF OnePlace, pool
  <2>2. \A p \in Range(producers) : p \in Producer
    BY DEF TypeOK, Range
  <2> QED
    BY <1>1, <2>1, <2>2 DEF PooledReady, TypeOK
<1> QED
  BY <1>5, <1>6, <1>7, <1>8

(* Steps of a call that take or release the lock, or wait for it. *)
LEMMA LockStepNext ==
    ASSUME PoolInv, NEW c \in Caller,
           SendJson(c) \/ LockToBorrow(c) \/ LockToRelease(c)
    PROVE  PoolInv'
<1> USE DEF PoolInv, Goto, Lock, Unlocked, brokers, pool
<1>1. SendJson(c) \/ LockToBorrow(c) \/ LockToRelease(c)
  OBVIOUS
<1>2. TypeOK'
  <2>1. lock' \in {{}} \cup {{d} : d \in Caller}
    BY <1>1 DEF TypeOK, SendJson, LockToBorrow, LockToRelease
  <2>2. UNCHANGED <<producers, generator, mine, status, open, visible, reply>>
    BY <1>1 DEF SendJson, LockToBorrow, LockToRelease
  <2>3. pc' \in [Caller -> {"idle", "borrow", "borrowing", "take", "begin",
                           "input", "commit", "loop", "release", "releasing"}]
    BY <1>1 DEF TypeOK, SendJson, LockToBorrow, LockToRelease
  <2> QED
    BY <2>1, <2>2, <2>3 DEF TypeOK
<1>3. LockInv' /\ FreshInv'
  <2> USE DEF TypeOK, LockInv, FreshInv, Locking
  <2>1. CASE SendJson(c)
    BY <2>1 DEF SendJson
  <2>2. CASE LockToBorrow(c)
    BY <2>2 DEF LockToBorrow
  <2>3. CASE LockToRelease(c)
    BY <2>3 DEF LockToRelease
  <2> QED
    BY <1>1, <2>1, <2>2, <2>3
<1>4. CallInv'
  BY <1>1
     DEF TypeOK, CallInv, EmptyHanded, SendJson, LockToBorrow, LockToRelease
<1>5. OnePlace' /\ PooledReady'
  BY <1>1
     DEF TypeOK, OnePlace, PooledReady, SendJson, LockToBorrow, LockToRelease
<1> QED
  BY <1>2, <1>3, <1>4, <1>5

(* A new producer is one nobody has. *)
LEMMA NewProducerNext ==
    ASSUME TxnProducerAssumption, PoolInv, NEW c \in Caller, NewProducer(c)
    PROVE  PoolInv'
<1> USE DEF PoolInv, NewProducer, Empty, NextId, Goto
<1> DEFINE g == generator
<1>1. /\ g \in Producer /\ g # NoProducer /\ status[g] = "none"
      /\ open[g] = {} /\ g + 1 \in 0 .. MaxIds
      /\ \A p \in Producer : p >= g + 1 <=> p >= g /\ p # g
  BY DEF TypeOK, FreshInv, TxnProducerAssumption, Producer, NoProducer
<1>2. \A d \in Caller : mine[d] # g
  BY <1>1 DEF CallInv, TypeOK, PooledReady, Locking, EmptyHanded
<1>3. mine[c] = NoProducer /\ producers = <<>> /\ Range(producers) = {}
  BY DEF CallInv, EmptyHanded, Range
<1>4. TypeOK'
  BY <1>1 DEF TypeOK
<1>5. LockInv' /\ FreshInv'
  BY <1>1 DEF TypeOK, LockInv, FreshInv, Locking
<1>6. CallInv'
  BY <1>1, <1>2, <1>3 DEF TypeOK, CallInv, EmptyHanded
<1>7. OnePlace' /\ PooledReady'
  BY <1>1, <1>2, <1>3 DEF TypeOK, OnePlace, PooledReady
<1> QED
  BY <1>4, <1>5, <1>6, <1>7

(* Under the lock the top stays the top until it is taken. *)
LEMMA TakeNext ==
    ASSUME PoolInv, NEW c \in Caller, ReadTop(c) \/ TakeTop(c)
    PROVE  PoolInv'
<1> USE DEF PoolInv, Goto
<1>0. producers \in Seq(Producer) /\ IsInjective(producers)
  BY DEF TypeOK, OnePlace
<1>1. CASE ReadTop(c)
  <2> USE <1>1 DEF ReadTop, pool, brokers
  <2>1. /\ Last(producers) \in Producer /\ Last(producers) # NoProducer
        /\ Last(producers) \in Range(producers)
    BY <1>0, TopOff, NoneIsNoProducer
  <2>2. \A d \in Caller : pc[d] = "take" => d = c
    BY DEF LockInv, Locking
  <2>3. TypeOK'
    BY <2>1 DEF TypeOK
  <2>4. LockInv' /\ FreshInv'
    BY DEF TypeOK, LockInv, FreshInv, Locking
  <2>5. CallInv'
    BY <2>1 DEF TypeOK, CallInv, EmptyHanded
  <2>6. OnePlace' /\ PooledReady'
    BY <2>1, <2>2 DEF TypeOK, OnePlace, PooledReady
  <2> QED
    BY <2>3, <2>4, <2>5, <2>6
<1>2. CASE TakeTop(c)
  <2> USE <1>2 DEF TakeTop
  <2>1. /\ producers # <<>> /\ mine[c] = Last(producers)
        /\ Front(producers) \in Seq(Producer) /\ IsInjective(Front(producers))
        /\ mine[c] \in Range(producers)
        /\ Range(Front(producers)) = Range(producers) \ {mine[c]}
    BY <1>0, TopOff DEF CallInv
  <2>2. \A d \in Caller : pc[d] = "take" => d = c
    BY DEF LockInv, Locking
  <2>3. TypeOK'
    BY <2>1 DEF TypeOK, brokers
  <2>4. LockInv' /\ FreshInv'
    BY DEF TypeOK, LockInv, FreshInv, Locking, brokers
  <2>5. status[mine[c]] = "ready" /\ open[mine[c]] = {}
    BY <2>1 DEF PooledReady
  <2>6. CallInv'
    BY <2>1, <2>2, <2>5 DEF TypeOK, CallInv, EmptyHanded, brokers
  <2>7. OnePlace' /\ PooledReady'
    BY <2>1, <2>2 DEF TypeOK, OnePlace, PooledReady, brokers
  <2> QED
    BY <2>3, <2>4, <2>6, <2>7
<1> QED
  BY <1>1, <1>2

(* What goes back was in nobody's hands but the call's. *)
LEMMA ReleaseNext ==
    ASSUME PoolInv, NEW c \in Caller, Release(c)
    PROVE  PoolInv'
<1> USE DEF PoolInv, Release, Goto
<1>0. producers \in Seq(Producer) /\ IsInjective(producers)
  BY DEF TypeOK, OnePlace
<1>1. /\ mine[c] \in Producer /\ mine[c] # NoProducer
      /\ mine[c] \notin Range(producers)
      /\ \A d \in Caller : d # c => mine[d] # mine[c]
      /\ \A d \in Caller : pc[d] = "take" => d = c
  BY DEF TypeOK, CallInv, OnePlace, LockInv, Locking, EmptyHanded
<1>2. CASE InError(mine[c])
  <2> USE <1>2 DEF BecomeOf
  <2>1. TypeOK'
    BY <1>1 DEF TypeOK, InError
  <2>2. LockInv' /\ FreshInv'
    BY DEF TypeOK, LockInv, FreshInv, Locking
  <2>3. CallInv'
    BY <1>1 DEF TypeOK, CallInv, EmptyHanded
  <2>4. \A p \in Range(producers) : p \in Producer
    BY DEF TypeOK, Range
  <2>5. OnePlace' /\ PooledReady'
    BY <1>1, <2>4, NoneIsNoProducer DEF TypeOK, OnePlace, PooledReady
  <2> QED
    BY <2>1, <2>2, <2>3, <2>5
<1>3. CASE ~InError(mine[c])
  <2> USE <1>3
  <2>0. producers' = Append(producers, mine[c]) /\ UNCHANGED status
    OBVIOUS
  <2>1. /\ producers' \in Seq(Producer) /\ IsInjective(producers')
        /\ Range(producers') = Range(producers) \cup {mine[c]}
        /\ UNCHANGED status
    <3> HIDE DEF Release
    <3> QED
      BY <1>0, <1>1, <2>0, Pushed
  <2>2. status[mine[c]] = "ready" /\ open[mine[c]] = {}
    BY DEF CallInv, InError
  <2>3. TypeOK'
    BY <2>1 DEF TypeOK
  <2>4. LockInv' /\ FreshInv'
    BY DEF TypeOK, LockInv, FreshInv, Locking
  <2>5. CallInv'
    BY <1>1, <2>1 DEF TypeOK, CallInv, EmptyHanded
  <2>6. \A p \in Range(producers) : p \in Producer
    BY DEF TypeOK, Range
  <2>7. OnePlace' /\ PooledReady'
    BY <1>1, <2>1, <2>2, <2>6, NoneIsNoProducer
       DEF TypeOK, OnePlace, PooledReady
  <2> QED
    BY <2>3, <2>4, <2>5, <2>7
<1> QED
  BY <1>2, <1>3

(* The cleanup closes what is in the pool, and so nobody's producer. *)
LEMMA ClearNext ==
    ASSUME PoolInv, Clear
    PROVE  PoolInv'
<1> USE DEF PoolInv, Clear, Unlocked
<1>1. Range(producers') = {} /\ IsInjective(producers')
  BY DEF Range, IsInjective
<1>2. \A c \in Caller : mine[c] \notin Range(producers) /\ pc[c] # "take"
  BY DEF OnePlace, LockInv, Locking
<1>3. TypeOK'
  BY DEF TypeOK, PooledReady
<1>4. LockInv' /\ FreshInv'
  BY DEF TypeOK, LockInv, FreshInv, Locking
<1>5. CallInv'
  BY <1>2, NoneIsNoProducer DEF TypeOK, CallInv, EmptyHanded
<1>6. OnePlace' /\ PooledReady'
  BY <1>1 DEF TypeOK, OnePlace, PooledReady
<1> QED
  BY <1>3, <1>4, <1>5, <1>6

LEMMA InvNext ==
    ASSUME TxnProducerAssumption, PoolInv, [Next]_vars
    PROVE  PoolInv'
<1>1. CASE UNCHANGED vars
  BY <1>1 DEF vars, pool, brokers, PoolInv, TypeOK, LockInv, FreshInv,
              CallInv, OnePlace, PooledReady
<1>2. ASSUME NEW c \in Caller, SendJson(c) \/ Step(c)
      PROVE  PoolInv'
  BY <1>1, <1>2, OwnStepNext, LockStepNext, NewProducerNext, TakeNext,
     ReleaseNext
     DEF Step, OwnStep, NoNewProducer, CommitNothing
<1> QED
  BY <1>1, <1>2, ClearNext DEF Next, AllReturned

LEMMA Invariant ==
    ASSUME TxnProducerAssumption
    PROVE  Spec => []PoolInv
<1>1. Init => PoolInv
  BY InvInit
<1>2. PoolInv /\ [Next]_vars => PoolInv'
  BY InvNext
<1> QED
  BY <1>1, <1>2, PTL DEF Spec

-----------------------------------------------------------------------------
(* The theorems. *)

(* Every variable keeps its type, and ids are below the generator           *)
(* (kafka_producer.go 239-300).                                             *)
THEOREM TypeCorrect ==
    ASSUME TxnProducerAssumption
    PROVE  Spec => []TypeOK
BY Invariant, PTL DEF PoolInv

(* kafka_producer.go 265-306: a producer is with one call or once in the    *)
(* pool, and nobody closes one that a call has in hand.                     *)
THEOREM NotShared ==
    ASSUME TxnProducerAssumption
    PROVE  Spec => []Exclusive
<1>1. PoolInv => Exclusive
  <2> SUFFICES ASSUME PoolInv, NEW p \in Producer
               PROVE  Exclusive!(p)
    BY DEF Exclusive
  <2> USE DEF PoolInv, Holds
  <2>1. p # NoProducer
    BY NoneIsNoProducer
  <2>2. \A c, d \in Caller : Holds(c, p) /\ Holds(d, p) => c = d
    BY <2>1 DEF OnePlace
  <2>3. \A c \in Caller : Holds(c, p) => status[p] # "closed"
    BY <2>1 DEF CallInv, TypeOK, EmptyHanded
  <2>4. \A i, j \in DOMAIN producers :
          producers[i] = p /\ producers[j] = p => i = j
    BY DEF OnePlace, IsInjective
  <2>5. \A c \in Caller : Holds(c, p) => p \notin Range(producers)
    BY DEF OnePlace
  <2> QED
    BY <2>2, <2>3, <2>4, <2>5
<1> QED
  BY <1>1, Invariant, PTL

(* kafka_producer.go 289-300: what the next call borrows is ready and       *)
(* carries no message of an earlier one.                                    *)
THEOREM NoLeftovers ==
    ASSUME TxnProducerAssumption
    PROVE  Spec => []PooledReady
BY Invariant, PTL DEF PoolInv

-----------------------------------------------------------------------------
(* The promise to callers. *)

(* A call is answered when it is about to release, and not before; until    *)
(* then only its own producer has its messages, in a transaction that can   *)
(* still be committed.                                                      *)
PublishInv ==
    /\ \A c \in Caller :
          /\ pc[c] \notin {"idle", "release", "releasing"} => reply[c] = "none"
          /\ pc[c] = "commit" => c \in open[mine[c]]
    /\ \A p \in Producer : \A c \in open[p] :
          mine[c] = p \/ status[p] \in {"fatal", "closed"}

(* The transaction a call commits has no messages but its own. *)
LEMMA OwnMessages ==
    ASSUME PoolInv, PublishInv, NEW c \in Caller,
           mine[c] \in Producer, status[mine[c]] \notin {"fatal", "closed"}
    PROVE  open[mine[c]] \subseteq {c}
BY NoneIsNoProducer DEF PoolInv, PublishInv, OnePlace, TypeOK

LEMMA PublishInit ==
    ASSUME Init
    PROVE  PublishInv
BY DEF Init, PublishInv

LEMMA PublishNext ==
    ASSUME TxnProducerAssumption, PoolInv, PublishInv, [Next]_vars
    PROVE  PublishInv'
<1> USE DEF PublishInv, PoolInv, TypeOK, CallInv, Goto
<1>1. ASSUME NEW c \in Caller, OwnStep(c)
      PROVE  PublishInv'
  <2>0. mine[c] \in Producer
    BY <1>1 DEF EmptyHanded, OwnStep, BeginTxn, Input, CommitTxn, BreakFatal,
                AbortTxn, RetryCommit
  <2>a. \A d \in Caller : mine[d] = mine[c] => d = c
    BY <2>0, NoneIsNoProducer DEF OnePlace
  <2> USE <2>0 DEF BecomeOf, Answer, EndTxn, CommitError, pool, brokers
  <2>1. CASE BeginTxn(c)
    BY <2>1 DEF BeginTxn
  <2>2. CASE Input(c)
    BY <2>2 DEF Input
  <2>3. CASE CommitTxn(c) \/ AbortTxn(c) \/ RetryCommit(c)
    <3>1. /\ mine' = mine /\ reply[c] = "none" /\ pc[c] \in {"commit", "loop"}
          /\ status[mine[c]] \in {"txn", "abortable"}
          /\ pc' = [pc EXCEPT ![c] = pc'[c]] /\ pc'[c] \in {"loop", "release"}
          /\ reply' = [reply EXCEPT ![c] = reply'[c]]
          /\ pc'[c] = "loop" => reply'[c] = "none"
      BY <2>3 DEF CommitTxn, AbortTxn, RetryCommit
    <3>2. /\ \E st : status' = [status EXCEPT ![mine[c]] = st]
          /\ open' \in {open, [open EXCEPT ![mine[c]] = {}]}
      BY <2>3 DEF CommitTxn, AbortTxn, RetryCommit
    <3>3. \A d \in Caller : pc'[d] = "commit" => d # c /\ d \in open'[mine[d]]
      <4> SUFFICES ASSUME NEW d \in Caller, pc'[d] = "commit"
                   PROVE  d # c /\ d \in open'[mine[d]]
        OBVIOUS
      <4>1. d # c /\ pc[d] = "commit"
        BY <3>1
      <4>2. mine[d] # mine[c] /\ mine[d] \in Producer
        BY <2>a, <4>1 DEF EmptyHanded
      <4> QED
        BY <3>2, <4>1, <4>2
    <3>4. \A p \in Producer : \A d \in open'[p] :
              mine[d] = p \/ status'[p] \in {"fatal", "closed"}
      BY <3>1, <3>2
    <3> QED
      BY <3>1, <3>3, <3>4
  <2>4. CASE BreakFatal(c)
    BY <2>4 DEF BreakFatal
  <2> QED
    BY <1>1, <2>1, <2>2, <2>3, <2>4 DEF OwnStep
<1>2. ASSUME NEW c \in Caller,
             \/ SendJson(c) \/ LockToBorrow(c) \/ LockToRelease(c)
             \/ NewProducer(c) \/ ReadTop(c) \/ TakeTop(c) \/ Release(c)
      PROVE  PublishInv'
  <2> USE NoneIsNoProducer DEF Lock, EmptyHanded, pool, brokers
  <2>1. CASE SendJson(c) \/ LockToBorrow(c) \/ LockToRelease(c)
    BY <2>1 DEF SendJson, LockToBorrow, LockToRelease
  <2>2. CASE NewProducer(c)
    <3>1. generator \in Producer /\ open[generator] = {} /\ mine[c] = NoProducer
      BY <2>2 DEF NewProducer, Empty, FreshInv, Producer, TxnProducerAssumption,
                  EmptyHanded
    <3> QED
      BY <2>2, <3>1 DEF NewProducer, Empty
  <2>3. CASE ReadTop(c) \/ TakeTop(c)
    BY <2>3 DEF ReadTop, TakeTop
  <2>4. CASE Release(c)
    BY <2>4 DEF Release, BecomeOf, InError
  <2> QED
    BY <1>2, <2>1, <2>2, <2>3, <2>4
<1>3. CASE Clear
  BY <1>3 DEF Clear
<1>4. CASE UNCHANGED vars
  BY <1>4 DEF vars, pool, brokers
<1> QED
  BY <1>1, <1>2, <1>3, <1>4
     DEF Next, Step, OwnStep, NoNewProducer, CommitNothing, AllReturned

LEMMA PublishStep ==
    ASSUME PoolInv, PublishInv, [Next]_vars
    PROVE  [AtP!Next]_(AtP!vars)
<1> USE DEF PublishInv, PoolInv, TypeOK, CallInv, Answer
<1>1. ASSUME NEW c \in Caller, CommitTxn(c) \/ RetryCommit(c)
      PROVE  AtP!Publish(c) \/ AtP!Succeed(c) \/ UNCHANGED AtP!vars
  <2>a. pc[c] \in {"commit", "loop"} /\ status[mine[c]] = "txn"
    BY <1>1 DEF CommitTxn, RetryCommit
  <2>0. reply[c] = "none" /\ mine[c] \in Producer /\ status[mine[c]] = "txn"
    BY <2>a DEF EmptyHanded
  <2>1. open[mine[c]] \subseteq {c}
    BY <2>0, OwnMessages
  <2>2. CASE CommitTxn(c)
    <3>1. open[mine[c]] = {c}
      BY <2>1, <2>2 DEF CommitTxn
    <3> QED
      BY <2>0, <2>2, <3>1
         DEF CommitTxn, CommitError, EndTxn, AtP!Publish, AtP!Succeed, AtP!vars
  <2>3. CASE RetryCommit(c)
    <3>1. reply' = reply /\ visible' \in {visible, visible \cup open[mine[c]]}
      BY <2>3 DEF RetryCommit, CommitError, EndTxn
    <3>2. visible \cup open[mine[c]] \in {visible, visible \cup {c}}
      BY <2>1
    <3> QED
      BY <2>0, <3>1, <3>2 DEF AtP!Publish, AtP!vars
  <2> QED
    BY <1>1, <2>2, <2>3
<1>2. ASSUME NEW c \in Caller, BeginTxn(c) \/ BreakFatal(c) \/ AbortTxn(c)
      PROVE  AtP!Fail(c) \/ UNCHANGED AtP!vars
  <2>1. reply[c] = "none" /\ visible' = visible
    BY <1>2 DEF BeginTxn, BreakFatal, AbortTxn, EndTxn, brokers
  <2> QED
    BY <1>2, <2>1 DEF BeginTxn, BreakFatal, AbortTxn, AtP!Fail, AtP!vars
<1>3. ASSUME UNCHANGED <<visible, reply>>
      PROVE  UNCHANGED AtP!vars
  BY <1>3 DEF AtP!vars
<1> QED
  BY <1>1, <1>2, <1>3
     DEF Next, Step, SendJson, LockToBorrow, NewProducer, NoNewProducer,
         ReadTop, TakeTop, LockToRelease, Release, Input, CommitNothing,
         Clear, AllReturned, vars, pool, brokers, AtP!Next

(* kafka_producer.go 239-374: consumers get the messages of a call while it *)
(* is under way or never, and nil means that they got them; a producer that *)
(* is used again publishes nothing an earlier call left in it.              *)
THEOREM Refinement ==
    ASSUME TxnProducerAssumption
    PROVE  Spec => ImplementsAtomicPublish
<1>1. Init => AtP!Init /\ PublishInv
  BY PublishInit DEF Init, AtP!Init
<1>2. PoolInv /\ PublishInv /\ [Next]_vars => PublishInv' /\ [AtP!Next]_(AtP!vars)
  BY PublishNext, PublishStep
<1> QED
  BY <1>1, <1>2, Invariant, PTL DEF Spec, ImplementsAtomicPublish, AtP!Spec
=============================================================================
