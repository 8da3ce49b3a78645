------------------------ MODULE AsyncProducerProofs ------------------------
(***************************************************************************)
(* What becomes of the messages the asynchronous producer took, for any    *)
(* messages and any room.                                                  *)
(***************************************************************************)
EXTENDS AsyncProducer, Integers, TLAPS

(* A message is stored before its answer is returned. *)
SuccessIsStored == \A a \in ToSet(answers) : a.ok => a.msg \in stored

ClosedIsEmpty == producer = "closed" => pending = <<>> /\ answers = <<>>

AccountInv == TypeOK /\ SuccessIsStored /\ ClosedIsEmpty /\ Accounted

AnswerType == [msg : Msg, ok : BOOLEAN]

-----------------------------------------------------------------------------
(* Sequences and their elements. *)

LEMMA OneMore ==
    ASSUME NEW S, NEW s \in Seq(S), NEW x \in S
    PROVE  /\ Append(s, x) \in Seq(S) /\ Len(Append(s, x)) = Len(s) + 1
           /\ ToSet(Append(s, x)) = ToSet(s) \cup {x}
<1> DEFINE n == Len(s)
           t == Append(s, x)
<1>1. /\ n \in Nat /\ DOMAIN s = 1 .. n
      /\ DOMAIN t = 1 .. n + 1 /\ t[n + 1] = x
      /\ \A i \in 1 .. n : t[i] = s[i]
  OBVIOUS
<1> HIDE DEF n, t
<1>2. \A i \in 1 .. n + 1 : i \in 1 .. n \/ i = n + 1
  BY <1>1
<1>3. n + 1 \in 1 .. n + 1 /\ 1 .. n \subseteq 1 .. n + 1
  BY <1>1
<1>4. ToSet(t) = ToSet(s) \cup {x}
  BY <1>1, <1>2, <1>3 DEF ToSet
<1> QED
  BY <1>4 DEF n, t

LEMMA OneLess ==
    ASSUME NEW S, NEW s \in Seq(S), s # <<>>
    PROVE  /\ Head(s) \in ToSet(s) /\ Head(s) \in S
           /\ Tail(s) \in Seq(S) /\ Len(Tail(s)) = Len(s) - 1
           /\ ToSet(s) = ToSet(Tail(s)) \cup {Head(s)}
<1> DEFINE n == Len(s)
           t == Tail(s)
<1>1. /\ n \in Nat \ {0} /\ DOMAIN s = 1 .. n /\ Head(s) = s[1]
      /\ DOMAIN t = 1 .. n - 1
      /\ \A i \in 1 .. n - 1 : t[i] = s[i + 1]
  OBVIOUS
<1> HIDE DEF n, t
<1>2. /\ 1 \in 1 .. n
      /\ \A i \in 1 .. n - 1 : i + 1 \in 1 .. n
      /\ \A i \in 1 .. n : i = 1 \/ (i - 1 \in 1 .. n - 1 /\ (i - 1) + 1 = i)
  BY <1>1
<1>3. ToSet(s) = ToSet(t) \cup {s[1]}
  <2>1. ToSet(t) \subseteq ToSet(s) /\ s[1] \in ToSet(s)
    BY <1>1, <1>2 DEF ToSet
  <2>2. ASSUME NEW i \in 1 .. n
        PROVE  s[i] = s[1] \/ s[i] \in ToSet(t)
    <3>1. CASE i = 1
      BY <3>1
    <3>2. CASE i - 1 \in 1 .. n - 1 /\ (i - 1) + 1 = i
      <4>1. t[i - 1] = s[i]
        BY <1>1, <3>2
      <4> QED
        BY <1>1, <3>2, <4>1 DEF ToSet
    <3> QED
      BY <1>2, <3>1, <3>2
  <2> QED
    BY <1>1, <2>1, <2>2 DEF ToSet
<1> QED
  BY <1>1, <1>3 DEF n, t

(* The answer to a request has one element per message of it. *)
LEMMA AnsweredElements ==
    ASSUME NEW s \in Seq(Msg), NEW ok \in [ToSet(s) -> BOOLEAN]
    PROVE  /\ Answered(s, ok) \in Seq(AnswerType)
           /\ Len(Answered(s, ok)) = Len(s)
           /\ \A a \in ToSet(Answered(s, ok)) :
                 a.msg \in ToSet(s) /\ a.ok = ok[a.msg]
           /\ \A m \in ToSet(s) :
                 [msg |-> m, ok |-> ok[m]] \in ToSet(Answered(s, ok))
<1> DEFINE n == Len(s)
           t == Answered(s, ok)
<1>1. /\ n \in Nat /\ DOMAIN s = 1 .. n
      /\ \A i \in 1 .. n : s[i] \in Msg /\ s[i] \in ToSet(s)
  BY DEF ToSet
<1>2. /\ DOMAIN t = 1 .. n
      /\ \A i \in 1 .. n : t[i] = [msg |-> s[i], ok |-> ok[s[i]]]
  BY <1>1 DEF Answered
<1>3. \A i \in 1 .. n : t[i] \in AnswerType
  BY <1>1, <1>2 DEF AnswerType
<1>4. t \in Seq(AnswerType) /\ Len(t) = n
  BY <1>1, <1>2, <1>3 DEF Answered
<1>5. \A a \in ToSet(t) : a.msg \in ToSet(s) /\ a.ok = ok[a.msg]
  BY <1>1, <1>2 DEF ToSet
<1>6. \A m \in ToSet(s) : [msg |-> m, ok |-> ok[m]] \in ToSet(t)
  BY <1>1, <1>2 DEF ToSet
<1> QED
  BY <1>4, <1>5, <1>6

-----------------------------------------------------------------------------
(* The steps. *)

LEMMA InvInit == RoomAssumption /\ Init => AccountInv
BY DEF RoomAssumption, Init, AccountInv, TypeOK, SuccessIsStored,
       ClosedIsEmpty, Accounted, ToSet

LEMMA CallNext ==
    ASSUME RoomAssumption, AccountInv, NEW m \in Msg,
           SendJson(m) \/ InputClosing(m) \/ InputClosed(m)
    PROVE  AccountInv'
<1> USE DEF AccountInv, TypeOK, SuccessIsStored, ClosedIsEmpty, Accounted,
            InProducer
<1>1. CASE SendJson(m)
  BY <1>1 DEF SendJson
<1>2. CASE InputClosing(m)
  BY <1>2 DEF InputClosing, Failure, ReturnErrors
<1>3. CASE InputClosed(m)
  BY <1>3 DEF InputClosed
<1> QED
  BY <1>1, <1>2, <1>3

LEMMA InputNext ==
    ASSUME RoomAssumption, AccountInv, NEW m \in Msg, Input(m)
    PROVE  AccountInv'
<1> USE DEF AccountInv, Input
<1>1. /\ pending' \in Seq(Msg) /\ Len(pending') = Len(pending) + 1
      /\ ToSet(pending') = ToSet(pending) \cup {m}
  BY OneMore DEF TypeOK
<1>2. Len(pending) \in Nat /\ Len(answers) \in Nat
  BY DEF TypeOK
<1>3. TypeOK'
  BY <1>1, <1>2 DEF TypeOK, RoomAssumption
<1>4. SuccessIsStored' /\ ClosedIsEmpty' /\ Accounted'
  BY <1>1 DEF TypeOK, SuccessIsStored, ClosedIsEmpty, Accounted, InProducer
<1> QED
  BY <1>3, <1>4

LEMMA AnswerNext ==
    ASSUME AccountInv, Answer
    PROVE  AccountInv'
<1> USE DEF AccountInv
<1>1. PICK ok \in [ToSet(pending) -> BOOLEAN] :
          /\ answers' = Answered(pending, ok)
          /\ stored' = stored \cup {m \in ToSet(pending) : ok[m]}
  BY DEF Answer
<1>2. /\ pending \in Seq(Msg) /\ pending' = <<>> /\ ToSet(pending) \subseteq Msg
      /\ UNCHANGED <<call, logged, reported, producer>>
      /\ Len(pending) + Len(answers) <= Room
      /\ pending # <<>> /\ answers = <<>>
  BY DEF Answer, TypeOK, ToSet
<1>3. /\ answers' \in Seq(AnswerType) /\ Len(answers') = Len(pending)
      /\ \A a \in ToSet(answers') : a.msg \in ToSet(pending) /\ a.ok = ok[a.msg]
      /\ \A m \in ToSet(pending) :
            \E a \in ToSet(answers') : a.msg = m
  BY <1>1, <1>2, AnsweredElements
<1>4. TypeOK'
  BY <1>1, <1>2, <1>3 DEF TypeOK, AnswerType
<1>5. SuccessIsStored' /\ ClosedIsEmpty'
  BY <1>1, <1>2, <1>3 DEF SuccessIsStored, ClosedIsEmpty
<1>6. InProducer \subseteq InProducer'
  <2>1. ToSet(answers) = {}
    BY <1>2 DEF ToSet
  <2> QED
    BY <1>3, <2>1 DEF InProducer
<1>7. Accounted'
  BY <1>1, <1>2, <1>6 DEF Accounted
<1> QED
  BY <1>4, <1>5, <1>7

LEMMA ReturnNext ==
    ASSUME RoomAssumption, AccountInv, ReturnSuccess \/ ReturnError
    PROVE  AccountInv'
<1> USE DEF AccountInv
<1> DEFINE a == Head(answers)
<1>1. /\ a \in ToSet(answers) /\ a.msg \in Msg
      /\ answers' \in Seq([msg : Msg, ok : BOOLEAN])
      /\ Len(answers') = Len(answers) - 1
      /\ ToSet(answers) = ToSet(answers') \cup {a}
      /\ UNCHANGED <<call, pending, stored, producer>> /\ answers # <<>>
  <2>1. /\ answers # <<>> /\ answers' = Tail(answers)
        /\ UNCHANGED <<call, pending, stored, producer>>
    BY DEF ReturnSuccess, ReturnError
  <2>2. answers \in Seq(AnswerType)
    BY DEF TypeOK, AnswerType
  <2>3. /\ a \in ToSet(answers) /\ a \in AnswerType
        /\ Tail(answers) \in Seq(AnswerType)
        /\ Len(Tail(answers)) = Len(answers) - 1
        /\ ToSet(answers) = ToSet(Tail(answers)) \cup {a}
    BY <2>1, <2>2, OneLess
  <2> QED
    BY <2>1, <2>3 DEF AnswerType
<1>2. /\ logged \subseteq logged' /\ reported \subseteq reported'
      /\ logged' \cup reported' \subseteq Msg
      /\ a.msg \in stored \cup logged' \cup reported'
  BY <1>1
     DEF TypeOK, ReturnSuccess, ReturnError, Failure, ReturnErrors,
         SuccessIsStored
<1>3. Len(pending) \in Nat /\ Len(answers) \in Nat
  BY DEF TypeOK
<1>4. TypeOK'
  BY <1>1, <1>2, <1>3 DEF TypeOK, RoomAssumption
<1>5. SuccessIsStored' /\ ClosedIsEmpty'
  BY <1>1 DEF SuccessIsStored, ClosedIsEmpty
<1>6. InProducer \subseteq InProducer' \cup {a.msg}
  BY <1>1 DEF InProducer
<1>7. Accounted'
  BY <1>1, <1>2, <1>6 DEF Accounted
<1> QED
  BY <1>4, <1>5, <1>7

LEMMA CloseNext ==
    ASSUME AccountInv, Close \/ Closed
    PROVE  AccountInv'
<1> USE DEF AccountInv, TypeOK, SuccessIsStored, ClosedIsEmpty, Accounted,
            InProducer
<1>1. CASE Close
  BY <1>1 DEF Close
<1>2. CASE Closed
  <2>1. InProducer = {}
    BY <1>2 DEF Closed, ToSet
  <2> QED
    BY <1>2, <2>1 DEF Closed
<1> QED
  BY <1>1, <1>2

LEMMA InvNext ==
    ASSUME RoomAssumption, AccountInv, [Next]_vars
    PROVE  AccountInv'
<1>1. CASE UNCHANGED vars
  BY <1>1 DEF vars, AccountInv, TypeOK, SuccessIsStored, ClosedIsEmpty,
              Accounted, InProducer
<1> QED
  BY <1>1, CallNext, InputNext, AnswerNext, ReturnNext, CloseNext
     DEF Next, CallerStep, Sarama

LEMMA Invariant ==
    ASSUME RoomAssumption
    PROVE  Spec => []AccountInv
BY InvInit, InvNext, PTL DEF Spec

-----------------------------------------------------------------------------
(* The theorems. *)

(* Types; the producer never holds more messages than it has room for       *)
(* (kafka_producer.go 69-125).                                              *)
THEOREM TypeCorrect ==
    ASSUME RoomAssumption
    PROVE  Spec => []TypeOK
BY Invariant, PTL DEF AccountInv

(* kafka_producer.go 108-122, 216-237: what SendJson returned nil for is in *)
(* the producer, in Kafka or told to have failed, and nothing is left in    *)
(* the producer when cleanup returns.                                       *)
THEOREM NothingForgotten ==
    ASSUME RoomAssumption
    PROVE  Spec => []Accounted
BY Invariant, PTL DEF AccountInv
=============================================================================
