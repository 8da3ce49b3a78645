--------------------------- MODULE AsyncProducer ---------------------------
(***************************************************************************)
(* kafkaAsyncProducer of internal/infra/kafka_producer.go.  SendJson puts a *)
(* message on the input of sarama's producer and returns; a goroutine of   *)
(* NewKafkaAsyncProducer reads Errors(), nobody reads Successes(); cleanup  *)
(* closes the producer.                                                    *)
(*                                                                         *)
(* Sarama is external: its channels hold nothing, the producer holds Room  *)
(* messages, one broker answers a request for all the messages of it (of   *)
(* several partitions, so that some may fail), and the goroutine that got  *)
(* the answer returns the messages one by one, on the channel of each.     *)
(***************************************************************************)
EXTENDS Sequences, SequencesExt

CONSTANTS
    Msg,    \* messages: each is the argument of one call of SendJson
    Room

(* Assumed by the module that instantiates this one. *)
RoomAssumption == Room \in Nat \ {0}

VARIABLES
    call,       \* call[m]: "none", "sending", "returned" or "panicked"
    pending,    \* messages in the producer, in order
    answers,    \* answered messages still to be returned: [msg, ok]
    stored,     \* messages in Kafka
    logged,     \* failures logged by the goroutine
    reported,   \* failures in the error of Close, which cleanup logs
    producer    \* "open", "closing" or "closed"

vars == <<call, pending, answers, stored, logged, reported, producer>>

(* Mutant: the configuration does not ask for them. *)
ReturnNothing == FALSE

(* kafkaConfig.Producer.Return *)
ReturnSuccesses == TRUE
ReturnErrors == TRUE

Init ==
    /\ call = [m \in Msg |-> "none"]
    /\ pending = <<>>
    /\ answers = <<>>
    /\ stored = {} /\ logged = {} /\ reported = {}
    /\ producer = "open"

-----------------------------------------------------------------------------
(* SendJson *)

SendJson(m) ==
    /\ call[m] = "none"
    /\ call' = [call EXCEPT ![m] = "sending"]
    /\ UNCHANGED <<pending, answers, stored, logged, reported, producer>>

(* Mutant: a producer that never pushes back. *)
InputAlways(m) ==
    /\ call[m] = "sending"
    /\ producer = "open"
    /\ pending' = Append(pending, m)
    /\ call' = [call EXCEPT ![m] = "returned"]
    /\ UNCHANGED <<answers, stored, logged, reported, producer>>

Input(m) ==
    /\ call[m] = "sending"
    /\ producer = "open"
    /\ Len(pending) + Len(answers) < Room
    /\ pending' = Append(pending, m)
    /\ call' = [call EXCEPT ![m] = "returned"]
    /\ UNCHANGED <<answers, stored, logged, reported, producer>>

-----------------------------------------------------------------------------
(* The producer. *)

Answered(s, ok) == [i \in DOMAIN s |-> [msg |-> s[i], ok |-> ok[s[i]]]]

(* After its retries a message is stored or has failed.                     *)
Answer ==
    /\ pending # <<>> /\ answers = <<>>
    /\ \E ok \in [ToSet(pending) -> BOOLEAN] :
        /\ answers' = Answered(pending, ok)
        /\ stored' = stored \cup {m \in ToSet(pending) : ok[m]}
    /\ pending' = <<>>
    /\ UNCHANGED <<call, logged, reported, producer>>

(* Mutant: cleanup calls AsyncClose. *)
NobodyReads == FALSE

(* Close reads Successes(), and nobody before it.                           *)
SuccessesAreRead == producer = "closing"

ReturnSuccess ==
    /\ answers # <<>> /\ Head(answers).ok
    /\ ReturnSuccesses => SuccessesAreRead
    /\ answers' = Tail(answers)
    /\ UNCHANGED <<call, pending, stored, logged, reported, producer>>

(* Whoever reads Errors() gets it: the goroutine, or Close.                 *)
Failure(m) ==
    \/ ReturnErrors /\ logged' = logged \cup {m} /\ UNCHANGED reported
    \/ ReturnErrors /\ producer = "closing"
        /\ reported' = reported \cup {m} /\ UNCHANGED logged
    \/ ~ReturnErrors /\ UNCHANGED <<logged, reported>>

ReturnError ==
    /\ answers # <<>> /\ ~Head(answers).ok
    /\ Failure(Head(answers).msg)
    /\ answers' = Tail(answers)
    /\ UNCHANGED <<call, pending, stored, producer>>

-----------------------------------------------------------------------------
(* cleanup *)

Close ==
    /\ producer = "open"
    /\ producer' = "closing"
    /\ UNCHANGED <<call, pending, answers, stored, logged, reported>>

(* A message that arrives while the producer shuts down fails at once, one  *)
(* that arrives later finds the channel closed.                             *)
InputClosing(m) ==
    /\ call[m] = "sending"
    /\ producer = "closing"
    /\ Failure(m)
    /\ call' = [call EXCEPT ![m] = "returned"]
    /\ UNCHANGED <<pending, answers, stored, producer>>
InputClosed(m) ==
    /\ call[m] = "sending"
    /\ producer = "closed"
    /\ call' = [call EXCEPT ![m] = "panicked"]
    /\ UNCHANGED <<pending, answers, stored, logged, reported, producer>>

(* Close returns when no message is left in the producer.                   *)
Closed ==
    /\ producer = "closing"
    /\ pending = <<>> /\ answers = <<>>
    /\ producer' = "closed"
    /\ UNCHANGED <<call, pending, answers, stored, logged, reported>>

-----------------------------------------------------------------------------

CallerStep(m) == Input(m) \/ InputClosing(m) \/ InputClosed(m)
Sarama == Answer \/ ReturnSuccess \/ ReturnError \/ Closed

Next ==
    \/ \E m \in Msg : SendJson(m) \/ CallerStep(m)
    \/ Sarama
    \/ Close

Spec == Init /\ [][Next]_vars

(* Callers and the producer run; cleanup need not come.                     *)
Fairness == (\A m \in Msg : WF_vars(CallerStep(m))) /\ WF_vars(Sarama)

-----------------------------------------------------------------------------
(* Properties. *)

InProducer == ToSet(pending) \cup {a.msg : a \in ToSet(answers)}

(* Types; the producer never holds more than it has room for.               *)
TypeOK ==
    /\ call \in [Msg -> {"none", "sending", "returned", "panicked"}]
    /\ pending \in Seq(Msg)
    /\ answers \in Seq([msg : Msg, ok : BOOLEAN])
    /\ Len(pending) + Len(answers) <= Room
    /\ stored \subseteq Msg /\ logged \subseteq Msg /\ reported \subseteq Msg
    /\ producer \in {"open", "closing", "closed"}

(* SendJson's nil says only that the producer took the message: it is       *)
(* there, in Kafka, or its failure has been told to somebody; and once       *)
(* cleanup is over, it is no longer there.                                  *)
Accounted ==
    \A m \in Msg : call[m] = "returned" =>
        \/ m \in stored \cup logged \cup reported
        \/ m \in InProducer /\ producer # "closed"

(* cleanup ends, although nobody read the successes before.                 *)
CleanupEnds == producer = "closing" ~> producer = "closed"

(* The message next in line is a success, and nobody reads those.           *)
Blocked == producer = "open" /\ answers # <<>> /\ Head(answers).ok

(* kafka_producer.go:114: "We will just log to STDOUT if we're not able to  *)
(* produce messages."  A message that could not be produced is logged, at   *)
(* the latest by cleanup, but for one case the code has wrong: behind a     *)
(* success, which blocks the producer for ever as cleanup never comes.      *)
FailureToldOrBlocked ==
    \A m \in Msg :
        [msg |-> m, ok |-> FALSE] \in ToSet(answers)
            ~> m \in logged \cup reported \/ []Blocked
=============================================================================
