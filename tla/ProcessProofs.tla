--------------------------- MODULE ProcessProofs ---------------------------
(***************************************************************************)
(* Safety of Process for any loops, jobs and batches, parts of any number  *)
(* and a pool of any size.                                                 *)
(***************************************************************************)
EXTENDS Process, TLAPS

(* How a task and its uploader stand to each other: the uploader ends with  *)
(* its one answer, of which the task sees no other than that.               *)
UploadOK(b) ==
    /\ b \in queue => task[b] = "none"
    /\ task[b] = "none" => uploader[b] = "none"
    /\ task[b] \in {"write", "receive", "gaveUp"}
          => uploader[b] \in {"upload", "sent"}
    /\ task[b] = "done" => uploader[b] = "sent"
    /\ uploader[b] # "sent" => errCh[b] = {}
    /\ errCh[b] = {"nil"} => b \in object

UploadInv == logged \subseteq object /\ \A b \in Batch : UploadOK(b)

LEMMA UploadInit == Init => S!TypeOK /\ UploadInv
<1> SUFFICES ASSUME Init
             PROVE  S!TypeOK /\ UploadInv
  OBVIOUS
<1>1. signalled = FALSE /\ storing \in {"select", "returned"} /\ S!Idle
  BY DEF Init, L!Init
<1>2. \A b \in Batch : Parts[b] \in Nat
  BY UploadAssumption DEF S!S3StreamAssumption
<1>3. S!TypeOK
  <2>1. \A b \in Batch : read[b] \in 0 .. Parts[b]
    BY <1>1, <1>2 DEF S!Idle
  <2>2. errCh \in [Batch -> {{}, {"nil"}, {"err"}}]
    BY <1>1 DEF S!Idle
  <2> QED
    BY <1>1, <2>1, <2>2 DEF S!Idle, S!TypeOK
<1>4. UploadInv
  BY <1>1 DEF S!Idle, UploadInv, UploadOK
<1> QED
  BY <1>3, <1>4

(* The one answer of an uploader finds errCh empty, and is typed.           *)
LEMMA AnswerTyped ==
    ASSUME S!TypeOK, UploadInv, NEW b \in Batch, NEW answer \in {"nil", "err"},
           S!Send(b, answer), uploader[b] = "upload"
    PROVE  /\ errCh[b] = {}
           /\ errCh' \in [Batch -> {{}, {"nil"}, {"err"}}]
           /\ errCh'[b] \subseteq {answer}
<1>1. errCh[b] = {}
  BY DEF UploadInv, UploadOK
<1>2. {} \cup {answer} \in {{}, {"nil"}, {"err"}}
  OBVIOUS
<1> QED
  BY <1>1, <1>2 DEF S!Send, S!Set, S!TypeOK

(* And leaves the pairs of other batches as they are.                       *)
LEMMA OthersPaired ==
    ASSUME S!TypeOK, UploadInv, NEW b \in Batch, NEW answer, S!Send(b, answer),
           S!Set(uploader, b, "sent"), UNCHANGED <<queue, task>>,
           object \subseteq object', UploadOK(b)', NEW c \in Batch
    PROVE  UploadOK(c)'
<1>1. CASE c # b
  <2>1. uploader'[c] = uploader[c] /\ errCh'[c] = errCh[c]
    BY <1>1 DEF S!Send, S!Set, S!TypeOK
  <2> QED
    BY <2>1 DEF UploadInv, UploadOK
<1> QED
  BY <1>1

(* The steps of a task, its uploader and the loop keep types and pairing.   *)
LEMMA UploadStep ==
    ASSUME S!TypeOK, UploadInv, NEW b \in Batch,
           S!Submit(b) \/ S!SubmitInVain(b) \/ S!BatchStep(b)
    PROVE  S!TypeOK' /\ UploadInv'
<1>1. CASE S!Submit(b)
  BY <1>1 DEF S!Submit, S!Set, S!TypeOK, UploadInv, UploadOK
<1>2. CASE S!SubmitInVain(b)
  BY <1>2 DEF S!SubmitInVain, S!TypeOK, UploadInv, UploadOK
<1>3. CASE S!Write(b)
  BY UploadAssumption, <1>3 DEF S!Write, S!Set, S!TypeOK, UploadInv, UploadOK,
     S!S3StreamAssumption
<1>4. CASE S!Close(b) \/ S!GiveUp(b)
  BY <1>4 DEF S!Close, S!GiveUp, S!Set, S!TypeOK, UploadInv, UploadOK
<1>5. CASE S!Uploaded(b)
  <2>1. errCh[b] = {} /\ errCh' \in [Batch -> {{}, {"nil"}, {"err"}}]
    BY <1>5, AnswerTyped DEF S!Uploaded
  <2>2. S!TypeOK'
    BY <1>5, <2>1 DEF S!Uploaded, S!Send, S!Set, S!TypeOK
  <2>3. uploader'[b] = "sent" /\ b \in object' /\ task'[b] # "none"
    BY <1>5 DEF S!Uploaded, S!Set, S!TypeOK, UploadInv, UploadOK
  <2>4. UploadOK(b)'
    BY <1>5, <2>1, <2>3 DEF S!Uploaded, UploadInv, UploadOK
  <2>5. \A c \in Batch : UploadOK(c)'
    BY <1>5, <2>4, OthersPaired DEF S!Uploaded
  <2> QED
    BY <1>5, <2>2, <2>5 DEF S!Uploaded, UploadInv
<1>6. CASE S!UploadFails(b)
  <2>1. errCh[b] = {} /\ errCh' \in [Batch -> {{}, {"nil"}, {"err"}}]
    BY <1>6, AnswerTyped DEF S!UploadFails
  <2>2. object \subseteq object' /\ object' \subseteq object \cup {b}
    BY <1>6 DEF S!UploadFails
  <2>3. S!TypeOK'
    BY <1>6, <2>1, <2>2 DEF S!UploadFails, S!Send, S!Set, S!TypeOK
  <2>4. uploader'[b] = "sent" /\ task'[b] # "none"
    BY <1>6 DEF S!UploadFails, S!Set, S!TypeOK, UploadInv, UploadOK
  <2>5. errCh'[b] \subseteq {"err"}
    BY <1>6, AnswerTyped DEF S!UploadFails
  <2>6. UploadOK(b)'
    BY <1>6, <2>4, <2>5 DEF S!UploadFails, UploadInv, UploadOK
  <2>7. \A c \in Batch : UploadOK(c)'
    BY <1>6, <2>2, <2>6, OthersPaired DEF S!UploadFails
  <2> QED
    BY <1>6, <2>2, <2>3, <2>7 DEF S!UploadFails, UploadInv
<1>7. CASE S!Receive(b)
  BY <1>7 DEF S!Receive, S!Success, S!Set, S!TypeOK, UploadInv, UploadOK
<1> QED
  BY <1>1, <1>2, <1>3, <1>4, <1>5, <1>6, <1>7 DEF S!BatchStep

(* The signal comes once and never goes. *)
LEMMA SignalNext ==
    ASSUME signalled \in BOOLEAN, [Next]_vars
    PROVE  signalled' \in BOOLEAN /\ (signalled => signalled')
<1>1. ASSUME NEW l \in L!Loop, Loops(l)
      PROVE  signalled' = signalled
  BY <1>1 DEF Loops, Rest, L!LoopStep, L!Stops, L!Enters, L!Claims, L!Records
<1>2. CASE CronEnds \/ Exits
  BY <1>2 DEF CronEnds, Exits, Rest, L!CronStops, L!CronReturns, L!Waited,
              L!Fatal, L!Cleanup
<1>3. ASSUME NEW j \in Job, L!JobRuns(j) \/ L!JobQueried(j) \/ L!JobEnds(j)
      PROVE  signalled' = signalled
  BY <1>3 DEF L!JobRuns, L!JobQueried, L!JobEnds
<1>4. CASE L!Signal
  BY <1>4 DEF L!Signal
<1> QED
  BY <1>1, <1>2, <1>3, <1>4
     DEF Next, Rest, Submits, Stores, StoreEnds, StoreStep, others, vars

(* The rest of the process leaves the uploads alone.                        *)
LEMMA UploadNext ==
    ASSUME S!TypeOK, UploadInv, [Next]_vars
    PROVE  S!TypeOK' /\ UploadInv'
<1>1. CASE UNCHANGED uploads /\ signalled' \in BOOLEAN
  BY <1>1 DEF uploads, S!TypeOK, UploadInv, UploadOK
<1>2. CASE StoreEnds
  BY <1>2 DEF StoreEnds, StoreStep, others, S!Done, S!StopAndWait, S!TypeOK,
              UploadInv, UploadOK
<1>3. ASSUME NEW b \in Batch, Submits(b) \/ Stores(b)
      PROVE  S!TypeOK' /\ UploadInv'
  BY <1>3, UploadStep DEF Submits, Stores, StoreStep
<1>4. CASE UNCHANGED uploads
  BY <1>1, <1>4, SignalNext DEF S!TypeOK
<1> QED
  BY <1>2, <1>3, <1>4 DEF Next, Rest, Loops, CronEnds, Exits, vars

(* worker.go:324: success is logged of objects that are in S3.              *)
THEOREM LoggedStored == Spec => []LoggedIsStored
<1>1. UploadInv => LoggedIsStored
  BY DEF UploadInv, LoggedIsStored, S!LoggedIsStored
<1> QED
  BY <1>1, UploadInit, UploadNext, PTL DEF Spec

(* An uploader that gave up under a writing task has read some of the parts *)
(* and not the last; the pipe is closed after that one, and not at all by a *)
(* task that has given up itself.                                           *)
PipeInv ==
    \A b \in Batch :
        /\ task[b] \in {"none", "write", "gaveUp"} => ~eof[b]
        /\ S!Stuck(b) => 0 < read[b] /\ read[b] < Parts[b]

LEMMA PipeStep ==
    ASSUME S!TypeOK, UploadInv, PipeInv, NEW b \in Batch,
           S!Submit(b) \/ S!SubmitInVain(b) \/ S!BatchStep(b)
    PROVE  PipeInv'
<1> USE DEF PipeInv, S!TypeOK, S!Stuck, S!Set
<1>1. CASE S!Submit(b)
  BY <1>1 DEF S!Submit, UploadInv, UploadOK
<1>2. CASE S!SubmitInVain(b)
  BY <1>2 DEF S!SubmitInVain
<1>3. CASE S!Write(b)
  BY <1>3 DEF S!Write
<1>4. CASE S!Close(b) \/ S!GiveUp(b)
  BY <1>4 DEF S!Close, S!GiveUp
<1>5. CASE S!Uploaded(b)
  BY <1>5 DEF S!Uploaded
<1>6. CASE S!UploadFails(b)
  BY <1>6 DEF S!UploadFails
<1>7. CASE S!Receive(b)
  BY <1>7 DEF S!Receive
<1> QED
  BY <1>1, <1>2, <1>3, <1>4, <1>5, <1>6, <1>7 DEF S!BatchStep

LEMMA PipeNext ==
    ASSUME S!TypeOK, UploadInv, PipeInv, [Next]_vars
    PROVE  PipeInv'
<1>1. CASE UNCHANGED <<task, eof, uploader, read>>
  BY <1>1 DEF PipeInv, S!Stuck
<1>2. ASSUME NEW b \in Batch, Submits(b) \/ Stores(b)
      PROVE  PipeInv'
  BY <1>2, PipeStep DEF Submits, Stores, StoreStep
<1> QED
  BY <1>1, <1>2 DEF Next, Rest, Loops, CronEnds, Exits, StoreEnds, StoreStep,
                    S!Done, S!StopAndWait, uploads, vars

(* A send that meets a closed channel comes from an uploader whose task has *)
(* given up, and that has read one part and not the last.                   *)
PanicInv == panicked => \E b \in Batch : task[b] = "gaveUp" /\ Parts[b] > 1

LEMMA PanicSend ==
    ASSUME S!TypeOK, UploadInv, PipeInv, NEW b \in Batch, NEW answer,
           S!Send(b, answer), uploader[b] = "upload", panicked', ~panicked,
           eof[b] \/ (0 < read[b] /\ read[b] < Parts[b])
    PROVE  task[b] = "gaveUp" /\ Parts[b] > 1
<1>1. task[b] = "gaveUp"
  BY DEF S!Send, S!Closed, UploadInv, UploadOK
<1>2. 0 < read[b] /\ read[b] < Parts[b]
  BY <1>1 DEF PipeInv
<1>3. Parts[b] \in Nat /\ read[b] \in Nat
  BY UploadAssumption DEF S!S3StreamAssumption, S!TypeOK
<1> QED
  BY <1>1, <1>2, <1>3

LEMMA PanicNext ==
    ASSUME S!TypeOK, UploadInv, PipeInv, PanicInv, [Next]_vars
    PROVE  PanicInv'
<1>1. CASE UNCHANGED <<panicked, task>>
  BY <1>1 DEF PanicInv
<1>2. CASE ~panicked /\ ~panicked'
  BY <1>2 DEF PanicInv
<1>3. ASSUME NEW b \in Batch, ~panicked, panicked',
             S!Uploaded(b) \/ S!UploadFails(b)
      PROVE  PanicInv'
  <2>1. task[b] = "gaveUp" /\ Parts[b] > 1 /\ task' = task
    BY <1>3, PanicSend DEF S!Uploaded, S!UploadFails
  <2> QED
    BY <2>1 DEF PanicInv
<1>4. ASSUME NEW b \in Batch, Submits(b) \/ Stores(b)
      PROVE  PanicInv'
  BY <1>2, <1>3, <1>4
     DEF Submits, Stores, StoreStep, S!BatchStep, S!Submit, S!SubmitInVain,
         S!Write, S!GiveUp, S!Close, S!Receive, S!TypeOK
<1> QED
  BY <1>1, <1>4 DEF Next, Rest, Loops, CronEnds, Exits, StoreEnds, StoreStep,
                    S!Done, S!StopAndWait, uploads, vars

(* worker.go 295-324: a task that comes to its end closes errCh after its   *)
(* uploader has sent on it; where a send panics, a task of a batch of       *)
(* several parts had returned early (worker.go 303-316).                    *)
THEOREM SentBeforeClosed == Spec => []NoSendOnClosed
<1>1. UploadInv /\ PanicInv => NoSendOnClosed
  BY DEF UploadInv, UploadOK, PanicInv, NoSendOnClosed, S!NoSendOnClosed
<1>2. Init => PipeInv /\ PanicInv
  BY DEF Init, S!Idle, PipeInv, S!Stuck, PanicInv
<1>3. S!TypeOK /\ UploadInv /\ PipeInv /\ PanicInv /\ [Next]_vars
        => PipeInv' /\ PanicInv'
  BY PipeNext, PanicNext
<1> QED
  BY <1>1, <1>2, <1>3, UploadInit, UploadNext, PTL DEF Spec

(* s3_service.go:44: the uploader of a batch of one part reads to the end   *)
(* of the pipe before it can fail, so that its task is never left writing.  *)
THEOREM StuckIfLarge == Spec => []StuckOnlyIfLarge
<1>1. Init => PipeInv
  BY DEF Init, S!Idle, PipeInv, S!Stuck
<1>2. UploadAssumption => (S!TypeOK /\ PipeInv => StuckOnlyIfLarge)
  BY DEF UploadAssumption, S!S3StreamAssumption, S!TypeOK, PipeInv,
         StuckOnlyIfLarge, S!StuckOnlyIfLarge
<1>3. S!TypeOK /\ UploadInv /\ PipeInv /\ [Next]_vars => PipeInv'
  BY PipeNext
<1> QED
  BY <1>1, <1>2, <1>3, UploadAssumption, UploadInit, UploadNext, PTL DEF Spec

-----------------------------------------------------------------------------
(* StoreS3 within the process. *)

LEMMA StoreSteps ==
    ASSUME S!TypeOK, [Next]_vars
    PROVE  [S!Next]_S!vars
<1> USE DEF S!vars
<1>1. CASE Rest(L!Signal)
  BY <1>1 DEF Rest, L!Signal, uploads, S!Cancel, S!Next
<1>2. ASSUME NEW b \in Batch, Submits(b) \/ Stores(b)
      PROVE  S!Next
  BY <1>2 DEF Submits, Stores, StoreStep, S!Next
<1>3. CASE StoreEnds
  BY <1>3 DEF StoreEnds, StoreStep, S!Next
<1>4. CASE UNCHANGED <<uploads, signalled>>
  BY <1>4 DEF uploads
<1>5. ASSUME \/ \E l \in L!Loop : Loops(l)
             \/ CronEnds \/ Exits
      PROVE  UNCHANGED <<uploads, signalled>>
  BY <1>5 DEF Loops, Rest, CronEnds, Exits, L!LoopStep, L!Stops, L!Enters,
              L!Claims, L!Records, L!CronStops, L!CronReturns, L!Waited, L!Fatal,
              L!Cleanup
<1>6. ASSUME NEW j \in Job, UNCHANGED uploads,
             L!JobRuns(j) \/ L!JobQueried(j) \/ L!JobEnds(j)
      PROVE  UNCHANGED <<uploads, signalled>>
  BY <1>6 DEF L!JobRuns, L!JobQueried, L!JobEnds
<1> QED
  BY <1>1, <1>2, <1>3, <1>4, <1>5, <1>6 DEF Next, Rest, vars, others

(* worker.go:262-330 with nothing else of the process: StoreS3 in it is     *)
(* S3Stream, so that whatever S3Stream promises the worker has.             *)
THEOREM StoreRefinement == Spec => StoreIsS3Stream
<1>1. Init /\ app = "worker" => S!Init
  BY DEF Init, L!Init, L!OnlyIn, S!Init
<1>2. S!TypeOK /\ [Next]_vars => [S!Next]_S!vars
  BY StoreSteps
<1>3. S!TypeOK /\ UploadInv /\ [Next]_vars => S!TypeOK' /\ UploadInv'
  BY UploadNext
<1>4. Init => S!TypeOK /\ UploadInv
  BY UploadInit
<1> QED
  BY <1>1, <1>2, <1>3, <1>4, PTL DEF Spec, StoreIsS3Stream

-----------------------------------------------------------------------------
(* The variables of Lifecycle. *)

LEMMA LifeInit == Init => L!TypeOK
<1> SUFFICES ASSUME L!Init
             PROVE  L!TypeOK
  BY DEF Init
<1>1. loop \in [L!Loop -> {"select", "claim", "work", "returned"}]
  BY DEF L!Init
<1>2. /\ querying = [j \in Job |-> 0]
      /\ alerting = [j \in Job |-> 0]
  BY DEF L!Init
<1>3. /\ querying \in [Job -> 0 .. 1] /\ alerting \in [Job -> 0 .. 1]
      /\ \A j \in Job : querying[j] + alerting[j] <= 1
  BY <1>2
<1>4. /\ app \in {"worker", "master"} /\ signalled \in BOOLEAN
      /\ cron \in {"running", "returned"}
      /\ owing = {} /\ refused = {} /\ main = "wait" /\ pool = "open"
  BY DEF L!Init, L!OnlyIn
<1> QED
  BY <1>1, <1>3, <1>4 DEF L!TypeOK

LEMMA LoopTyped ==
    ASSUME L!TypeOK, NEW l \in L!Loop, Loops(l)
    PROVE  L!TypeOK'
<1>1. CASE L!Stops(l)
  BY <1>1, Loops(l) DEF Loops, Rest, uploads, L!Stops, L!GoTo, L!TypeOK
<1>2. CASE L!Enters(l)
  BY <1>2, Loops(l) DEF Loops, Rest, uploads, L!Enters, L!GoTo, L!TypeOK
<1>3. CASE L!Claims(l)
  BY <1>3, Loops(l) DEF Loops, Rest, uploads, L!Claims, L!GoTo, L!TypeOK
<1>4. CASE L!Records(l)
  BY <1>4, Loops(l) DEF Loops, Rest, uploads, L!Records, L!GoTo, L!TypeOK
<1> QED
  BY <1>1, <1>2, <1>3, <1>4, Loops(l) DEF Loops, Rest, L!LoopStep

LEMMA JobTyped ==
    ASSUME L!TypeOK, NEW j \in Job, UNCHANGED uploads,
           L!JobRuns(j) \/ L!JobQueried(j) \/ L!JobEnds(j)
    PROVE  L!TypeOK'
<1>0. \A i \in Job : querying[i] \in 0 .. 1 /\ alerting[i] \in 0 .. 1
  BY DEF L!TypeOK
<1>1. CASE L!JobRuns(j)
  BY <1>0, <1>1 DEF uploads, L!JobRuns, L!MayRun, L!TypeOK
<1>2. CASE L!JobQueried(j)
  BY <1>0, <1>2 DEF uploads, L!JobQueried, L!TypeOK
<1>3. CASE L!JobEnds(j)
  BY <1>0, <1>3 DEF uploads, L!JobEnds, L!TypeOK
<1> QED
  BY <1>1, <1>2, <1>3

LEMMA LifeNext ==
    ASSUME L!TypeOK, [Next]_vars
    PROVE  L!TypeOK'
<1>1. CASE L!Signal /\ UNCHANGED uploads
  BY <1>1 DEF L!Signal, L!goroutines, uploads, L!TypeOK
<1>2. CASE CronEnds
  BY <1>2 DEF CronEnds, Rest, uploads, L!CronStops, L!CronReturns, L!TypeOK
<1>3. CASE Exits
  BY <1>3 DEF Exits, Rest, uploads, L!Waited, L!Fatal, L!Cleanup, L!goroutines,
              L!TypeOK
<1>4. CASE UNCHANGED others
  BY <1>4 DEF others, L!TypeOK
<1> QED
  BY <1>1, <1>2, <1>3, <1>4, LoopTyped, JobTyped
     DEF Next, Rest, Submits, Stores, StoreEnds, StoreStep, vars

(* Types, one run of a job and one answer to a task at a time.              *)
THEOREM TypeCorrect == Spec => []TypeOK
<1>1. Init => L!TypeOK /\ S!TypeOK /\ UploadInv
  BY LifeInit, UploadInit
<1>2. L!TypeOK /\ S!TypeOK /\ UploadInv /\ [Next]_vars
        => L!TypeOK' /\ S!TypeOK' /\ UploadInv'
  BY LifeNext, UploadNext
<1>3. L!TypeOK /\ S!TypeOK => TypeOK
  BY DEF TypeOK
<1> QED
  BY <1>1, <1>2, <1>3, PTL DEF Spec

-----------------------------------------------------------------------------
(* The end of the process. *)

(* StoreS3 waits for its tasks only after the signal.                       *)
StoreOK == storing = "wait" => signalled

(* A loop owes the table only while it works, or after a refusal; main goes *)
(* on only when all it started has returned, and StoreS3 returns only with  *)
(* its tasks.                                                               *)
JoinInv ==
    /\ StoreOK
    /\ \A l \in owing \ refused : loop[l] = "work"
    /\ storing = "returned" => S!Running = {}
    /\ main # "wait" => L!Joined

LEMMA JoinInit == Init => JoinInv
BY DEF Init, L!Init, S!Idle, S!Running, JoinInv, StoreOK

(* Once StoreS3 has returned nothing starts a task, and nothing starts it.  *)
LEMMA StoreNext ==
    ASSUME JoinInv, S!TypeOK, UploadInv, [Next]_vars
    PROVE  /\ StoreOK'
           /\ storing = "returned" => storing' = "returned"
           /\ storing' = "returned" => S!Running' = {}
<1>1. CASE UNCHANGED uploads
  BY <1>1, SignalNext DEF uploads, S!Running, S!TypeOK, JoinInv, StoreOK
<1>2. CASE StoreEnds
  BY <1>2 DEF StoreEnds, StoreStep, others, S!Done, S!StopAndWait, S!Running,
              JoinInv, StoreOK
<1>3. ASSUME NEW b \in Batch, Submits(b)
      PROVE  /\ storing = "select" /\ storing' = storing
  BY <1>3 DEF Submits, StoreStep, S!Submit, S!SubmitInVain
<1>4. ASSUME NEW b \in Batch, Stores(b)
      PROVE  /\ storing' = storing /\ signalled' = signalled
             /\ S!Running' \subseteq S!Running
  BY <1>4 DEF Stores, StoreStep, others, S!BatchStep, S!Write, S!GiveUp,
              S!Close, S!Uploaded, S!UploadFails, S!Receive, S!Set, S!Running, S!TypeOK
<1> QED
  BY <1>1, <1>2, <1>3, <1>4
     DEF Next, Rest, Loops, CronEnds, Exits, vars, JoinInv, StoreOK

LEMMA JoinNext ==
    ASSUME JoinInv, TypeOK, UploadInv, [Next]_vars
    PROVE  JoinInv'
<1> USE DEF JoinInv, TypeOK
<1>1. /\ StoreOK'
      /\ storing = "returned" => storing' = "returned"
      /\ storing' = "returned" => S!Running' = {}
  BY StoreNext
<1>2. ASSUME NEW l \in L!Loop, Loops(l)
      PROVE  JoinInv'
  <2>1. main = "wait" /\ main' = main
    BY <1>2 DEF Loops, Rest, L!LoopStep, L!Stops, L!Enters, L!Claims, L!Records,
                L!Joined
  <2>2. \A k \in owing' \ refused' : loop'[k] = "work"
    BY <1>2 DEF Loops, Rest, L!LoopStep, L!Stops, L!Enters, L!Claims, L!Records,
                L!GoTo, L!Written, L!TypeOK
  <2> QED
    BY <1>1, <2>1, <2>2
<1>3. CASE CronEnds
  BY <1>1, <1>3 DEF CronEnds, Rest, L!CronStops, L!CronReturns, L!Joined
<1>4. CASE Exits
  BY <1>1, <1>4 DEF Exits, Rest, uploads, L!Waited, L!Fatal, L!Cleanup,
                    L!goroutines, L!Joined, L!Loop
<1>5. ASSUME UNCHANGED <<loop, owing, refused, cron, main>>
      PROVE  JoinInv'
  BY <1>1, <1>5 DEF L!Joined
<1> QED
  BY <1>2, <1>3, <1>4, <1>5
     DEF Next, Rest, L!Signal, L!goroutines, L!JobRuns, L!JobQueried, L!JobEnds,
         Submits, Stores, StoreEnds, StoreStep, others, vars

LEMMA Joins == Spec => [](TypeOK /\ UploadInv /\ JoinInv)
<1>1. TypeOK /\ UploadInv /\ [Next]_vars => UploadInv'
  BY UploadNext DEF TypeOK
<1>2. Init => UploadInv
  BY UploadInit
<1>3. TypeOK /\ UploadInv /\ JoinInv /\ [Next]_vars => JoinInv'
  BY JoinNext
<1> QED
  BY <1>1, <1>2, <1>3, TypeCorrect, JoinInit, PTL DEF Spec

(* A stop cuts off neither a round of a loop nor an upload.                 *)
THEOREM CutsNothingOff == Spec => []NothingCutOff
<1>1. TypeOK /\ UploadInv /\ JoinInv => NothingCutOff
  BY DEF TypeOK, L!TypeOK, S!TypeOK, UploadInv, UploadOK, JoinInv, L!Joined,
         S!Running, NothingCutOff, L!NothingCutOff
<1> QED
  BY <1>1, Joins, PTL

(* Whatever ends in a process has ended after the signal. *)
StopInv ==
    /\ app = "worker" /\ storing # "select" => signalled
    /\ app = "master" /\ cron # "running" => signalled
    /\ main # "wait" => signalled

LEMMA StopNext ==
    ASSUME TypeOK, StopInv, [Next]_vars
    PROVE  StopInv'
<1> USE DEF StopInv
<1>0. app \in {"worker", "master"} /\ (signalled => signalled')
  BY SignalNext DEF TypeOK, L!TypeOK
<1>1. CASE CronEnds
  BY <1>0, <1>1 DEF CronEnds, Rest, uploads, L!CronStops, L!CronReturns,
                    L!Cancelled
<1>2. CASE Exits
  BY <1>0, <1>2 DEF Exits, Rest, uploads, L!Waited, L!Fatal, L!Cleanup,
                    L!goroutines, L!Joined
<1>3. CASE StoreEnds
  BY <1>0, <1>3 DEF StoreEnds, StoreStep, others, S!Done, S!StopAndWait
<1>4. ASSUME UNCHANGED <<app, storing, cron, main>>
      PROVE  StopInv'
  BY <1>0, <1>4
<1>5. ASSUME NEW b \in Batch, Submits(b) \/ Stores(b)
      PROVE  UNCHANGED <<app, storing, cron, main>>
  BY <1>5 DEF Submits, Stores, StoreStep, others, S!Submit, S!SubmitInVain,
              S!BatchStep, S!Write, S!GiveUp, S!Close, S!Uploaded,
              S!UploadFails, S!Receive
<1>6. ASSUME NEW l \in L!Loop, Loops(l)
      PROVE  UNCHANGED <<app, storing, cron, main>>
  BY <1>6 DEF Loops, Rest, uploads, L!LoopStep, L!Stops, L!Enters, L!Claims,
              L!Records
<1>7. ASSUME NEW j \in Job, UNCHANGED uploads,
             L!JobRuns(j) \/ L!JobQueried(j) \/ L!JobEnds(j)
      PROVE  UNCHANGED <<app, storing, cron, main>>
  BY <1>7 DEF uploads, L!JobRuns, L!JobQueried, L!JobEnds
<1>8. CASE L!Signal /\ UNCHANGED uploads
  BY <1>4, <1>8 DEF uploads, L!Signal, L!goroutines
<1> QED
  BY <1>1, <1>2, <1>3, <1>4, <1>5, <1>6, <1>7, <1>8
     DEF Next, Rest, vars, uploads, others

(* main.go waits for all it has started, none of which ends before the      *)
(* context is done: the loops return nil then, and StoreS3, whose error     *)
(* would end the others, returns none before.                               *)
THEOREM ExitNeedsSignal == Spec => []ExitsOnlyOnSignal
<1>1. Init => StopInv
  BY DEF Init, L!Init, L!OnlyIn, StopInv
<1>2. TypeOK /\ StopInv /\ [Next]_vars => StopInv'
  BY StopNext
<1>3. StopInv => ExitsOnlyOnSignal
  BY DEF StopInv, ExitsOnlyOnSignal, L!ExitsOnlyOnSignal
<1> QED
  BY <1>1, <1>2, <1>3, TypeCorrect, PTL DEF Spec

-----------------------------------------------------------------------------
(* To the rest of the process StoreS3 is one step, which comes when the     *)
(* context is done.                                                         *)
LEMMA LifeStep ==
    ASSUME TypeOK, StoreOK, [Next]_vars
    PROVE  [L!Next]_L!vars
<1> USE DEF L!vars, L!goroutines
<1>1. ASSUME NEW l \in L!Loop, Loops(l)
      PROVE  L!Next
  BY <1>1 DEF Loops, Rest, L!Next
<1>2. CASE CronEnds \/ Exits
  BY <1>2 DEF CronEnds, Exits, Rest, L!Next, L!Ending
<1>3. ASSUME NEW j \in Job, L!JobRuns(j) \/ L!JobQueried(j) \/ L!JobEnds(j)
      PROVE  L!Next
  BY <1>3 DEF L!Next
<1>4. CASE L!Signal
  BY <1>4 DEF L!Next
<1>5. CASE StoreStep(S!StopAndWait)
  BY <1>5 DEF StoreStep, others, S!StopAndWait, StoreOK, L!StoreReturns,
              L!Cancelled, L!Next, L!Ending
<1>6. CASE StoreStep(S!Done)
  BY <1>6 DEF StoreStep, others, S!Done
<1>7. ASSUME NEW b \in Batch, Submits(b) \/ Stores(b)
      PROVE  UNCHANGED L!vars
  <2>1. storing' = storing
    BY <1>7 DEF Submits, Stores, StoreStep, S!Submit, S!SubmitInVain,
                S!BatchStep, S!Write, S!GiveUp, S!Close, S!Uploaded,
                S!UploadFails, S!Receive
  <2> QED
    BY <1>7, <2>1 DEF Submits, Stores, StoreStep, others
<1>8. CASE UNCHANGED vars
  BY <1>8 DEF vars, uploads, others
<1> QED
  BY <1>1, <1>2, <1>3, <1>4, <1>5, <1>6, <1>7, <1>8
     DEF Next, Rest, StoreEnds, StoreStep

(* The process with the uploads in it is a process of Lifecycle.            *)
THEOREM Refinement == Spec => ImplementsLifecycle
<1>1. Init => L!Init
  BY DEF Init
<1>2. TypeOK /\ JoinInv /\ [Next]_vars => [L!Next]_L!vars
  BY LifeStep DEF JoinInv
<1> QED
  BY <1>1, <1>2, Joins, PTL DEF Spec, ImplementsLifecycle, L!Spec
=============================================================================
