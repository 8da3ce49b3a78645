------------------------------ MODULE S3Stream ------------------------------
(***************************************************************************)
(* StoreS3 of internal/app/worker/worker.go and FileStreamWriter of        *)
(* internal/service/s3_service.go: a loop takes batches of blocks, txs or  *)
(* events from three channels and gives each to a pool of goroutines; the  *)
(* task of a batch writes it, gzipped, into a pipe that a goroutine of its *)
(* own uploads from, and waits for that one's answer on errCh.             *)
(*                                                                         *)
(* The three cases of the select are the same but for the type.  A batch   *)
(* is so many parts of 5 MB, what the uploader reads before it talks to    *)
(* S3.  The object of a batch is one of S3's: all there or absent.         *)
(***************************************************************************)
EXTENDS Naturals, FiniteSets

CONSTANTS
    Batch,
    Parts,      \* Parts[b]: parts the batch is cut into
    PoolSize    \* goroutines of the pool

S3StreamAssumption ==
    /\ Parts \in [Batch -> Nat \ {0}]
    /\ PoolSize \in Nat \ {0}

VARIABLES
    cancelled,  \* the context is done
    loop,       \* "select", "wait" (StopAndWait) or "returned"
    queue,      \* batches in blocksCh, txsCh and eventsCh
    task,       \* task[b]: "none", "write", "receive", "done" or "gaveUp"
    read,       \* read[b]: parts that went through the pipe
    eof,        \* eof[b]: pw is closed
    uploader,   \* uploader[b]: "none", "upload" or "sent"
    errCh,      \* errCh[b]: what was sent and not yet received
    panicked,   \* a send on a closed channel has ended the process
    object,     \* batches whose object is in S3
    logged      \* batches logged as "submit .. to S3 success"

vars == <<cancelled, loop, queue, task, read, eof, uploader, errCh, panicked,
          object, logged>>

Set(f, b, v) == f' = [f EXCEPT ![b] = v]

(* The task has returned, and so run its deferred close(errCh).             *)
Closed(b) == task[b] \in {"done", "gaveUp"}

Send(b, answer) ==
    IF Closed(b)
    THEN panicked' = TRUE /\ UNCHANGED errCh
    ELSE Set(errCh, b, errCh[b] \cup {answer}) /\ UNCHANGED panicked

Running == {b \in Batch : task[b] \in {"write", "receive"}}

(* Nothing is submitted yet. *)
Idle ==
    /\ queue = Batch
    /\ task = [b \in Batch |-> "none"]
    /\ read = [b \in Batch |-> 0]
    /\ eof = [b \in Batch |-> FALSE]
    /\ uploader = [b \in Batch |-> "none"]
    /\ errCh = [b \in Batch |-> {}]
    /\ panicked = FALSE
    /\ object = {}
    /\ logged = {}

Init == cancelled = FALSE /\ loop = "select" /\ Idle

-----------------------------------------------------------------------------
(* The loop. *)

(* Submit waits for an idle goroutine; the task starts with                 *)
(* FileStreamWriter, which starts the uploader.                             *)
Submit(b) ==
    /\ loop = "select"
    /\ b \in queue
    /\ Cardinality(Running) < PoolSize
    /\ queue' = queue \ {b}
    /\ Set(task, b, "write")
    /\ Set(uploader, b, "upload")
    /\ UNCHANGED <<cancelled, loop, read, eof, errCh, panicked,
                   object, logged>>

(* select may still take a batch when the context is done: the pool, whose  *)
(* context it is too, has no goroutine for it any more.                     *)
SubmitInVain(b) ==
    /\ loop = "select"
    /\ cancelled
    /\ b \in queue
    /\ queue' = queue \ {b}
    /\ UNCHANGED <<cancelled, loop, task, read, eof, uploader, errCh, panicked,
                   object, logged>>

(* Mutant: it returns when the channels are empty. *)
DoneWhenEmpty ==
    /\ loop = "select"
    /\ queue = {}
    /\ loop' = "wait"
    /\ UNCHANGED <<cancelled, queue, task, read, eof, uploader, errCh, panicked,
                   object, logged>>

Done ==
    /\ loop = "select"
    /\ cancelled
    /\ loop' = "wait"
    /\ UNCHANGED <<cancelled, queue, task, read, eof, uploader, errCh, panicked,
                   object, logged>>

(* The deferred StopAndWait. *)
StopAndWait ==
    /\ loop = "wait"
    /\ Running = {}
    /\ loop' = "returned"
    /\ UNCHANGED <<cancelled, queue, task, read, eof, uploader, errCh, panicked,
                   object, logged>>

-----------------------------------------------------------------------------
(* The task of a batch and its uploader. *)

(* A write into the pipe ends when the uploader has read it.                *)
Write(b) ==
    /\ task[b] = "write"
    /\ uploader[b] = "upload"
    /\ read[b] < Parts[b]
    /\ Set(read, b, read[b] + 1)
    /\ UNCHANGED <<cancelled, loop, queue, task, eof, uploader, errCh, panicked,
                   object, logged>>

(* Mutants: pw is not closed; the task does not wait for the answer.        *)
CloseNothing(b) ==
    /\ task[b] = "write" /\ read[b] = Parts[b]
    /\ Set(task, b, "receive")
    /\ UNCHANGED <<cancelled, loop, queue, read, eof, uploader, errCh, panicked,
                   object, logged>>
CloseAndGo(b) ==
    /\ task[b] = "write" /\ read[b] = Parts[b]
    /\ Set(eof, b, TRUE) /\ Set(task, b, "done")
    /\ logged' = logged \cup {b}
    /\ UNCHANGED <<cancelled, loop, queue, read, uploader, errCh, panicked,
                   object>>

(* json.Marshal fails, as of an event that has a value of no known kind: a  *)
(* line in the log, and the task returns.  pw is never closed.              *)
GiveUp(b) ==
    /\ task[b] = "write" /\ read[b] < Parts[b]
    /\ Set(task, b, "gaveUp")
    /\ UNCHANGED <<cancelled, loop, queue, read, eof, uploader, errCh, panicked,
                   object, logged>>

(* zw.Close, pw.Close *)
Close(b) ==
    /\ task[b] = "write" /\ read[b] = Parts[b]
    /\ Set(eof, b, TRUE) /\ Set(task, b, "receive")
    /\ UNCHANGED <<cancelled, loop, queue, read, uploader, errCh, panicked,
                   object, logged>>

(* UploadWithContext returns nil, at the end of the pipe, and that is sent. *)
Uploaded(b) ==
    /\ uploader[b] = "upload"
    /\ eof[b]
    /\ object' = object \cup {b}
    /\ Send(b, "nil") /\ Set(uploader, b, "sent")
    /\ UNCHANGED <<cancelled, loop, queue, task, read, eof, logged>>

(* Mutant: it sends the error and goes on. *)
UploadFailsAndGoesOn(b) ==
    /\ uploader[b] = "upload"
    /\ eof[b] \/ (0 < read[b] /\ read[b] < Parts[b])
    /\ Send(b, "err")
    /\ UNCHANGED <<cancelled, loop, queue, task, read, eof, uploader, object,
                   logged>>

(* It returns an error, S3's or that the context is done: at the end of the *)
(* pipe, or with one part read and more to come, which it leaves unread.    *)
(* The object may be there all the same if it was the end.                  *)
UploadFails(b) ==
    /\ uploader[b] = "upload"
    /\ eof[b] \/ (0 < read[b] /\ read[b] < Parts[b])
    /\ object' \in {object, IF eof[b] THEN object \cup {b} ELSE object}
    /\ Send(b, "err") /\ Set(uploader, b, "sent")
    /\ UNCHANGED <<cancelled, loop, queue, task, read, eof, logged>>

(* Mutant: returnErr is not looked at.                                      *)
SuccessAlways(b) == {b}

Success(b) == IF errCh[b] = {"nil"} THEN {b} ELSE {}

(* <-errCh, and the deferred close of it. *)
Receive(b) ==
    /\ task[b] = "receive"
    /\ errCh[b] # {}
    /\ logged' = logged \cup Success(b)
    /\ Set(errCh, b, {}) /\ Set(task, b, "done")
    /\ UNCHANGED <<cancelled, loop, queue, read, eof, uploader, panicked,
                   object>>

-----------------------------------------------------------------------------

Cancel ==
    /\ ~cancelled
    /\ cancelled' = TRUE
    /\ UNCHANGED <<loop, queue, task, read, eof, uploader, errCh, panicked,
                   object, logged>>

BatchStep(b) ==
    \/ Write(b) \/ GiveUp(b) \/ Close(b)
    \/ Uploaded(b) \/ UploadFails(b)
    \/ Receive(b)

Next ==
    /\ ~panicked
    /\ \/ \E b \in Batch : Submit(b) \/ SubmitInVain(b) \/ BatchStep(b)
       \/ Done
       \/ StopAndWait
       \/ Cancel

Spec == Init /\ [][Next]_vars

-----------------------------------------------------------------------------
(* Properties. *)

(* Types; one answer at most is on its way. *)
TypeOK ==
    /\ cancelled \in BOOLEAN
    /\ loop \in {"select", "wait", "returned"}
    /\ queue \subseteq Batch
    /\ task \in [Batch -> {"none", "write", "receive", "done", "gaveUp"}]
    /\ \A b \in Batch : read[b] \in 0 .. Parts[b]
    /\ eof \in [Batch -> BOOLEAN]
    /\ uploader \in [Batch -> {"none", "upload", "sent"}]
    /\ errCh \in [Batch -> {{}, {"nil"}, {"err"}}]
    /\ panicked \in BOOLEAN
    /\ object \subseteq Batch /\ logged \subseteq Batch

(* "submit blocks .. to S3 success" is logged of objects that are there,    *)
(* whole: nothing but the answer on errCh relates the two goroutines.       *)
LoggedIsStored == logged \subseteq object

(* errCh is closed by the task and sent on by the uploader, whom nobody     *)
(* recovers.  A task that comes to its end has had the answer; and if a     *)
(* send does meet a closed channel, some task of a batch of several parts   *)
(* had given up with its uploader at work.  One part alone is not sent to   *)
(* S3 before the pipe is closed, which giving up forgets.                   *)
NoSendOnClosed ==
    /\ \A b \in Batch : task[b] = "done" => uploader[b] = "sent"
    /\ panicked => \E b \in Batch : task[b] = "gaveUp" /\ Parts[b] > 1

(* A task that writes to an uploader that has given up: nobody reads the    *)
(* pipe, nor closes it, so its write never returns.                         *)
Stuck(b) == task[b] = "write" /\ uploader[b] = "sent"

(* No batch of one part gets stuck. *)
StuckOnlyIfLarge == \A b \in Batch : Stuck(b) => Parts[b] > 1
=============================================================================
