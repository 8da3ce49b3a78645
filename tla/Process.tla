------------------------------ MODULE Process ------------------------------
(***************************************************************************)
(* One process of the indexer, the worker or the master, with the signal   *)
(* that stops it: Lifecycle in which StoreS3, one step there, is S3Stream.  *)
(* The batches in its channels are those a worker would put there; at this *)
(* commit none does (worker.go:202).                                       *)
(*                                                                         *)
(* StoreS3 has the context of FetchTxs, which is done with the signal and   *)
(* with nothing else as long as StoreS3 has not returned.                  *)
(***************************************************************************)
EXTENDS Naturals, FiniteSets

CONSTANTS
    WorkerLoop, MasterLoop, Job, Monitor,   \* see Lifecycle
    Batch, Parts, PoolSize                  \* see S3Stream

VARIABLES
    app, signalled, loop, owing, refused, querying, alerting, cron, main, pool,
    storing,    \* the loop of StoreS3
    queue, task, read, eof, uploader, errCh, panicked, object, logged

L == INSTANCE Lifecycle WITH
        store <- IF storing = "returned" THEN "returned" ELSE "running"
S == INSTANCE S3Stream WITH cancelled <- signalled, loop <- storing

ASSUME UploadAssumption == S!S3StreamAssumption

uploads == <<storing, queue, task, read, eof, uploader, errCh, panicked,
             object, logged>>
others == <<app, signalled, loop, owing, refused, querying, alerting, cron,
            main, pool>>
vars == <<uploads, others>>

Init ==
    /\ storing \in {"select", "returned"}
    /\ L!Init
    /\ S!Idle

(* A send on a closed channel panics, and takes the whole process with it.  *)
Rest(A) == ~panicked /\ UNCHANGED uploads /\ A
Loops(l) == Rest(L!LoopStep(l))

(* The steps of StoreS3 and its tasks, which the exit of the process ends.  *)
StoreStep(A) == ~panicked /\ L!Alive /\ A /\ UNCHANGED others
Stores(b) == StoreStep(S!BatchStep(b))
Submits(b) == StoreStep(S!Submit(b) \/ S!SubmitInVain(b))
StoreEnds == StoreStep(S!Done \/ S!StopAndWait)

CronEnds == Rest(L!CronStops \/ L!CronReturns)
Exits == Rest(L!Waited \/ L!Fatal \/ L!Cleanup)

Next ==
    \/ Rest(L!Signal)
    \/ \E l \in L!Loop : Loops(l)
    \/ \E b \in Batch : Submits(b) \/ Stores(b)
    \/ StoreEnds
    \/ \E j \in Job : Rest(L!JobRuns(j) \/ L!JobQueried(j) \/ L!JobEnds(j))
    \/ CronEnds
    \/ Exits

Spec == Init /\ [][Next]_vars

(* Goroutines run, S3 answers a request or the context ends it, and the     *)
(* calls of the loops to the node, the database and Kafka come back; those  *)
(* of the jobs need not.                                                    *)
SpecLive ==
    /\ Spec
    /\ \A l \in L!Loop : WF_vars(Loops(l))
    /\ \A b \in Batch : WF_vars(Submits(b)) /\ WF_vars(Stores(b))
    /\ WF_vars(StoreEnds) /\ WF_vars(CronEnds) /\ WF_vars(Exits)

-----------------------------------------------------------------------------
(* Properties. *)

(* Types; a job never runs twice at a time, and one answer at most is on    *)
(* its way to a task.                                                       *)
TypeOK == L!TypeOK /\ S!TypeOK

(* Of S3Stream: what is logged is stored, and an answer meets a channel     *)
(* that is closed only if its task gave up on a batch of several parts.     *)
LoggedIsStored == S!LoggedIsStored
NoSendOnClosed == S!NoSendOnClosed

(* Of S3Stream: only a batch of several parts is left with a task that      *)
(* writes to nobody; what the end of StoreS3 depends on is its size.        *)
StuckOnlyIfLarge == S!StuckOnlyIfLarge

(* Of Lifecycle: without a signal the process runs for ever.                *)
ExitsOnlyOnSignal == L!ExitsOnlyOnSignal

(* A stop cuts nothing off: the process does not exit before every round    *)
(* under way has told the table what came of it (Lifecycle), nor under an   *)
(* upload: every batch is either not submitted or over, its uploader        *)
(* included, unless its task gave up and left that one at the pipe.         *)
NothingCutOff ==
    /\ L!NothingCutOff
    /\ main = "exited" =>
          \A b \in Batch :
              /\ task[b] \in {"none", "done", "gaveUp"}
              /\ uploader[b] = "upload" => task[b] = "gaveUp"

(* StoreS3 is to the rest of the process what Lifecycle takes it for: it    *)
(* returns when the context is done, and not before.                        *)
ImplementsLifecycle == L!Spec

(* And StoreS3 of the worker is S3Stream, with the signal for its context:  *)
(* nothing the rest of the process does, the exit included, disturbs it.    *)
(* That of the master has returned before it starts.                        *)
StoreIsS3Stream ==
    /\ app = "worker" => S!Init
    /\ [][S!Next]_S!vars

(* Of a batch of several parts, that is.                                    *)
AnyStuck == \E b \in Batch : S!Stuck(b) /\ Parts[b] > 1

(* A signal ends the process, even if a job hangs, unless a task of StoreS3 *)
(* writes more than one part to an uploader that has given up.              *)
StopEndsUnlessStuck == signalled ~> main = "exited" \/ panicked \/ AnyStuck

(* While the worker runs, the tasks of a pool too small for all of them     *)
(* come to their ends, whatever S3 answers, unless one is stuck.            *)
EveryBatchEnds ==
    \A b \in Batch :
        app = "worker" ~>
            \/ task[b] \in {"done", "gaveUp"}
            \/ signalled \/ panicked \/ AnyStuck

(* The master closes its connections before it exits.                       *)
MasterCleansUp == app = "master" /\ signalled ~> pool = "closed"

(* main.go:52, "cleanup() // close connection such as db, redis, kafka,...": *)
(* so does either process.                                                  *)
CleanupRuns == signalled ~> pool = "closed"
=============================================================================
