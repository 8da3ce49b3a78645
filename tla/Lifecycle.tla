----------------------------- MODULE Lifecycle -----------------------------
(***************************************************************************)
(* From the signal to the exit: cmd/worker/main.go and cmd/master/main.go, *)
(* the Start of either app, and the goroutines it waits for.               *)
(*                                                                         *)
(* The worker has loops that call fetchData and one goroutine for StoreS3,  *)
(* here a single step (see S3Stream and Process).  The master has one      *)
(* loop, FetchTimeRange, and a scheduler with its jobs.  The context of    *)
(* all of them is done when the process gets its signal, or when one of    *)
(* them has returned an error.                                             *)
(***************************************************************************)
EXTENDS Naturals

CONSTANTS
    WorkerLoop, MasterLoop,
    Job,        \* jobs of the scheduler
    Monitor     \* the one that sends messages to Discord

VARIABLES
    app,        \* "worker" or "master"
    signalled,  \* the signal came
    loop,       \* loop[l]: "select", "claim", "work" or "returned"
    owing,      \* loops that owe the table what came of their batch
    refused,    \* loops whose write of it the database refused
    store,      \* "running" or "returned"
    querying,   \* querying[j]: runs of job j that use the database
    alerting,   \* alerting[j]: runs of job j in their call to Discord
    cron,       \* "running", "shutdown" or "returned"
    main,       \* "wait", "fatal", "stop" or "exited"
    pool        \* "open" or "closed": connections, of what cleanup closes

goroutines == <<loop, owing, refused, store, querying, alerting, cron>>
vars == <<app, signalled, goroutines, main, pool>>

Loop == WorkerLoop \cup MasterLoop
Started == IF app = "worker" THEN WorkerLoop ELSE MasterLoop
OnlyIn(a, state) == IF app = a THEN state ELSE "returned"

Init ==
    /\ app \in {"worker", "master"}
    /\ signalled = FALSE
    /\ loop = [l \in Loop |-> IF l \in Started THEN "select" ELSE "returned"]
    /\ owing = {} /\ refused = {}
    /\ store = OnlyIn("worker", "running")
    /\ querying = [j \in Job |-> 0]
    /\ alerting = [j \in Job |-> 0]
    /\ cron = OnlyIn("master", "running")
    /\ main = "wait"
    /\ pool = "open"

(* The error of StoreS3's goroutine ends the group's context too.           *)
Cancelled == signalled \/ (app = "worker" /\ store = "returned")

Signal ==
    /\ ~signalled
    /\ signalled' = TRUE
    /\ UNCHANGED <<app, goroutines, main, pool>>

Alive == main # "exited"
GoTo(l, place) == Alive /\ loop' = [loop EXCEPT ![l] = place]

-----------------------------------------------------------------------------
(* The loops: select, and by default a round of work and a cooldown.        *)

(* Mutant: a loop that does not look at the context. *)
NeverStops(l) == FALSE /\ UNCHANGED vars

Stops(l) ==
    /\ loop[l] = "select"
    /\ Cancelled
    /\ GoTo(l, "returned")
    /\ UNCHANGED <<app, signalled, owing, refused, store, querying, alerting,
                   cron, main, pool>>

Enters(l) ==
    /\ loop[l] = "select"
    /\ ~Cancelled
    /\ GoTo(l, "claim")
    /\ UNCHANGED <<app, signalled, owing, refused, store, querying, alerting,
                   cron, main, pool>>

(* A batch is claimed, or windows are planned; or there is nothing to do,   *)
(* or the transaction failed, as it does when the context is done.          *)
Claims(l) ==
    /\ loop[l] = "claim"
    /\ \/ /\ GoTo(l, "work")
          /\ owing' = owing \cup {l} /\ refused' = refused \ {l}
       \/ GoTo(l, "select") /\ UNCHANGED <<owing, refused>>
    /\ UNCHANGED <<app, signalled, store, querying, alerting, cron, main,
                   pool>>

(* Mutant: the statement has the context of the loop.                       *)
WrittenInTime == ~Cancelled

(* getDB gives a statement outside a transaction no context: it is carried  *)
(* out after the signal as before it.                                       *)
Written == TRUE

(* The sends do not look at the context either, and the fetches that fail   *)
(* of it are FAILed: the round ends with updateBlockTimeStatus, or with     *)
(* CreateMany.  Where the database refuses that, the round ends all the     *)
(* same: fetchData drops the error, fetchBlockTime hands it to its loop.    *)
Records(l) ==
    /\ loop[l] = "work"
    /\ GoTo(l, "select")
    /\ \/ /\ owing' = IF Written THEN owing \ {l} ELSE owing
          /\ UNCHANGED refused
       \/ refused' = refused \cup {l} /\ UNCHANGED owing
    /\ UNCHANGED <<app, signalled, store, querying, alerting, cron, main,
                   pool>>

(* StoreS3, whatever it waits for. *)
StoreReturns ==
    /\ Alive
    /\ store = "running"
    /\ Cancelled
    /\ store' = "returned"
    /\ UNCHANGED <<app, signalled, loop, owing, refused, querying, alerting,
                   cron, main, pool>>

-----------------------------------------------------------------------------
(* The scheduler. *)

(* Mutant: without singleton mode. *)
MayRunTwice(j) == TRUE

(* LimitModeReschedule: a run that is due while one is under way is left    *)
(* out.                                                                     *)
MayRun(j) == querying[j] = 0 /\ alerting[j] = 0

JobRuns(j) ==
    /\ Alive
    /\ cron = "running"
    /\ MayRun(j)
    /\ querying' = [querying EXCEPT ![j] = @ + 1]
    /\ UNCHANGED <<app, signalled, loop, owing, refused, store, alerting,
                   cron, main, pool>>

(* Monitor sends a message once it has read the database.                   *)
JobQueried(j) ==
    /\ Alive
    /\ querying[j] > 0
    /\ querying' = [querying EXCEPT ![j] = @ - 1]
    /\ \/ UNCHANGED alerting
       \/ j = Monitor /\ alerting' = [alerting EXCEPT ![j] = @ + 1]
    /\ UNCHANGED <<app, signalled, loop, owing, refused, store, cron, main,
                   pool>>

JobEnds(j) ==
    /\ Alive
    /\ alerting[j] > 0
    /\ alerting' = [alerting EXCEPT ![j] = @ - 1]
    /\ UNCHANGED <<app, signalled, loop, owing, refused, store, querying,
                   cron, main, pool>>

CronStops ==
    /\ Alive
    /\ cron = "running"
    /\ Cancelled
    /\ cron' = "shutdown"
    /\ UNCHANGED <<app, signalled, loop, owing, refused, store, querying,
                   alerting, main, pool>>

(* The deferred Shutdown waits for the jobs, for so long: neither their     *)
(* queries nor the call to Discord end with the context.                    *)
CronReturns ==
    /\ Alive
    /\ cron = "shutdown"
    /\ cron' = "returned"
    /\ UNCHANGED <<app, signalled, loop, owing, refused, store, querying,
                   alerting, main, pool>>

-----------------------------------------------------------------------------
(* main *)

(* Mutant: main waits for StoreS3 and the scheduler only. *)
JoinedSome == store = "returned" /\ cron = "returned"

Joined ==
    /\ \A l \in Loop : loop[l] = "returned"
    /\ store = "returned" /\ cron = "returned"

(* Mutant: a loop stopped by its context returns ctx.Err(). *)
FailedAlways == TRUE

(* What eg.Wait returns: StoreS3's goroutine returns an error in any case,  *)
(* the others nil.                                                          *)
Failed == app = "worker"

Waited ==
    /\ main = "wait"
    /\ Joined
    /\ main' = IF Failed THEN "fatal" ELSE "stop"
    /\ UNCHANGED <<app, signalled, goroutines, pool>>

(* logger.Fatal ends the process: the deferred function does not run.       *)
Fatal ==
    /\ main = "fatal"
    /\ main' = "exited"
    /\ UNCHANGED <<app, signalled, goroutines, pool>>

(* The deferred function: app.Stop does nothing, cleanup closes.            *)
Cleanup ==
    /\ main = "stop"
    /\ pool' = "closed"
    /\ main' = "exited"
    /\ UNCHANGED <<app, signalled, goroutines>>

-----------------------------------------------------------------------------

LoopStep(l) == Stops(l) \/ Enters(l) \/ Claims(l) \/ Records(l)
Ending ==
    \/ StoreReturns \/ CronStops \/ CronReturns
    \/ Waited \/ Fatal \/ Cleanup

Next ==
    \/ Signal
    \/ \E l \in Loop : LoopStep(l)
    \/ \E j \in Job : JobRuns(j) \/ JobQueried(j) \/ JobEnds(j)
    \/ Ending

Spec == Init /\ [][Next]_vars

-----------------------------------------------------------------------------
(* Properties. *)

(* Types; a job never runs twice at a time (singleton mode).                *)
TypeOK ==
    /\ app \in {"worker", "master"}
    /\ signalled \in BOOLEAN
    /\ loop \in [Loop -> {"select", "claim", "work", "returned"}]
    /\ store \in {"running", "returned"}
    /\ querying \in [Job -> 0 .. 1] /\ alerting \in [Job -> 0 .. 1]
    /\ \A j \in Job : querying[j] + alerting[j] <= 1
    /\ cron \in {"running", "shutdown", "returned"}
    /\ main \in {"wait", "fatal", "stop", "exited"}
    /\ pool \in {"open", "closed"}
    /\ owing \subseteq Loop /\ refused \subseteq Loop

(* A stop cuts off no round: the process does not exit, nor close its       *)
(* connections, before every round of fetchData under way, or of            *)
(* fetchBlockTime, has told the table what came of it.  Only a write the    *)
(* database refused leaves rows PROCESSING.                                 *)
NothingCutOff == main = "exited" => owing \subseteq refused

(* Without a signal the worker and the master run for ever.                 *)
ExitsOnlyOnSignal == main = "exited" => signalled
=============================================================================
