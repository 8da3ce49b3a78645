------------------------------- MODULE Worker -------------------------------
(***************************************************************************)
(* The worker half of the indexer: the goroutines of                       *)
(* internal/app/worker/worker.go, each looping over fetchData, and the     *)
(* Postgres table alephium_block_time through which they share the work    *)
(* with each other and with the master's update_failed_status job.         *)
(*                                                                         *)
(* A row of the table is a time window of the chain.  One call of          *)
(* fetchData claims a batch of rows in a transaction (SELECT .. FOR UPDATE *)
(* SKIP LOCKED, then status := PROCESSING), fetches every window in a      *)
(* goroutine of its own, publishes what the goroutines collected on three  *)
(* Kafka topics, and writes DONE or FAIL to the whole batch.  The data of  *)
(* one window for one topic is abstracted to the row itself.               *)
(***************************************************************************)
EXTENDS Naturals, FiniteSets

CONSTANTS
    Worker,     \* the goroutines running the fetchData loop, of all processes
    Processes,  \* the worker processes: sets of goroutines that crash together
    Row,        \* the REALTIME rows alephium_block_time may come to hold
    NTopics,    \* number of topics; 1 is blocks, 2 is txs, 3 is events
    Chain,      \* Chain[t]: the rows whose window has data for topic t
    Limit,      \* limitCheckpoints
    ReapAge     \* clock ticks in the hour UpdateFailedStatus waits

Topic == 1 .. NTopics
BlocksTopic == 1

ASSUME WorkerAssumption ==
    /\ IsFiniteSet(Row)
    /\ NTopics \in Nat \ {0}
    /\ Chain \in [Topic -> SUBSET Row]
    /\ Processes \subseteq SUBSET Worker
    /\ Limit \in Nat \ {0}
    /\ ReapAge \in Nat \ {0}

(* ABSENT: the master has not created the row yet. *)
Status == {"ABSENT", "NOT_READY", "PROCESSING", "DONE", "FAIL"}

VARIABLES
    (* columns of alephium_block_time *)
    status,     \* status[r]
    age,        \* age[r]: ticks since updated_at, tracked while PROCESSING
    (* locals of the fetchData call each goroutine is in *)
    pc,         \* "idle", "tx", "txerr", "fetch" or "send"
    batch,      \* blockStatuses
    fetching,   \* rows of the batch whose retry.DoWithData has not returned
    failed,     \* rows of the batch whose fetch returned an error
    left,       \* left[w][r]: topics row r's goroutine has still to append to
    pend,       \* pend[w][r]: {} or {the slice it has read for its append}
    buf,        \* buf[w][t]: the shared slices blocks, txs and events
    sent,       \* sent[w][t]: rows of buf[w][t] SendJson has returned nil for
    broke,      \* topics whose sending goroutine returned an error
    (* the brokers *)
    kafka,      \* kafka[t]: rows whose data on topic t is stored
    (* ghosts *)
    settled,    \* no fault happens any more
    revoked,    \* revoked[w]: rows whose status was written while w owned them
    exposed     \* DONE rows whose batch may have lost their data

table == <<status, age>>
appends == <<left, pend, buf>>
sends == <<sent, broke, kafka, exposed>>
locals == <<pc, batch, fetching, failed, left, pend, buf, sent, broke>>
vars == <<table, locals, kafka, settled, revoked, exposed>>

-----------------------------------------------------------------------------
(* The table and its row locks. *)

(* Mutants: the claim query forgets FAIL, or only leaves out PROCESSING.     *)
ClaimableNewOnly == {"NOT_READY"}
ClaimableNotTaken == {"NOT_READY", "FAIL", "DONE"}

Claimable == {"NOT_READY", "FAIL"}

(* Mutant: no FOR UPDATE. *)
LockedNothing == {}

(* Rows locked by an open claim transaction. *)
Locked == UNION {batch[w] : w \in {v \in Worker : pc[v] = "tx"}}

(* Rows the claim query can return: SKIP LOCKED leaves the others out. *)
Eligible == {r \in Row : status[r] \in Claimable} \ Locked

(* No ORDER BY: the query returns any Limit eligible rows, or all of them. *)
ClaimSets ==
    {S \in SUBSET Eligible :
        /\ S # {}
        /\ \/ Cardinality(S) = Limit
           \/ S = Eligible /\ Cardinality(S) < Limit}

Owning == {"tx", "fetch", "send"}
Owns(w, r) == pc[w] \in Owning /\ r \in batch[w]

Assign(S, st) ==
    /\ status' = [r \in Row |-> IF r \in S THEN st ELSE status[r]]
    /\ age' = [r \in Row |-> IF r \in S THEN 0 ELSE age[r]]

(* A status is written to the rows of S: the calls that own one of them     *)
(* after the step have lost it.                                             *)
Revoke(S) ==
    revoked' = [w \in Worker |-> {r \in revoked[w] \cup S : Owns(w, r)'}]

(* The rows that turn DONE are exposed if they are in S; those that are     *)
(* DONE no more have nothing to tell.                                       *)
Expose(S) ==
    exposed' = {r \in Row :
                   /\ status'[r] = "DONE"
                   /\ r \in IF status[r] = "DONE" THEN exposed ELSE S}

(* UPDATE .. SET status WHERE id IN S waits for the locks of other          *)
(* transactions and compares nothing with the row's present status.  The    *)
(* caller ignores its error, so a failed statement changes no row and the   *)
(* caller goes on all the same.                                             *)
UpdateStatus(S, st) ==
    \/ /\ S \cap Locked = {}
       /\ Assign(S, st)
       /\ Revoke(S)
    \/ ~settled /\ UNCHANGED table /\ Revoke({})

(* The calls of the goroutines in P are over: returned, or crashed. *)
EndCalls(P) ==
    LET Reset(f, v) == [w \in Worker |-> IF w \in P THEN v ELSE f[w]]
    IN  /\ pc' = Reset(pc, "idle")
        /\ batch' = Reset(batch, {})
        /\ fetching' = Reset(fetching, {})
        /\ failed' = Reset(failed, {})
        /\ left' = Reset(left, [r \in Row |-> {}])
        /\ pend' = Reset(pend, [r \in Row |-> {}])
        /\ buf' = Reset(buf, [t \in Topic |-> {}])
        /\ sent' = Reset(sent, [t \in Topic |-> {}])
        /\ broke' = Reset(broke, {})

Init ==
    /\ status = [r \in Row |-> "ABSENT"]
    /\ age = [r \in Row |-> 0]
    /\ pc = [w \in Worker |-> "idle"]
    /\ batch = [w \in Worker |-> {}]
    /\ fetching = [w \in Worker |-> {}]
    /\ failed = [w \in Worker |-> {}]
    /\ left = [w \in Worker |-> [r \in Row |-> {}]]
    /\ pend = [w \in Worker |-> [r \in Row |-> {}]]
    /\ buf = [w \in Worker |-> [t \in Topic |-> {}]]
    /\ sent = [w \in Worker |-> [t \in Topic |-> {}]]
    /\ broke = [w \in Worker |-> {}]
    /\ kafka = [t \in Topic |-> {}]
    /\ settled = FALSE
    /\ revoked = [w \in Worker |-> {}]
    /\ exposed = {}

-----------------------------------------------------------------------------
(* The claim transaction. *)

(* GetList inside ExecTx: the rows are locked until the transaction ends. *)
Claim(w) ==
    /\ pc[w] = "idle"
    /\ \E S \in ClaimSets : batch' = [batch EXCEPT ![w] = S]
    /\ pc' = [pc EXCEPT ![w] = "tx"]
    /\ UNCHANGED <<table, fetching, failed, appends, sends, settled, revoked>>

(* "not found any new blocks in db": the call returns. *)
NoNewBlocks(w) ==
    /\ pc[w] = "idle"
    /\ Eligible = {}
    /\ UNCHANGED vars

(* status := PROCESSING and COMMIT.  When the answer to COMMIT is lost the  *)
(* rows are PROCESSING in the table and ExecTx returns an error.            *)
CommitClaim(w) ==
    /\ pc[w] = "tx"
    /\ Assign(batch[w], "PROCESSING")
    /\ \/ /\ pc' = [pc EXCEPT ![w] = "fetch"]
          /\ fetching' = [fetching EXCEPT ![w] = batch[w]]
       \/ /\ ~settled
          /\ pc' = [pc EXCEPT ![w] = "txerr"]
          /\ UNCHANGED fetching
    /\ UNCHANGED <<batch, failed, appends, sends, settled, revoked>>

(* The UPDATE or the COMMIT fails, or the closure panics: ROLLBACK. *)
RollbackClaim(w) ==
    /\ pc[w] = "tx"
    /\ ~settled
    /\ pc' = [pc EXCEPT ![w] = "txerr"]
    /\ UNCHANGED <<table, batch, fetching, failed, appends, sends,
                   settled, revoked>>

(* After dbErr, or in recover: FAIL to the rows of the transaction that is  *)
(* already over, outside any transaction.                                   *)
FailAfterTx(w) ==
    /\ pc[w] = "txerr"
    /\ EndCalls({w})
    /\ UpdateStatus(batch[w], "FAIL")
    /\ Expose({})
    /\ UNCHANGED <<kafka, settled>>

-----------------------------------------------------------------------------
(* One goroutine per claimed row. *)

(* What FetchData returns for a window: the topics its lists are for.       *)
ResponseData(r) == {t \in Topic : r \in Chain[t]}

(* FetchData answered, perhaps after retries.  The goroutine has next to    *)
(* append every list that is not empty to the slice of its topic.           *)
FetchOk(w, r) ==
    /\ r \in fetching[w]
    /\ fetching' = [fetching EXCEPT ![w] = @ \ {r}]
    /\ left' = [left EXCEPT ![w][r] = ResponseData(r)]
    /\ UNCHANGED <<table, pc, batch, failed, pend, buf, sends,
                   settled, revoked>>

(* Five attempts failed, or the context was cancelled: FAIL to this row,    *)
(* at once, while the call goes on with the rest of its batch.              *)
FetchFail(w, r) ==
    /\ ~settled
    /\ r \in fetching[w]
    /\ fetching' = [fetching EXCEPT ![w] = @ \ {r}]
    /\ failed' = [failed EXCEPT ![w] = @ \cup {r}]
    /\ UNCHANGED <<pc, batch, appends, sent, broke, kafka, settled>>
    /\ UpdateStatus({r}, "FAIL")
    /\ Expose({})

(* The appends go to blocks, then txs, then events. *)
NextTopic(w, r, t) ==
    /\ t \in left[w][r]
    /\ \A u \in left[w][r] : t <= u

(* x = append(x, ..) on a slice shared by the goroutines of the call, with  *)
(* no lock: the slice is read, and written back later.  If another append   *)
(* was written in between it is lost, and where the two wrote to the same   *)
(* spare capacity this window's data is overwritten too.                    *)
ReadSlice(w, r) ==
    /\ pend[w][r] = {}
    /\ \E t \in Topic :
          /\ NextTopic(w, r, t)
          /\ pend' = [pend EXCEPT ![w][r] = {buf[w][t]}]
    /\ UNCHANGED <<table, pc, batch, fetching, failed, left, buf, sends,
                   settled, revoked>>

WriteSlice(w, r) ==
    /\ \E t \in Topic, S \in pend[w][r] :
          /\ NextTopic(w, r, t)
          /\ \/ buf' = [buf EXCEPT ![w][t] = S \cup {r}]
             \/ buf[w][t] # S /\ buf' = [buf EXCEPT ![w][t] = S]
          /\ left' = [left EXCEPT ![w][r] = @ \ {t}]
    /\ pend' = [pend EXCEPT ![w][r] = {}]
    /\ UNCHANGED <<table, pc, batch, fetching, failed, sends,
                   settled, revoked>>

(* Mutant: wg.Add(1) inside the goroutine, wg.Wait() may miss it. *)
JoinedEarly(w) ==
    /\ pc[w] = "fetch"
    /\ \A r \in Row : left[w][r] = {}

(* wg.Wait() returns. *)
Joined(w) ==
    /\ pc[w] = "fetch"
    /\ fetching[w] = {}
    /\ \A r \in Row : left[w][r] = {}

(* Mutant: the error path of the fetch does not return. *)
AppendedFailed(w, t) == batch[w] \cap Chain[t]

(* Rows whose goroutine appended to slice t.  After wg.Wait() the slice is  *)
(* empty only if there is none: an append, raced or not, leaves a length    *)
(* above zero.                                                              *)
Appended(w, t) == (batch[w] \ failed[w]) \cap Chain[t]

(* "no data blocks to process" *)
NoBlocks(w) ==
    /\ Joined(w)
    /\ Appended(w, BlocksTopic) = {}
    /\ EndCalls({w})
    /\ UpdateStatus(batch[w], "FAIL")
    /\ Expose({})
    /\ UNCHANGED <<kafka, settled>>

StartSend(w) ==
    /\ Joined(w)
    /\ Appended(w, BlocksTopic) # {}
    /\ pc' = [pc EXCEPT ![w] = "send"]
    /\ UNCHANGED <<table, batch, fetching, failed, appends, sends,
                   settled, revoked>>

-----------------------------------------------------------------------------
(* One sending goroutine per topic, then the end of the call. *)

Unsent(w, t) == buf[w][t] \ sent[w][t]

Send(w, t, r) ==
    /\ pc[w] = "send"
    /\ t \notin broke[w]
    /\ r \in Unsent(w, t)
    /\ sent' = [sent EXCEPT ![w][t] = @ \cup {r}]
    /\ kafka' = [kafka EXCEPT ![t] = @ \cup {r}]
    /\ UNCHANGED <<table, pc, batch, fetching, failed, appends, broke,
                   settled, revoked, exposed>>

(* SendMessage gave up on a message of r: the goroutine of this topic       *)
(* stops, the others do not.  The message may be stored all the same.  What *)
(* a race overwrote in part is still in the slice in part, and sent.        *)
SendFail(w, t, r) ==
    /\ ~settled
    /\ pc[w] = "send"
    /\ t \notin broke[w]
    /\ r \in Appended(w, t) \ sent[w][t]
    /\ broke' = [broke EXCEPT ![w] = @ \cup {t}]
    /\ \/ UNCHANGED kafka
       \/ /\ r \in buf[w][t]
          /\ kafka' = [kafka EXCEPT ![t] = @ \cup {r}]
    /\ UNCHANGED <<table, pc, batch, fetching, failed, appends, sent,
                   settled, revoked, exposed>>

(* Mutants: the error of eg.Wait() is dropped; a status nobody knows. *)
OutcomeAlwaysDone(w) == "DONE"
OutcomeUnknown(w) == "PENDING"

Outcome(w) == IF broke[w] = {} THEN "DONE" ELSE "FAIL"

(* The rows of a batch of several whose fetch failed, or that shared the    *)
(* unlocked slice of a topic.                                               *)
AtRisk(w) ==
    {r \in batch[w] :
        /\ batch[w] # {r}
        /\ r \in failed[w] \/ \E t \in ResponseData(r) : Appended(w, t) # {r}}

(* eg.Wait() returned: one status for the whole batch. *)
Finish(w) ==
    /\ pc[w] = "send"
    /\ \A t \in Topic : t \in broke[w] \/ Unsent(w, t) = {}
    /\ EndCalls({w})
    /\ UpdateStatus(batch[w], Outcome(w))
    /\ Expose(AtRisk(w))
    /\ UNCHANGED <<kafka, settled>>

-----------------------------------------------------------------------------
(* The master, time and the environment. *)

(* CreateMany of the master: new rows, all of them or none. *)
CreateMany ==
    /\ \E S \in SUBSET {r \in Row : status[r] = "ABSENT"} :
          S # {} /\ Assign(S, "NOT_READY")
    /\ UNCHANGED <<locals, kafka, settled, revoked, exposed>>

(* Mutant: the job looks for rows that are DONE. *)
StaleDone == {r \in Row : status[r] = "DONE" /\ age[r] = ReapAge}

(* PROCESSING rows not updated for an hour.  A run that fails changes       *)
(* nothing and is a stuttering step.                                        *)
Stale == {r \in Row : status[r] = "PROCESSING" /\ age[r] = ReapAge}

UpdateFailedStatus ==
    /\ Stale # {}
    /\ Stale \cap Locked = {}
    /\ Assign(Stale, "FAIL")
    /\ UNCHANGED <<locals, kafka, settled, exposed>>
    /\ Revoke(Stale)

Tick ==
    LET Ageing == {r \in Row : status[r] = "PROCESSING" /\ age[r] < ReapAge}
    IN  /\ Ageing # {}
        /\ age' = [r \in Row |-> IF r \in Ageing THEN age[r] + 1 ELSE age[r]]
        /\ UNCHANGED <<status, locals, kafka, settled, revoked, exposed>>

(* A worker process dies and is restarted: open transactions roll back,     *)
(* the rest of the table stays as it is.                                    *)
Crash(P) ==
    /\ ~settled
    /\ \E w \in P : pc[w] # "idle"
    /\ EndCalls(P)
    /\ Revoke({})
    /\ UNCHANGED <<table, kafka, settled, exposed>>

(* From here on node, brokers, database and processes work. *)
Settle ==
    /\ ~settled
    /\ settled' = TRUE
    /\ UNCHANGED <<table, locals, kafka, revoked, exposed>>

-----------------------------------------------------------------------------

RowStep(w, r) ==
    \/ FetchOk(w, r)
    \/ FetchFail(w, r)
    \/ ReadSlice(w, r)
    \/ WriteSlice(w, r)

WorkerStep(w) ==
    \/ Claim(w)
    \/ NoNewBlocks(w)
    \/ CommitClaim(w)
    \/ RollbackClaim(w)
    \/ FailAfterTx(w)
    \/ \E r \in Row : RowStep(w, r)
    \/ NoBlocks(w)
    \/ StartSend(w)
    \/ \E t \in Topic, r \in Row : Send(w, t, r) \/ SendFail(w, t, r)
    \/ Finish(w)

Next ==
    \/ \E w \in Worker : WorkerStep(w)
    \/ CreateMany
    \/ UpdateFailedStatus
    \/ Tick
    \/ \E P \in Processes : Crash(P)
    \/ Settle

Spec == Init /\ [][Next]_vars

(* The job is run by the scheduler for ever, and time passes. *)
JobFairness == WF_vars(UpdateFailedStatus) /\ WF_vars(Tick)

SpecJob == Spec /\ JobFairness

(* Nothing ever fails: the first step settles. *)
SpecNoFaults == Init /\ [][Next /\ settled']_vars

(* Besides, goroutines run and, once settled, every call they make returns. *)
WorkerFairness ==
    /\ WF_vars(Settle)
    /\ \A w \in Worker : WF_vars(WorkerStep(w))

-----------------------------------------------------------------------------
(* Properties. *)

(* Types of the table's columns, of fetchData's locals and of the topics.   *)
TypeOK ==
    /\ status \in [Row -> Status]
    /\ age \in [Row -> 0 .. ReapAge]
    /\ pc \in [Worker -> {"idle", "tx", "txerr", "fetch", "send"}]
    /\ batch \in [Worker -> SUBSET Row]
    /\ fetching \in [Worker -> SUBSET Row]
    /\ failed \in [Worker -> SUBSET Row]
    /\ left \in [Worker -> [Row -> SUBSET Topic]]
    /\ pend \in [Worker -> [Row -> SUBSET SUBSET Row]]
    /\ buf \in [Worker -> [Topic -> SUBSET Row]]
    /\ sent \in [Worker -> [Topic -> SUBSET Row]]
    /\ broke \in [Worker -> SUBSET Topic]
    /\ kafka \in [Topic -> SUBSET Row]
    /\ settled \in BOOLEAN
    /\ revoked \in [Worker -> SUBSET Row]
    /\ exposed \subseteq Row

(* FOR UPDATE SKIP LOCKED gives a row to one call at a time: two calls own  *)
(* the same row only if a status was written to it under the eyes of one of *)
(* them (the per-row FAIL of a failed fetch, the FAIL after a broken claim  *)
(* transaction, the hourly job overtaking a slow call, or what follows).    *)
ClaimExclusion ==
    \A v, w \in Worker : \A r \in Row :
        v # w /\ Owns(v, r) /\ Owns(w, r) => r \in revoked[v] \cup revoked[w]

(* The row lock of the claim query still protects what it read when the     *)
(* transaction commits: PROCESSING is written over NOT_READY or FAIL, never *)
(* over DONE nor over the PROCESSING of another call, where the status would *)
(* not even change.  And NOT_READY never comes back.                        *)
ClaimsAreFresh ==
    [][/\ \A w \in Worker : CommitClaim(w) =>
              \A r \in batch[w] : status[r] \in {"NOT_READY", "FAIL"}
       /\ \A r \in Row :
              status'[r] = "NOT_READY" => status[r] \in {"ABSENT", "NOT_READY"}
      ]_vars

(* The call of w takes the step. *)
Acts(w) == <<pc[w], fetching[w]>>' # <<pc[w], fetching[w]>>

(* A DONE row is taken up again only through a write nobody guards: the     *)
(* FAIL a call writes after its broken claim transaction, or to a row it    *)
(* had lost.  No call that has its row, no job and no crash does it.        *)
ReopenedOnlyByStaleWrite ==
    [][\A r \in Row :
        status[r] = "DONE" /\ status'[r] # "DONE"
          => \E w \in Worker :
                /\ Acts(w) /\ r \in batch[w]
                /\ r \in revoked[w] \/ pc[w] = "txerr"]_vars

(* eg.Wait() joins the three senders before the status is written: a call   *)
(* that writes DONE leaves all it had collected stored on every topic.      *)
DoneAfterFlush ==
    [][\A r \in Row :
        status[r] # "DONE" /\ status'[r] = "DONE"
          => \E w \in Worker :
                /\ Owns(w, r) /\ pc'[w] = "idle"
                /\ \A t \in Topic : buf[w][t] \subseteq kafka[t]]_vars

(* A window made DONE has its data stored on a topic, but for one whose     *)
(* fetch failed and one that shared the unlocked slice of that topic with   *)
(* another of its batch.  No failed send, lost answer, crash or competing   *)
(* call skips anything; a window in a batch of its own, the steady state of *)
(* one new window a minute, is never skipped.                               *)
LostInTwoWays ==
    [][\A w \in Worker : \A r \in batch[w] : \A t \in ResponseData(r) :
        (/\ pc[w] = "send" /\ pc'[w] = "idle"
         /\ status[r] # "DONE" /\ status'[r] = "DONE")
          => \/ r \in kafka[t]
             \/ batch[w] # {r} /\ (r \in failed[w] \/ Appended(w, t) # {r})]_vars

(* DONE comes after PROCESSING, or after the FAIL of a call that has gone   *)
(* on without its claim: a window nobody claimed, or that another call made *)
(* DONE, is not made DONE by mistake.                                       *)
DoneOnlyIfClaimed ==
    [][\A r \in Row :
        status[r] # "DONE" /\ status'[r] = "DONE"
          => \/ status[r] = "PROCESSING"
             \/ /\ status[r] = "FAIL"
                /\ \E w \in Worker : Owns(w, r) /\ r \in revoked[w]]_vars

(* Some call has still to write what came of r. *)
Awaited(r) ==
    \E w \in Worker : pc[w] \in {"txerr", "fetch", "send"} /\ r \in batch[w]

(* Where nothing fails, no call forgets a row, whichever way it ends: what  *)
(* is PROCESSING is in the hands of one that has still to write to it.      *)
NothingForgotten == \A r \in Row : status[r] = "PROCESSING" => Awaited(r)

(* Rows are left PROCESSING by faults only.  What UpdateFailedStatus finds, *)
(* once there are none, was left by a fault or is still worked on.          *)
ForgottenOnlyByFaults ==
    [][settled =>
        \A r \in Row :
            status'[r] = "PROCESSING" /\ ~Awaited(r)'
              => status[r] = "PROCESSING" /\ ~Awaited(r)]_vars

(* DONE means published, whatever the limit, for every row that was alone   *)
(* in its batch, or alone in it with data for each of its topics, when it   *)
(* became DONE: no failed send, lost answer, crash, late writer or job      *)
(* makes it otherwise, then or later.                                       *)
DoneIsDelivered ==
    \A t \in Topic : \A r \in Chain[t] :
        status[r] = "DONE" => r \in kafka[t] \/ r \in exposed

(* kafka_producer.go:21, "For the data collector, we are looking for strong *)
(* consistency semantics": DONE means published, for every row.             *)
DoneIsPublished ==
    \A t \in Topic : \A r \in Chain[t] : status[r] = "DONE" => r \in kafka[t]

(* worker.go:184, "if node rpc has some errors so that it cannot return     *)
(* checkpoints => update status to failed": the call that could not fetch a *)
(* window does not write DONE to it.                                        *)
FailedFetchIsNotDone ==
    [][\A w \in Worker : \A r \in failed[w] :
        pc[w] = "send" /\ pc'[w] = "idle" /\ status[r] # "DONE"
          => status'[r] # "DONE"]_vars

(* cronjob.go:46, "update checkpoint status PENDING to FAIL if exceed 15    *)
(* mins": a run of the job leaves no row PROCESSING for longer than that.   *)
(* ReapAge = 4 makes a tick a quarter of an hour.                           *)
SweptAfterQuarterHour ==
    [][UpdateFailedStatus =>
        \A r \in Row : status'[r] = "PROCESSING" => age'[r] <= 1]_vars

(* Every step of the worker half is a step of PublishQueue, or none, if a   *)
(* row counts as done when it is DONE and not exposed.                      *)
PQ == INSTANCE PublishQueue
        WITH published <- kafka,
             done <- {r \in Row : status[r] = "DONE"} \ exposed

ImplementsPublishQueue == PQ!Spec

(* No row stays PROCESSING for ever, whatever crashes, hangs or forgets to  *)
(* write its status: the hourly job is enough, no call has to return.       *)
StuckRowsRecovered ==
    \A r \in Row : status[r] = "PROCESSING" ~> status[r] # "PROCESSING"

(* Once faults stop, every window that has blocks ends up DONE for good,    *)
(* also beside windows without blocks, which are FAILed and taken again for *)
(* ever.                                                                    *)
EventuallyDone ==
  WorkerFairness =>
    \A r \in Chain[BlocksTopic] : <>[](status[r] \in {"ABSENT", "DONE"})

=============================================================================
