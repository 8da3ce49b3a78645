------------------------------ MODULE Indexer ------------------------------
(***************************************************************************)
(* The two halves of the indexer over their one table: a master that       *)
(* creates rows (Master), workers that claim and publish them (Worker),    *)
(* and the hourly job Monitor of internal/app/master/master.go, which      *)
(* compares the newest DONE row with the clock.                            *)
(*                                                                         *)
(* A step of one half leaves the variables of the other alone.  Only       *)
(* CreateMany belongs to both.                                             *)
(***************************************************************************)
EXTENDS Integers, FiniteSets

CONSTANTS
    Worker, Processes, NTopics, Limit, ReapAge,   \* see Worker
    SplitAfter, MaxSpan, BatchSize, MaxNow,       \* see Master
    AlertAfter                                    \* minutes in 12 hours

(* Those of Worker and of Master; the chain and its rows are given below.   *)
ASSUME IndexerAssumption ==
    /\ NTopics \in Nat \ {0}
    /\ Processes \subseteq SUBSET Worker
    /\ Limit \in Nat \ {0}
    /\ ReapAge \in Nat \ {0}
    /\ SplitAfter \in Nat \ {0}
    /\ MaxSpan \in Nat /\ SplitAfter <= MaxSpan
    /\ BatchSize \in Nat \ {0} /\ BatchSize <= SplitAfter + 1
    /\ MaxNow \in Nat
    /\ AlertAfter \in Nat

VARIABLES
    (* columns of alephium_block_time *)
    status, age,
    created,    \* created[r]: created_at, as the rank of the row's INSERT
    (* the workers and the brokers, see Worker *)
    wpc, batch, fetching, failed, left, pend, buf, sent, broke, kafka,
    settled, revoked, exposed,
    (* the master, see Master *)
    now, mpc, from, to,
    (* the call of Monitor under way, and what the last one posted *)
    latest,     \* {} or latestProcessed
    urgent      \* the last message Discord took began with "@here"

(* The windows the master may create. *)
Row ==
    {w \in [from : 0 .. MaxNow - 1, to : 1 .. MaxNow - 1] :
        w.from < w.to /\ w.to - w.from <= SplitAfter}

(* Every window has data for every topic. *)
Chain == [t \in 1 .. NTopics |-> Row]

Rows == {r \in Row : status[r] # "ABSENT"}

(* ORDER BY created_at DESC LIMIT 1 over S returns one of these. *)
NewestIn(S) == {r \in S : \A s \in S : created[s] <= created[r]}

W == INSTANCE Worker WITH pc <- wpc

M == INSTANCE Master WITH pc <- mpc, rows <- Rows, newest <- NewestIn(Rows)

locals == <<wpc, batch, fetching, failed, left, pend, buf, sent, broke>>
workers == <<status, age, locals, kafka, settled, revoked, exposed>>
master == <<created, now, mpc, from, to>>
monitor == <<latest, urgent>>
vars == <<workers, master, monitor>>

-----------------------------------------------------------------------------

Init ==
    /\ W!Init
    /\ created = [r \in Row |-> 0]
    /\ now \in 2 .. MaxNow
    /\ mpc = "sleep" /\ from = 0 /\ to = 0
    /\ latest = {}
    /\ urgent = FALSE

(* Mutants: conflicting rows are updated; the first INSERT of a call is as  *)
(* old as the last of the call before.                                      *)
FreshUpsert == M!Windows(from, to)
StampAsBefore(r) == (r.from - from) \div BatchSize

(* ON CONFLICT DO NOTHING: the rows the table has stay as they are.         *)
Fresh == M!Windows(from, to) \ Rows

(* Which of the INSERTs of CreateInBatches holds r. *)
Stamp(r) == 1 + (r.from - from) \div BatchSize

(* The master's CreateMany: new rows, NOT_READY and younger than all.       *)
CreateMany ==
    /\ mpc = "save"
    /\ W!Assign(Fresh, "NOT_READY")
    /\ LET last == CHOOSE n \in {created[r] : r \in Row} :
                      \A r \in Row : created[r] <= n
       IN  created' = [r \in Row |->
                         IF r \in Fresh THEN last + Stamp(r) ELSE created[r]]
    /\ M!Return
    /\ UNCHANGED <<now, locals, kafka, settled, revoked, exposed, monitor>>

MasterStep ==
    /\ UNCHANGED <<workers, created, monitor>>
    /\ M!FetchBlockTime \/ M!NothingToDo \/ M!CreateManyFail \/ M!Tick

WorkerHalf ==
    /\ \/ \E w \in Worker : W!WorkerStep(w)
       \/ W!UpdateFailedStatus
       \/ W!Tick
       \/ \E P \in Processes : W!Crash(P)
       \/ W!Settle
    /\ UNCHANGED <<master, monitor>>

-----------------------------------------------------------------------------
(* Monitor. *)

(* Mutants: no filter on the status; the oldest row.                        *)
ProcessedAny == NewestIn(Rows)
ProcessedOldest ==
    LET D == {r \in Row : status[r] = "DONE"}
    IN  {r \in D : \A s \in D : created[r] <= created[s]}

(* GetList: the DONE row created last, or one of several.                   *)
Processed == NewestIn({r \in Row : status[r] = "DONE"})

(* While no row is DONE, and when the query fails, the call returns without *)
(* a message.                                                               *)
GetProcessed ==
    /\ latest = {}
    /\ \E r \in Processed : latest' = {r}
    /\ UNCHANGED <<workers, master, urgent>>

(* The delay has the clock's milliseconds, so that a delay of AlertAfter    *)
(* whole minutes may or may not be above the bound.                         *)
Post ==
    /\ \E r \in latest :
          urgent' \in {now - r.to > AlertAfter, now - r.to >= AlertAfter}
    /\ latest' = {}
    /\ UNCHANGED <<workers, master>>

(* No webhook is set, or Discord does not take the message: AlertDiscord    *)
(* logs a warning, and Monitor returns nil all the same.                    *)
PostLost ==
    /\ latest # {}
    /\ latest' = {}
    /\ UNCHANGED <<workers, master, urgent>>

-----------------------------------------------------------------------------

Next ==
    \/ CreateMany
    \/ MasterStep
    \/ WorkerHalf
    \/ GetProcessed
    \/ Post
    \/ PostLost

Spec == Init /\ [][Next]_vars

(* Both halves keep running, and faults end, as in Worker and Master.       *)
Fairness ==
    /\ WF_vars(UNCHANGED <<workers, created, monitor>> /\ M!FetchBlockTime)
    /\ SF_vars(CreateMany)
    /\ WF_vars(UNCHANGED <<master, monitor>> /\ W!UpdateFailedStatus)
    /\ WF_vars(UNCHANGED <<master, monitor>> /\ W!Tick)
    /\ WF_vars(UNCHANGED <<master, monitor>> /\ W!Settle)
    /\ \A w \in Worker :
          WF_vars(UNCHANGED <<master, monitor>> /\ W!WorkerStep(w))

(* The scheduler runs Monitor every hour.  A webhook is set, and Discord    *)
(* takes a message again and again, if not each.                            *)
MonitorFairness == WF_vars(GetProcessed) /\ SF_vars(Post)

-----------------------------------------------------------------------------
(* Properties. *)

(* The worker half never sees the master but as CreateMany of Worker, and   *)
(* what the master reads back of created_at is what Master computes: what   *)
(* is checked and proved of the two alone holds of the whole.               *)
ImplementsWorker == W!Spec
ImplementsMaster == M!Spec

(* What Master promises of its windows holds of the rows that workers and   *)
(* the hourly job write to.                                                 *)
WindowsRight == M!NoGaps /\ M!WindowsValid /\ M!ResumesNearEnd /\ M!AtMostTwice

(* And what Worker promises of topics and statuses, PublishQueue, holds     *)
(* with the master that creates the rows.                                   *)
ImplementsPublishQueue == W!ImplementsPublishQueue

Published(r) == \A t \in 1 .. NTopics : r \in kafka[t]

(* Whatever the limit, no minute is lost between the two halves: up to the  *)
(* end of the last row every minute after the first is published, or in a   *)
(* row some worker will still be given.  What a batch of several loses      *)
(* within the worker (a failed fetch, an append overwritten) is in exposed. *)
EveryMinuteAccounted ==
    \A v, w \in Rows : \A m \in v.to + 1 .. w.to :
        \E r \in Rows :
            /\ M!Covers(r, m)
            /\ Published(r) \/ status[r] # "DONE" \/ r \in exposed

(* Once faults end, a time comes when every minute after the first window   *)
(* is published, whatever the two halves missed, repeated or undid before.  *)
(* Only of a window that became DONE exposed, in a batch of several, this   *)
(* is not so: it is never fetched again.                                    *)
EveryMinutePublished ==
    Fairness =>
        <>[](\A m \in 1 .. MaxNow - 1 :
                (m < now /\ \E v \in Rows : v.from < m)
                    => \E r \in Rows :
                          M!Covers(r, m) /\ (Published(r) \/ r \in exposed))

(* The row Monitor measures ends within a batch of the last DONE window:    *)
(* created_at puts the delay off by less than BatchSize minutes.            *)
MonitorNearLatest ==
    [][GetProcessed =>
        \A r \in latest' : \A s \in Row :
            status[s] # "DONE" \/ s.to - r.to < BatchSize]_vars

(* When no window that ended in the last AlertAfter minutes is ever DONE    *)
(* again, somebody is told for good, however many messages get lost, unless *)
(* none was ever DONE.  Nothing is asked of the two halves.                 *)
StallIsAlerted ==
    LET Stalled ==
            /\ \E r \in Row : status[r] = "DONE"
            /\ \A r \in Row : status[r] = "DONE" => now - r.to > AlertAfter
    IN  MonitorFairness => (<>[]Stalled => <>[]urgent)
=============================================================================
