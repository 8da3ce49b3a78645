------------------------------- MODULE Master -------------------------------
(***************************************************************************)
(* The master's FetchTimeRange loop, internal/app/master/master.go: once a *)
(* minute fetchBlockTime looks up the row it created last, and cuts what   *)
(* has been confirmed since into new rows, the windows the workers fetch.  *)
(*                                                                         *)
(* The unit of time is the minute.  The window [from |-> i, to |-> j] is   *)
(* the row with FromTs = 60000 * i + 1 and ToTs = 60000 * j: it holds the  *)
(* minutes i+1 .. j.                                                       *)
(***************************************************************************)
EXTENDS Integers, FiniteSets

CONSTANTS
    SplitAfter,  \* longest window in minutes: the 1800000 of fetchBlockTime
    MaxSpan,     \* the 1800000 of BlockTime.Validate
    BatchSize,   \* rows per INSERT of CreateInBatches
    MaxNow       \* bound on the clock

ASSUME MasterAssumption ==
    /\ SplitAfter \in Nat \ {0}
    /\ MaxSpan \in Nat
    /\ SplitAfter <= MaxSpan
    /\ BatchSize \in Nat \ {0}
    /\ BatchSize <= SplitAfter + 1
    /\ MaxNow \in Nat

VARIABLES
    now,     \* the clock, in whole minutes
    rows,    \* the REALTIME windows of alephium_block_time
    newest,  \* the rows that share the greatest created_at
    pc,      \* "sleep" or "save"
    from,    \* locals of fetchBlockTime: fromBlockTime
    to       \* and toBlockTime

vars == <<now, rows, newest, pc, from, to>>

Window == [from : Int, to : Int]

Minutes(w) == w.from + 1 .. w.to
Covers(w, m) == w.from < m /\ m <= w.to
Covered(m) == \E w \in rows : Covers(w, m)

-----------------------------------------------------------------------------
(* What fetchBlockTime creates. *)

(* Mutant: the comparison is off by one.                                    *)
WindowsTooLong(f, t) ==
    IF t - f > SplitAfter + 1
    THEN {[from |-> i, to |-> i + 1] : i \in f .. t - 1}
    ELSE {[from |-> f, to |-> t]}

(* One window for all there is to do, or one for every minute of it.        *)
Windows(f, t) ==
    IF t - f > SplitAfter
    THEN {[from |-> i, to |-> i + 1] : i \in f .. t - 1}
    ELSE {[from |-> f, to |-> t]}

(* Mutant: one created_at for all the rows of a call.                       *)
NewestOneStamp(new) == IF new = {} THEN newest ELSE new

(* CreateInBatches sends BatchSize rows in one INSERT, which stamps them    *)
(* with one created_at.  ON CONFLICT DO NOTHING skips the windows the table *)
(* already has.                                                             *)
NewestOf(new) ==
    LET Batch(w) == (w.from - from) \div BatchSize
    IN  IF new = {}
        THEN newest
        ELSE {w \in new : \A v \in new : Batch(v) <= Batch(w)}

(* Mutants: the row found is not used; its FromTs is.                       *)
ResumePointsNow == {now - 2}
ResumePointsFrom == IF newest = {} THEN {now - 2} ELSE {w.from : w \in newest}

(* ORDER BY created_at DESC LIMIT 1: any row of the last INSERT will do.    *)
ResumePoints == IF newest = {} THEN {now - 2} ELSE {w.to : w \in newest}

-----------------------------------------------------------------------------

Init ==
    /\ now \in 2 .. MaxNow
    /\ rows = {}
    /\ newest = {}
    /\ pc = "sleep"
    /\ from = 0
    /\ to = 0

(* GetList, then the clock, a minute back "to confirmed blocks".            *)
FetchBlockTime ==
    /\ pc = "sleep"
    /\ \E f \in ResumePoints :
          /\ f < now - 1
          /\ from' = f
    /\ to' = now - 1
    /\ pc' = "save"
    /\ UNCHANGED <<now, rows, newest>>

(* fromBlockTime >= toBlockTime, or GetList failed. *)
NothingToDo ==
    /\ pc = "sleep"
    /\ UNCHANGED vars

Return ==
    /\ pc' = "sleep"
    /\ from' = 0
    /\ to' = 0

(* CreateMany commits, whether or not the master hears of it: its INSERTs   *)
(* are one transaction.                                                     *)
CreateMany ==
    /\ pc = "save"
    /\ rows' = rows \cup Windows(from, to)
    /\ newest' = NewestOf(Windows(from, to) \ rows)
    /\ Return
    /\ UNCHANGED now

(* CreateMany fails, or the process dies before it: nothing is stored.      *)
CreateManyFail ==
    /\ pc = "save"
    /\ Return
    /\ UNCHANGED <<now, rows, newest>>

Tick ==
    /\ now < MaxNow
    /\ now' = now + 1
    /\ UNCHANGED <<rows, newest, pc, from, to>>

Next == FetchBlockTime \/ NothingToDo \/ CreateMany \/ CreateManyFail \/ Tick

Spec == Init /\ [][Next]_vars

(* The loop runs for ever, the process is restarted when it dies, and a     *)
(* database that is asked again and again answers some time.                *)
SpecLive == Spec /\ WF_vars(FetchBlockTime) /\ SF_vars(CreateMany)

-----------------------------------------------------------------------------
(* Properties. *)

(* Types; the rows created last are rows of the table. *)
TypeOK ==
    /\ now \in Int
    /\ rows \subseteq Window
    /\ newest \subseteq rows
    /\ pc \in {"sleep", "save"}
    /\ from \in Int
    /\ to \in Int

(* The windows form one stretch: whatever failed, whichever of the rows of  *)
(* a batch the next call resumed from, and whichever of its rows the table  *)
(* already had, no minute between two windows was left out.                 *)
NoGaps ==
    \A v, w \in rows : \A m \in v.to + 1 .. w.to : Covered(m)

(* entity/block_time.go:40, "time span cannot be greater than               *)
(* Duration(1800000ms)", of rows no code validates, and the "delay 1 mins   *)
(* to confirmed blocks" of master.go:72: rows are not empty, not too long   *)
(* for the node, and end at least a minute ago.                             *)
WindowsValid ==
    \A w \in rows : w.from < w.to /\ w.to - w.from <= MaxSpan /\ w.to < now

(* created_at does not tell the rows of one INSERT apart, so the next call  *)
(* may resume from any of them.  All end within a batch of the end of the   *)
(* last window, and what is fetched twice because of it is short.           *)
ResumesNearEnd ==
    \A v \in newest, w \in rows : w.to - v.to < BatchSize

(* No minute is in more than two windows: the overlap after such a resume   *)
(* is not resumed from again.                                               *)
AtMostTwice ==
    \A m \in 0 .. MaxNow : Cardinality({w \in rows : Covers(w, m)}) <= 2

(* Down for long or for a moment, with a failing database or not, every     *)
(* minute after the first window ends up in some window.                    *)
EveryMinuteCovered ==
    \A m \in 0 .. MaxNow :
        m < now /\ (\E w \in rows : w.from < m) ~> Covered(m)

(* One call that gets through makes up for all that did not, however long   *)
(* the outage: up to a minute ago every minute after the first window is in *)
(* some window.                                                             *)
OneCallCatchesUp ==
    [][CreateMany =>
        \A v \in rows' : \A m \in v.to + 1 .. to : Covered(m)']_vars

(* app.go:49, "fetch latest checkpoint periodically": the checkpoint the    *)
(* call resumes from is the latest there is.                                *)
ResumesFromLatest ==
    [][FetchBlockTime => \A w \in rows : w.to <= from']_vars
=============================================================================
