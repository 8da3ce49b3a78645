----------------------------- MODULE Transactor -----------------------------
(***************************************************************************)
(* repo.Transactor, internal/repo/gorm/base_repo.go: Transaction runs a    *)
(* closure with a context that carries the transaction; every repository   *)
(* call made with that context takes part in it (getDB), and so does a     *)
(* Transaction inside the closure.  The connections come from a pool that  *)
(* has fewer of them than a worker has goroutines (infra/postgres.go).     *)
(*                                                                         *)
(* A caller is a goroutine that does what fetchData does with it: run a    *)
(* transaction and, when that fails, write a mark outside of it.           *)
(***************************************************************************)
EXTENDS Naturals, FiniteSets

CONSTANTS
    Caller,
    Item,       \* what the closures write
    MaxConns,   \* SetMaxOpenConns
    MaxDepth    \* bound on Transaction within Transaction

ASSUME TransactorAssumption ==
    /\ IsFiniteSet(Caller)
    /\ MaxConns \in Nat \ {0}
    /\ MaxDepth \in Nat \ {0}

VARIABLES
    pc,      \* "idle", "begin", "run", "exec", and what is left to do: "commit",
             \* "rollback", "repanic", "mark"
    depth,   \* depth[c]: Transaction calls c is inside of
    conn,    \* conn[c]: the transaction of c holds a connection
    free,    \* connections the pool can still give
    aborted, \* aborted[c]: Postgres takes no more statements in this one
    wrote,   \* wrote[c]: items its statements wrote
    stored,  \* stored[c]: items of c that others can see
    marked,  \* marked[c]: the mark of c that others can see
    reply    \* reply[c]: what Transaction answered, "none" before

vars == <<pc, depth, conn, free, aborted, wrote, stored, marked, reply>>

Set(f, c, v) == f' = [f EXCEPT ![c] = v]

Init ==
    /\ pc = [c \in Caller |-> "idle"]
    /\ depth = [c \in Caller |-> 0]
    /\ conn = [c \in Caller |-> FALSE]
    /\ free = MaxConns
    /\ aborted = [c \in Caller |-> FALSE]
    /\ wrote = [c \in Caller |-> {}]
    /\ stored = [c \in Caller |-> {}]
    /\ marked = [c \in Caller |-> FALSE]
    /\ reply = [c \in Caller |-> "none"]

(* Transaction is called without a transaction in the context. *)
Call(c) ==
    /\ pc[c] = "idle"
    /\ Set(pc, c, "begin")
    /\ Set(wrote, c, {}) /\ Set(stored, c, {})
    /\ Set(marked, c, FALSE) /\ Set(reply, c, "none")
    /\ UNCHANGED <<depth, conn, free, aborted>>

(* BeginTx waits for a connection. *)
BeginTx(c) ==
    /\ pc[c] = "begin"
    /\ free > 0
    /\ free' = free - 1
    /\ Set(pc, c, "run") /\ Set(depth, c, 1) /\ Set(conn, c, TRUE)
    /\ Set(aborted, c, FALSE)
    /\ UNCHANGED <<wrote, stored, marked, reply>>

BeginTxFails(c) ==
    /\ pc[c] = "begin"
    /\ Set(pc, c, "mark") /\ Set(reply, c, "err")
    /\ UNCHANGED <<depth, conn, free, aborted, wrote, stored, marked>>

(* Mutant: getDB returns repo.db whatever the context holds.                *)
NeverInTransaction(c) == FALSE

IsInTransaction(c) == depth[c] > 0

(* A repository call in the closure, and the statement it makes on          *)
(* getDB(ctx): on the connection of the transaction, or on one the pool has *)
(* to have free, where it is committed at once.                             *)
Exec(c) ==
    /\ pc[c] = "run"
    /\ Set(pc, c, "exec")
    /\ UNCHANGED <<depth, conn, free, aborted, wrote, stored, marked, reply>>

ExecOk(c) ==
    /\ pc[c] = "exec"
    /\ ~aborted[c]
    /\ Set(pc, c, "run")
    /\ \E i \in Item :
          /\ Set(wrote, c, wrote[c] \cup {i})
          /\ IF IsInTransaction(c)
             THEN UNCHANGED stored
             ELSE free > 0 /\ Set(stored, c, stored[c] \cup {i})
    /\ UNCHANGED <<depth, conn, free, aborted, marked, reply>>

(* After one failed statement Postgres refuses the others. *)
ExecFails(c) ==
    /\ pc[c] = "exec"
    /\ Set(pc, c, "run") /\ Set(aborted, c, TRUE)
    /\ UNCHANGED <<depth, conn, free, wrote, stored, marked, reply>>

(* A Transaction with the closure's context only runs its own closure.      *)
Nested(c) ==
    /\ pc[c] = "run"
    /\ depth[c] < MaxDepth
    /\ Set(depth, c, depth[c] + 1)
    /\ UNCHANGED <<pc, conn, free, aborted, wrote, stored, marked, reply>>

(* Mutant: the inner one commits what was written so far.                   *)
LeaveNestedCommits(c) ==
    /\ pc[c] = "run"
    /\ depth[c] > 1
    /\ Set(depth, c, depth[c] - 1) /\ Set(stored, c, wrote[c])
    /\ UNCHANGED <<pc, conn, free, aborted, wrote, marked, reply>>

(* The inner one returns, and does nothing else, whatever its closure       *)
(* answered: what the outer closure makes of that is its own affair.        *)
LeaveNested(c) ==
    /\ pc[c] = "run"
    /\ depth[c] > 1
    /\ Set(depth, c, depth[c] - 1)
    /\ UNCHANGED <<pc, conn, free, aborted, wrote, stored, marked, reply>>

(* The outermost closure returns nil, an error, or panics, from any depth.  *)
Leave(c) ==
    /\ pc[c] = "run"
    /\ \/ depth[c] = 1 /\ Set(pc, c, "commit")
       \/ Set(pc, c, "rollback")
       \/ Set(pc, c, "repanic")
    /\ Set(depth, c, 0)
    /\ UNCHANGED <<conn, free, aborted, wrote, stored, marked, reply>>

(* Mutant: a connection that broke is given back again by the rollback.     *)
ReleaseAgain(c) ==
    /\ Set(conn, c, FALSE)
    /\ free' = free + 1

Release(c) ==
    /\ Set(conn, c, FALSE)
    /\ free' = IF conn[c] THEN free + 1 ELSE free

(* Mutant: the error of CommitTx is logged and dropped.                     *)
ReplyNil(ok) == "nil"

ReplyOf(ok) == IF ok THEN "nil" ELSE "err"

(* COMMIT of a broken transaction rolls back and says so.  The answer to    *)
(* one that was carried out may be lost.                                    *)
CommitTx(c) ==
    /\ pc[c] = "commit"
    /\ \E done, heard \in BOOLEAN :
          /\ done => conn[c] /\ ~aborted[c]
          /\ Set(stored, c, IF done THEN wrote[c] ELSE stored[c])
          /\ Set(reply, c, ReplyOf(done /\ heard))
          /\ Set(pc, c, IF reply'[c] = "nil" THEN "idle" ELSE "mark")
    /\ Release(c)
    /\ UNCHANGED <<depth, aborted, wrote, marked>>

RollbackTx(c) ==
    /\ pc[c] = "rollback"
    /\ Set(pc, c, "mark") /\ Set(reply, c, "err")
    /\ Release(c)
    /\ UNCHANGED <<depth, aborted, wrote, stored, marked>>

(* Mutant: the panic passes Transaction by.                                 *)
NoRollbackOnPanic(c) ==
    /\ pc[c] = "repanic"
    /\ Set(pc, c, "mark") /\ Set(reply, c, "panic")
    /\ Set(conn, c, FALSE)
    /\ UNCHANGED <<depth, free, aborted, wrote, stored, marked>>

(* The deferred function, which panics again when it is done. *)
RollbackOnPanic(c) ==
    /\ pc[c] = "repanic"
    /\ Set(pc, c, "mark") /\ Set(reply, c, "panic")
    /\ Release(c)
    /\ UNCHANGED <<depth, aborted, wrote, stored, marked>>

(* The context of BeginTx is cancelled, or the connection breaks: the       *)
(* transaction is rolled back behind the back of the closure.               *)
Cancel(c) ==
    /\ conn[c]
    /\ Release(c)
    /\ Set(aborted, c, TRUE)
    /\ UNCHANGED <<pc, depth, wrote, stored, marked, reply>>

(* The caller, with its own context again: the FAIL of fetchData.           *)
Mark(c) ==
    /\ pc[c] = "mark"
    /\ free > 0
    /\ \E b \in BOOLEAN : Set(marked, c, b)
    /\ Set(pc, c, "idle")
    /\ UNCHANGED <<depth, conn, free, aborted, wrote, stored, reply>>

End(c) == CommitTx(c) \/ RollbackTx(c) \/ RollbackOnPanic(c)

Next ==
    \E c \in Caller :
        \/ Call(c)
        \/ BeginTx(c)
        \/ BeginTxFails(c)
        \/ Exec(c)
        \/ ExecOk(c)
        \/ ExecFails(c)
        \/ Nested(c)
        \/ LeaveNested(c)
        \/ Leave(c)
        \/ End(c)
        \/ Cancel(c)
        \/ Mark(c)

Spec == Init /\ [][Next]_vars

(* Closures return some time, the database answers, and the pool serves the *)
(* callers that wait for a connection in turn.                              *)
Fairness ==
    \A c \in Caller :
        /\ WF_vars(ExecOk(c) \/ (aborted[c] /\ ExecFails(c)))
        /\ WF_vars(End(c))
        /\ SF_vars(Leave(c) \/ BeginTx(c) \/ Mark(c))

-----------------------------------------------------------------------------
(* Properties. *)

(* Types; the pool counts what transactions hold. *)
TypeOK ==
    /\ pc \in [Caller -> {"idle", "begin", "run", "exec", "commit",
                          "rollback", "repanic", "mark"}]
    /\ depth \in [Caller -> 0 .. MaxDepth]
    /\ conn \in [Caller -> BOOLEAN]
    /\ free \in 0 .. MaxConns
    /\ aborted \in [Caller -> BOOLEAN]
    /\ wrote \in [Caller -> SUBSET Item]
    /\ stored \in [Caller -> SUBSET Item]
    /\ marked \in [Caller -> BOOLEAN]
    /\ reply \in [Caller -> {"none", "nil", "err", "panic"}]

(* base_repo.go:42, "rollback if panic function to prevent leak db          *)
(* connection": however a transaction ends, by COMMIT, error, panic or a    *)
(* context cancelled under it, its connection is in the pool again, once.   *)
NoLeakedConnection ==
    /\ free + Cardinality({c \in Caller : conn[c]}) = MaxConns
    /\ \A c \in Caller : conn[c] => pc[c] \notin {"idle", "begin", "mark"}

(* Nobody sees a part of a transaction, and of one that panicked nothing,   *)
(* whatever nested transactions did with their errors.                      *)
AllOrNothing ==
    \A c \in Caller :
        /\ stored[c] \in {{}, wrote[c]}
        /\ reply[c] \in {"none", "panic"} => stored[c] = {}

(* nil means stored, also when a closure ignored that a statement or a      *)
(* nested transaction failed.                                               *)
NilMeansStored ==
    \A c \in Caller : reply[c] = "nil" => stored[c] = wrote[c] /\ ~aborted[c]

(* Transaction implements the promise of AtomicStore. *)
AS == INSTANCE AtomicStore

ImplementsAtomicStore == AS!Spec

(* With fewer connections than callers every call still comes to its end,   *)
(* the write after a failed transaction included: nobody waits for a        *)
(* connection while holding one.                                            *)
EveryCallEnds == \A c \in Caller : pc[c] # "idle" ~> pc[c] = "idle"
=============================================================================
