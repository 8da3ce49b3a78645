-------------------------- MODULE TransactorProofs --------------------------
(***************************************************************************)
(* Safety of Transactor for any callers, items, connections and depth, and *)
(* its refinement of AtomicStore.                                          *)
(***************************************************************************)
EXTENDS Transactor, FiniteSetTheorems, TLAPS

Inside == {"run", "exec"}
Ending == {"commit", "rollback", "repanic"}

(* Where a caller is tells what it has: a connection in a transaction only, *)
(* nothing stored nor answered before its end.                              *)
PlaceOK(c) ==
    /\ conn[c] => pc[c] \in Inside \cup Ending
    /\ pc[c] \in Inside => depth[c] > 0
    /\ pc[c] \in Inside \cup Ending \cup {"begin"}
          => reply[c] = "none" /\ stored[c] = {}
    /\ reply[c] = "none" => pc[c] # "mark" /\ stored[c] = {}
    /\ pc[c] = "idle" /\ reply[c] = "none" => wrote[c] = {} /\ ~marked[c]
    /\ stored[c] \in {{}, wrote[c]}
    /\ reply[c] = "panic" => stored[c] = {}
    /\ reply[c] = "nil" => stored[c] = wrote[c] /\ ~aborted[c] /\ ~conn[c]

PlaceInv == \A c \in Caller : PlaceOK(c)

Holders == {c \in Caller : conn[c]}
CountInv == free + Cardinality(Holders) = MaxConns

-----------------------------------------------------------------------------
(* The pool. *)

(* What a step does to the pool. *)
Takes(c) ==
    /\ ~conn[c] /\ conn' = [conn EXCEPT ![c] = TRUE]
    /\ free > 0 /\ free' = free - 1

LEMMA PoolStep ==
    ASSUME PlaceInv, [Next]_vars
    PROVE  \/ UNCHANGED <<conn, free>>
           \/ \E c \in Caller : Takes(c) \/ Release(c)
<1>1. ASSUME NEW c \in Caller, BeginTx(c)
      PROVE  Takes(c)
  BY <1>1 DEF BeginTx, Set, Takes, PlaceInv, PlaceOK, Inside, Ending
<1>2. ASSUME NEW c \in Caller, End(c) \/ Cancel(c)
      PROVE  Release(c)
  BY <1>2 DEF End, CommitTx, RollbackTx, RollbackOnPanic, Cancel
<1> QED
  BY <1>1, <1>2
     DEF Next, Call, BeginTxFails, Exec, ExecOk, ExecFails, Nested,
         LeaveNested, Leave, Mark, vars

LEMMA HoldersFinite == IsFiniteSet(Holders) /\ Cardinality(Holders) \in Nat
BY TransactorAssumption, FS_Subset, FS_CardinalityType DEF Holders

LEMMA CountNext ==
    ASSUME TypeOK, PlaceInv, CountInv, [Next]_vars
    PROVE  CountInv' /\ free' \in 0 .. MaxConns
<1>0. MaxConns \in Nat /\ free \in Nat
  BY TransactorAssumption DEF TypeOK
<1>1. CASE UNCHANGED <<conn, free>>
  BY <1>1 DEF CountInv, Holders, TypeOK
<1>2. ASSUME NEW c \in Caller, Takes(c)
      PROVE  CountInv' /\ free' \in 0 .. MaxConns
  <2>1. Holders' = Holders \cup {c} /\ c \notin Holders
    BY <1>2 DEF Takes, Holders, TypeOK
  <2>2. Cardinality(Holders') = Cardinality(Holders) + 1
    BY <2>1, HoldersFinite, FS_AddElement
  <2> QED
    BY <1>0, <1>2, <2>2, HoldersFinite DEF Takes, CountInv
<1>3. ASSUME NEW c \in Caller, Release(c)
      PROVE  CountInv' /\ free' \in 0 .. MaxConns
  <2>1. Holders' = Holders \ {c} /\ (c \in Holders <=> conn[c])
    BY <1>3 DEF Release, Set, Holders, TypeOK
  <2>2. Cardinality(Holders') =
          IF conn[c] THEN Cardinality(Holders) - 1 ELSE Cardinality(Holders)
    BY <2>1, HoldersFinite, FS_RemoveElement
  <2>3. Cardinality(Holders') \in Nat
    BY <2>1, HoldersFinite, FS_RemoveElement, FS_CardinalityType
  <2> QED
    BY <1>0, <1>3, <2>2, <2>3, HoldersFinite DEF Release, CountInv
<1> QED
  BY <1>1, <1>2, <1>3, PoolStep

-----------------------------------------------------------------------------
(* The callers. *)

LEMMA InvInit == Init => TypeOK /\ PlaceInv /\ CountInv
<1> SUFFICES ASSUME Init
             PROVE  TypeOK /\ PlaceInv /\ CountInv
  OBVIOUS
<1>1. TypeOK
  BY TransactorAssumption DEF Init, TypeOK
<1>2. PlaceInv
  BY DEF Init, PlaceInv, PlaceOK, Inside, Ending
<1>3. Holders = {}
  BY DEF Init, Holders
<1>4. CountInv
  BY <1>3, TransactorAssumption, FS_EmptySet DEF Init, CountInv
<1> QED
  BY <1>1, <1>2, <1>4

LEMMA CallerNext ==
    ASSUME TypeOK, PlaceInv, free' \in 0 .. MaxConns, NEW c \in Caller,
           \/ Call(c) \/ BeginTx(c) \/ BeginTxFails(c)
           \/ Exec(c) \/ ExecOk(c) \/ ExecFails(c)
           \/ Nested(c) \/ LeaveNested(c) \/ Leave(c)
           \/ End(c) \/ Cancel(c) \/ Mark(c)
    PROVE  TypeOK' /\ PlaceInv'
<1> USE DEF TypeOK, PlaceInv, PlaceOK, Inside, Ending, Set
<1>1. CASE Call(c)
  BY <1>1 DEF Call
<1>2. CASE BeginTx(c)
  BY <1>2, TransactorAssumption DEF BeginTx
<1>3. CASE BeginTxFails(c)
  BY <1>3 DEF BeginTxFails
<1>4. CASE Exec(c)
  BY <1>4 DEF Exec
<1>5. CASE ExecFails(c)
  <2>1. pc[c] = "exec" /\ reply[c] = "none"
    BY <1>5 DEF ExecFails
  <2> QED
    BY <1>5, <2>1 DEF ExecFails
<1>6. CASE ExecOk(c)
  BY <1>6 DEF ExecOk, IsInTransaction
<1>7. CASE Nested(c)
  BY <1>7, TransactorAssumption DEF Nested
<1>8. CASE LeaveNested(c)
  BY <1>8, TransactorAssumption DEF LeaveNested
<1>9. CASE Leave(c)
  BY <1>9, TransactorAssumption DEF Leave
<1>10. CASE CommitTx(c)
  BY <1>10 DEF CommitTx, Release, ReplyOf
<1>11. CASE RollbackTx(c)
  BY <1>11 DEF RollbackTx, Release
<1>12. CASE RollbackOnPanic(c)
  BY <1>12 DEF RollbackOnPanic, Release
<1>13. CASE Cancel(c)
  BY <1>13 DEF Cancel, Release
<1>14. CASE Mark(c)
  BY <1>14 DEF Mark
<1> QED
  BY <1>1, <1>2, <1>3, <1>4, <1>5, <1>6, <1>7, <1>8, <1>9, <1>10, <1>11,
     <1>12, <1>13, <1>14
     DEF End

LEMMA InvNext ==
    ASSUME TypeOK, PlaceInv, CountInv, [Next]_vars
    PROVE  TypeOK' /\ PlaceInv' /\ CountInv'
<1>1. CASE UNCHANGED vars
  BY <1>1 DEF vars, TypeOK, PlaceInv, PlaceOK, CountInv, Holders
<1> QED
  BY <1>1, CountNext, CallerNext DEF Next

LEMMA Invariant == Spec => [](TypeOK /\ PlaceInv /\ CountInv)
BY InvInit, InvNext, PTL DEF Spec

(* Types; the pool never gives more connections than it has.                *)
THEOREM TypeCorrect == Spec => []TypeOK
BY Invariant, PTL

(* base_repo.go:42: however a transaction ends, its connection goes back to *)
(* the pool, once.                                                          *)
THEOREM NoLeak == Spec => []NoLeakedConnection
<1>1. TypeOK /\ PlaceInv /\ CountInv => NoLeakedConnection
  BY DEF TypeOK, PlaceInv, PlaceOK, CountInv, Holders, NoLeakedConnection,
         Inside, Ending
<1> QED
  BY <1>1, Invariant, PTL

-----------------------------------------------------------------------------
(* The promise to callers. *)

LEMMA StoreStep ==
    ASSUME TypeOK, PlaceInv, [Next]_vars
    PROVE  [AS!Next]_AS!vars
<1> USE DEF TypeOK, PlaceInv, PlaceOK, Inside, Ending, Set
<1>1. ASSUME NEW c \in Caller, Call(c)
      PROVE  AS!Call(c) \/ UNCHANGED AS!vars
  <2>1. CASE reply[c] = "none"
    BY <1>1, <2>1 DEF Call, AS!vars
  <2>2. CASE reply[c] # "none"
    BY <1>1, <2>2 DEF Call, AS!Call
  <2> QED
    BY <2>1, <2>2
<1>2. ASSUME NEW c \in Caller, ExecOk(c)
      PROVE  AS!Write(c)
  BY <1>2 DEF ExecOk, IsInTransaction, AS!Write
<1>3. ASSUME NEW c \in Caller, CommitTx(c)
      PROVE  AS!Return(c)
  <2>1. PICK done \in BOOLEAN, heard \in BOOLEAN :
            /\ stored' = [stored EXCEPT ![c] = IF done THEN wrote[c]
                                                ELSE stored[c]]
            /\ reply' = [reply EXCEPT ![c] = ReplyOf(done /\ heard)]
    BY <1>3 DEF CommitTx
  <2>2. stored[c] = {} /\ reply[c] = "none" /\ wrote' = wrote
    BY <1>3 DEF CommitTx
  <2>3. /\ ReplyOf(done /\ heard) \in {"nil", "err"}
        /\ ReplyOf(done /\ heard) = "nil" => done
    BY DEF ReplyOf
  <2> QED
    BY <2>1, <2>2, <2>3 DEF AS!Return
<1>4. ASSUME NEW c \in Caller,
             \/ BeginTxFails(c)
             \/ RollbackTx(c)
             \/ RollbackOnPanic(c)
      PROVE  AS!Return(c)
  <2>1. /\ stored[c] = {} /\ reply[c] = "none"
        /\ UNCHANGED <<stored, wrote>>
    BY <1>4 DEF BeginTxFails, RollbackTx, RollbackOnPanic
  <2>2. PICK r \in {"err", "panic"} : reply' = [reply EXCEPT ![c] = r]
    BY <1>4 DEF BeginTxFails, RollbackTx, RollbackOnPanic
  <2>3. stored' = [stored EXCEPT ![c] = IF FALSE THEN wrote[c] ELSE {}]
    BY <2>1
  <2> QED
    BY <2>1, <2>2, <2>3 DEF AS!Return
<1>5. ASSUME UNCHANGED <<wrote, stored, reply>>
      PROVE  UNCHANGED AS!vars
  BY <1>5 DEF AS!vars
<1> QED
  BY <1>1, <1>2, <1>3, <1>4, <1>5
     DEF Next, BeginTx, Exec, ExecFails, Nested, LeaveNested, Leave, End,
         Cancel, Mark, vars, AS!Next

(* All of what a transaction wrote or nothing, and nil only for all of it.  *)
THEOREM Refinement == Spec => ImplementsAtomicStore
<1>1. Init => AS!Init
  BY DEF Init, AS!Init
<1>2. TypeOK /\ PlaceInv /\ [Next]_vars => [AS!Next]_AS!vars
  BY StoreStep
<1> QED
  BY <1>1, <1>2, Invariant, PTL DEF Spec, ImplementsAtomicStore, AS!Spec

(* Nobody sees a part of a transaction, nor anything of one that panicked.  *)
THEOREM NeverInPart == Spec => []AllOrNothing
<1>1. PlaceInv => AllOrNothing
  BY DEF PlaceInv, PlaceOK, AllOrNothing
<1> QED
  BY <1>1, Invariant, PTL

(* nil means stored, whatever errors closures dropped.                      *)
THEOREM NilIsStored == Spec => []NilMeansStored
<1>1. PlaceInv => NilMeansStored
  BY DEF PlaceInv, PlaceOK, NilMeansStored
<1> QED
  BY <1>1, Invariant, PTL
=============================================================================
