--------------------------- MODULE IndexerProofs ---------------------------
(***************************************************************************)
(* The whole implements its two halves, for any workers, windows, batches  *)
(* and clock.                                                              *)
(***************************************************************************)
EXTENDS Indexer, FiniteSetTheorems, WellFoundedInduction, TLAPS

(* What calls have in hand are rows of the table. *)
HeldInv ==
    /\ batch \in [Worker -> SUBSET Rows]
    /\ fetching \in [Worker -> SUBSET Rows]

(* There is a created_at no row is younger than. *)
StampInv ==
    /\ created \in [Row -> Nat]
    /\ \E k \in Nat : \A r \in Row : created[r] <= k

PlanInv ==
    /\ now \in 2 .. MaxNow
    /\ mpc \in {"sleep", "save"}
    /\ mpc = "save" =>
          from \in 0 .. MaxNow - 1 /\ to \in 0 .. MaxNow - 1 /\ from < to

TableInv ==
    /\ status = [r \in Row |-> status[r]]
    /\ age = [r \in Row |-> age[r]]

IndexInv == TableInv /\ HeldInv /\ StampInv /\ PlanInv

-----------------------------------------------------------------------------
(* Greatest elements. *)

LEMMA GreatestExists ==
    ASSUME NEW S, S \subseteq Nat, S # {},
           NEW k \in Nat, \A n \in S : n <= k
    PROVE  \E n \in S : \A m \in S : m <= n
<1> DEFINE T == {k - n : n \in S}
<1>1. \A n \in S : k - n \in Nat
  OBVIOUS
<1>0. T \subseteq Nat /\ T # {}
  BY <1>1
<1>2. PICK x \in T : \A y \in T : ~ (<<y, x>> \in OpToRel(<, Nat))
  BY <1>0, NatLessThanWellFounded, WFMin
<1>3. \A y \in T : ~ (y < x)
  BY <1>0, <1>2 DEF OpToRel
<1>4. PICK n \in S : x = k - n
  OBVIOUS
<1>5. ASSUME NEW m \in S
      PROVE  m <= n
  <2>1. k - m \in T
    OBVIOUS
  <2>2. ~ (k - m < k - n)
    BY <1>3, <1>4, <2>1
  <2> QED
    BY <2>2
<1> QED
  BY <1>5

-----------------------------------------------------------------------------
(* What CreateMany does to the table. *)

(* fetchBlockTime cuts windows that Row has. *)
LEMMA PlannedRows ==
    ASSUME PlanInv, mpc = "save"
    PROVE  /\ M!Windows(from, to) \subseteq Row
           /\ \A r \in M!Windows(from, to) : r.from - from \in 0 .. MaxNow
<1> USE IndexerAssumption
<1>1. from \in 0 .. MaxNow - 1 /\ to \in 0 .. MaxNow - 1 /\ from < to
  BY DEF PlanInv
<1>2. CASE to - from > SplitAfter
  <2>1. M!Windows(from, to) =
          {[from |-> i, to |-> i + 1] : i \in from .. to - 1}
    BY <1>2 DEF M!Windows
  <2>2. ASSUME NEW i \in from .. to - 1
        PROVE  [from |-> i, to |-> i + 1] \in Row /\ i - from \in 0 .. MaxNow
    <3>1. /\ i \in 0 .. MaxNow - 1 /\ i + 1 \in 1 .. MaxNow - 1
          /\ i < i + 1 /\ (i + 1) - i <= SplitAfter /\ i - from \in 0 .. MaxNow
      BY <1>1
    <3> QED
      BY <3>1 DEF Row
  <2> QED
    BY <2>1, <2>2
<1>3. CASE ~ (to - from > SplitAfter)
  <2>1. M!Windows(from, to) = {[from |-> from, to |-> to]}
    BY <1>3 DEF M!Windows
  <2>2. to \in 1 .. MaxNow - 1 /\ to - from <= SplitAfter
    BY <1>1, <1>3
  <2> QED
    BY <1>1, <2>1, <2>2 DEF Row
<1> QED
  BY <1>2, <1>3

LEMMA FirstRow == PlanInv => [from |-> 0, to |-> 1] \in Row
BY IndexerAssumption DEF PlanInv, Row

(* New rows are younger than all others, by the rank of their INSERT. *)
LEMMA NewStamps ==
    ASSUME StampInv, PlanInv, CreateMany
    PROVE  \E last \in Nat :
             /\ \A r \in Row : created[r] <= last
             /\ created' = [r \in Row |->
                   IF r \in Fresh THEN last + Stamp(r) ELSE created[r]]
<1> DEFINE S == {created[r] : r \in Row}
           last == CHOOSE n \in S : \A r \in Row : created[r] <= n
<1>1. S \subseteq Nat /\ S # {} /\ \E k \in Nat : \A n \in S : n <= k
  BY FirstRow DEF StampInv
<1>2. \E n \in S : \A m \in S : m <= n
  BY <1>1, GreatestExists
<1>3. \E n \in S : \A r \in Row : created[r] <= n
  BY <1>2
<1>4. last \in S /\ \A r \in Row : created[r] <= last
  BY <1>3
<1>5. created' = [r \in Row |->
                   IF r \in Fresh THEN last + Stamp(r) ELSE created[r]]
  BY DEF CreateMany
<1> HIDE DEF last
<1> QED
  BY <1>1, <1>4, <1>5

LEMMA StampsTyped ==
    ASSUME PlanInv, mpc = "save", NEW r \in Fresh
    PROVE  /\ r \in Row /\ (r.from - from) \div BatchSize \in 0 .. MaxNow
           /\ Stamp(r) \in Nat
           /\ Stamp(r) = 1 + (r.from - from) \div BatchSize
<1> USE IndexerAssumption
<1>1. r \in Row /\ r.from - from \in 0 .. MaxNow
  BY PlannedRows DEF Fresh
<1>2. \A n \in 0 .. MaxNow : n \div BatchSize \in 0 .. MaxNow
  OBVIOUS
<1> QED
  BY <1>1, <1>2 DEF Stamp

LEMMA RowsCreated ==
    ASSUME PlanInv, CreateMany
    PROVE  /\ Rows' = Rows \cup M!Windows(from, to)
           /\ Fresh \subseteq Row \ Rows
BY PlannedRows DEF CreateMany, Fresh, Rows, W!Assign

(* What the next call finds is what Master computes. *)
LEMMA NewestCreated ==
    ASSUME StampInv, PlanInv, CreateMany
    PROVE  NewestIn(Rows)' = M!NewestOf(M!Windows(from, to) \ Rows)
<1> DEFINE Batch(w) == (w.from - from) \div BatchSize
<1>1. PICK last \in Nat :
          /\ \A r \in Row : created[r] <= last
          /\ created' = [r \in Row |->
                IF r \in Fresh THEN last + Stamp(r) ELSE created[r]]
  BY NewStamps
<1>2. /\ mpc = "save" /\ Rows' = Rows \cup Fresh
      /\ Fresh = M!Windows(from, to) \ Rows /\ Rows \subseteq Row
      /\ Fresh \subseteq Row
  BY RowsCreated DEF CreateMany, Fresh, Rows
<1>3. \A r \in Fresh : created'[r] = last + 1 + Batch(r) /\ Batch(r) \in Nat
  BY <1>1, <1>2, StampsTyped
<1>4. \A r \in Rows : created'[r] = created[r] /\ created[r] \in 0 .. last
  BY <1>1, <1>2 DEF StampInv
<1>5. NewestIn(Rows)' =
        {r \in Rows' : \A s \in Rows' : created'[s] <= created'[r]}
  BY DEF NewestIn
<1>6. CASE Fresh = {}
  BY <1>2, <1>4, <1>5, <1>6 DEF M!NewestOf, NewestIn
<1>7. CASE Fresh # {}
  <2>1. M!NewestOf(Fresh) = {w \in Fresh : \A v \in Fresh : Batch(v) <= Batch(w)}
    BY <1>7 DEF M!NewestOf
  <2> HIDE DEF Batch
  <2>2. ASSUME NEW r \in Fresh
        PROVE  (\A s \in Rows' : created'[s] <= created'[r])
                 <=> \A s \in Fresh : Batch(s) <= Batch(r)
    <3>1. \A s \in Fresh : created'[s] <= created'[r] <=> Batch(s) <= Batch(r)
      BY <1>3
    <3>2. \A s \in Rows : created'[s] <= created'[r]
      BY <1>3, <1>4
    <3> QED
      BY <1>2, <3>1, <3>2
  <2>3. ASSUME NEW r \in Rows
        PROVE  \E s \in Rows' : ~ (created'[s] <= created'[r])
    <3>1. PICK s \in Fresh : TRUE
      BY <1>7
    <3> QED
      BY <1>2, <1>3, <1>4, <3>1
  <2> QED
    BY <1>2, <1>5, <2>1, <2>2, <2>3
<1> QED
  BY <1>6, <1>7

-----------------------------------------------------------------------------
(* What the workers do to the table. *)

(* No worker makes a row or loses one, and none gets hold of a row the      *)
(* table does not have.                                                     *)
LEMMA WorkerRows ==
    ASSUME TableInv, HeldInv, WorkerHalf
    PROVE  TableInv' /\ HeldInv' /\ Rows' = Rows
<1> USE DEF TableInv, HeldInv, Rows
<1>0. /\ \A S, st : W!Assign(S, st) => TableInv'
      /\ \A S, st : W!Assign(S, st) /\ S \subseteq Rows /\ st # "ABSENT"
                       => Rows' = Rows
  BY DEF W!Assign
<1>1. \A S, st : W!UpdateStatus(S, st) /\ S \subseteq Rows /\ st # "ABSENT"
                    => TableInv' /\ Rows' = Rows
  BY <1>0 DEF W!UpdateStatus, W!table
<1>2. ASSUME NEW P, W!EndCalls(P), Rows' = Rows
      PROVE  HeldInv'
  <2>1. /\ batch' = [w \in Worker |-> IF w \in P THEN {} ELSE batch[w]]
        /\ fetching' = [w \in Worker |-> IF w \in P THEN {} ELSE fetching[w]]
    BY <1>2 DEF W!EndCalls
  <2>2. /\ batch' \in [Worker -> SUBSET Rows]
        /\ fetching' \in [Worker -> SUBSET Rows]
    BY <2>1
  <2> HIDE DEF Rows
  <2> QED
    BY <1>2, <2>2
<1>f. UNCHANGED <<status, age, batch, fetching>>
        => TableInv' /\ HeldInv' /\ Rows' = Rows
  OBVIOUS
<1>3. ASSUME NEW w \in Worker, W!WorkerStep(w)
      PROVE  TableInv' /\ HeldInv' /\ Rows' = Rows
  <2>0. batch[w] \subseteq Rows /\ fetching[w] \subseteq Rows
    OBVIOUS
  <2>1. CASE W!Claim(w)
    <3>1. \A S \in W!ClaimSets : S \subseteq Rows
      BY DEF W!ClaimSets, W!Eligible, W!Claimable
    <3> QED
      BY <2>1, <3>1 DEF W!Claim, W!table
  <2>2. CASE W!CommitClaim(w)
    BY <1>0, <2>0, <2>2 DEF W!CommitClaim
  <2>3. CASE W!FailAfterTx(w) \/ W!NoBlocks(w) \/ W!Finish(w)
    <3>1. W!Outcome(w) # "ABSENT"
      BY DEF W!Outcome
    <3> QED
      BY <1>1, <1>2, <2>0, <2>3, <3>1 DEF W!FailAfterTx, W!NoBlocks, W!Finish
  <2>4. ASSUME NEW r \in Row, W!RowStep(w, r)
        PROVE  TableInv' /\ HeldInv' /\ Rows' = Rows
    <3>1. CASE W!FetchFail(w, r)
      BY <1>1, <2>0, <3>1 DEF W!FetchFail
    <3>2. CASE W!FetchOk(w, r) \/ W!ReadSlice(w, r) \/ W!WriteSlice(w, r)
      <4>1. /\ UNCHANGED <<status, age, batch>>
            /\ \/ fetching' = [fetching EXCEPT ![w] = @ \ {r}]
               \/ UNCHANGED fetching
        BY <3>2 DEF W!FetchOk, W!ReadSlice, W!WriteSlice, W!table
      <4> QED
        BY <2>0, <4>1
    <3> QED
      BY <2>4, <3>1, <3>2 DEF W!RowStep
  <2>5. CASE \/ W!NoNewBlocks(w) \/ W!RollbackClaim(w) \/ W!StartSend(w)
             \/ \E t \in W!Topic, r \in Row :
                   W!Send(w, t, r) \/ W!SendFail(w, t, r)
    <3>1. UNCHANGED <<status, age, batch, fetching>>
      BY <2>5 DEF W!NoNewBlocks, W!RollbackClaim, W!StartSend, W!Send,
                  W!SendFail, W!table, W!vars, W!locals
    <3> QED
      BY <1>f, <3>1
  <2> QED
    BY <1>3, <2>1, <2>2, <2>3, <2>4, <2>5 DEF W!WorkerStep
<1>4. CASE W!UpdateFailedStatus
  BY <1>0, <1>4 DEF W!UpdateFailedStatus, W!Stale, W!locals
<1>5. CASE W!Tick \/ W!Settle
  BY <1>5 DEF W!Tick, W!Settle, W!table, W!locals
<1>6. ASSUME NEW P \in Processes, W!Crash(P)
      PROVE  TableInv' /\ HeldInv' /\ Rows' = Rows
  BY <1>2, <1>6 DEF W!Crash, W!table
<1> QED
  BY <1>3, <1>4, <1>5, <1>6 DEF WorkerHalf

-----------------------------------------------------------------------------
(* The invariant. *)

LEMMA InvInit == Init => IndexInv
<1> SUFFICES ASSUME Init
             PROVE  IndexInv
  OBVIOUS
<1>1. TableInv /\ HeldInv
  BY DEF Init, W!Init, TableInv, HeldInv
<1>2. StampInv
  BY DEF Init, StampInv
<1>3. PlanInv
  BY DEF Init, PlanInv
<1> QED
  BY <1>1, <1>2, <1>3 DEF IndexInv

LEMMA CreateManyInv ==
    ASSUME IndexInv, CreateMany
    PROVE  IndexInv'
<1> USE DEF IndexInv
<1>1. TableInv'
  BY DEF CreateMany, W!Assign, TableInv
<1>2. HeldInv'
  BY RowsCreated DEF CreateMany, locals, HeldInv
<1>3. StampInv'
  <2>1. PICK last \in Nat :
            /\ \A r \in Row : created[r] <= last
            /\ created' = [r \in Row |->
                  IF r \in Fresh THEN last + Stamp(r) ELSE created[r]]
    BY NewStamps
  <2>2. \A r \in Fresh : Stamp(r) \in 0 .. MaxNow + 1
    BY StampsTyped, IndexerAssumption DEF CreateMany
  <2>3. \A r \in Row : created'[r] \in 0 .. last + MaxNow + 1
    BY <2>1, <2>2, IndexerAssumption DEF StampInv
  <2>4. last + MaxNow + 1 \in Nat
    BY IndexerAssumption
  <2>5. created' \in [Row -> Nat]
    BY <2>1, <2>3, <2>4
  <2> QED
    BY <2>3, <2>4, <2>5 DEF StampInv
<1>4. PlanInv'
  BY DEF CreateMany, M!Return, PlanInv
<1> QED
  BY <1>1, <1>2, <1>3, <1>4

LEMMA MasterStepInv ==
    ASSUME IndexInv, MasterStep
    PROVE  IndexInv'
<1> USE DEF IndexInv
<1>0. UNCHANGED <<status, age, batch, fetching, created>>
  BY DEF MasterStep, workers, locals
<1>1. TableInv' /\ HeldInv' /\ StampInv'
  BY <1>0 DEF TableInv, HeldInv, StampInv, Rows
<1>2. CASE M!FetchBlockTime
  <2>1. now \in 2 .. MaxNow
    BY DEF PlanInv
  <2>2. M!ResumePoints \subseteq Nat
    BY <2>1 DEF M!ResumePoints, NewestIn, Rows, Row
  <2>3. PICK f \in Nat : f < now - 1 /\ from' = f
    BY <1>2, <2>2 DEF M!FetchBlockTime
  <2>4. to' = now - 1 /\ now' = now /\ mpc' = "save"
    BY <1>2 DEF M!FetchBlockTime
  <2> QED
    BY <1>1, <2>1, <2>3, <2>4, IndexerAssumption DEF PlanInv
<1>3. CASE M!NothingToDo \/ M!CreateManyFail \/ M!Tick
  BY <1>1, <1>3, IndexerAssumption
     DEF M!NothingToDo, M!vars, M!CreateManyFail, M!Return, M!Tick, PlanInv
<1> QED
  BY <1>2, <1>3 DEF MasterStep

LEMMA InvNext == IndexInv /\ [Next]_vars => IndexInv'
<1> SUFFICES ASSUME IndexInv, [Next]_vars
             PROVE  IndexInv'
  OBVIOUS
<1>1. CASE WorkerHalf
  BY <1>1, WorkerRows DEF WorkerHalf, master, IndexInv, StampInv, PlanInv
<1>2. CASE GetProcessed \/ Post \/ PostLost \/ UNCHANGED vars
  BY <1>2 DEF GetProcessed, Post, PostLost, vars, workers, master, locals,
              IndexInv, TableInv, HeldInv, StampInv, PlanInv, Rows
<1> QED
  BY <1>1, <1>2, CreateManyInv, MasterStepInv DEF Next

-----------------------------------------------------------------------------
(* The theorems. *)

(* Composition, worker half: to the workers the master is the CreateMany of *)
(* Worker (master.go 107-112, worker.go 113-258), so the theorems of        *)
(* WorkerProofs hold of the whole.                                          *)
THEOREM WorkerRefinement == Spec => ImplementsWorker
<1>1. Init => W!Init
  BY DEF Init
<1>2. IndexInv /\ [Next]_vars => [W!Next]_(W!vars)
  <2> SUFFICES ASSUME IndexInv, [Next]_vars
               PROVE  [W!Next]_(W!vars)
    OBVIOUS
  <2>1. CASE CreateMany
    <3>1. /\ W!Assign(Fresh, "NOT_READY")
          /\ UNCHANGED <<locals, kafka, settled, revoked, exposed>>
      BY <2>1 DEF CreateMany
    <3>2. Fresh \in SUBSET {r \in Row : status[r] = "ABSENT"}
      BY <2>1, RowsCreated DEF IndexInv, Rows
    <3>3. CASE Fresh = {}
      <4>1. UNCHANGED <<status, age>>
        BY <3>1, <3>3 DEF W!Assign, IndexInv, TableInv
      <4> QED
        BY <3>1, <4>1 DEF W!vars, W!table, W!locals, locals
    <3>4. CASE Fresh # {}
      BY <3>1, <3>2, <3>4 DEF W!Next, W!CreateMany, W!locals, locals
    <3> QED
      BY <3>3, <3>4
  <2>2. CASE WorkerHalf
    BY <2>2 DEF WorkerHalf, W!Next
  <2>3. CASE MasterStep \/ GetProcessed \/ Post \/ PostLost \/ UNCHANGED vars
    BY <2>3 DEF MasterStep, GetProcessed, Post, PostLost, vars, workers, locals,
                W!vars, W!table, W!locals
  <2> QED
    BY <2>1, <2>2, <2>3 DEF Next
<1> QED
  BY <1>1, <1>2, InvInit, InvNext, PTL DEF Spec, ImplementsWorker, W!Spec

(* Composition, master half: what the master reads back from the table that *)
(* workers write to is what Master says (master.go 59-112,                  *)
(* block_time_repo.go 84-97), so the theorems of MasterProofs hold too.     *)
THEOREM MasterRefinement == Spec => ImplementsMaster
<1>1. Init => M!Init
  BY DEF Init, W!Init, M!Init, Rows, NewestIn
<1>2. IndexInv /\ [Next]_vars => [M!Next]_(M!vars)
  <2> SUFFICES ASSUME IndexInv, [Next]_vars
               PROVE  [M!Next]_(M!vars)
    OBVIOUS
  <2>1. CASE CreateMany
    BY <2>1, RowsCreated, NewestCreated
       DEF IndexInv, CreateMany, M!Next, M!CreateMany
  <2>2. CASE MasterStep
    BY <2>2 DEF MasterStep, M!Next
  <2>3. CASE WorkerHalf
    <3>1. Rows' = Rows /\ UNCHANGED <<created, now, mpc, from, to>>
      BY <2>3, WorkerRows DEF IndexInv, WorkerHalf, master
    <3> QED
      BY <3>1 DEF M!vars, NewestIn
  <2>4. CASE GetProcessed \/ Post \/ PostLost \/ UNCHANGED vars
    <3>1. UNCHANGED <<status, created, now, mpc, from, to>>
      BY <2>4 DEF GetProcessed, Post, PostLost, vars, workers, master
    <3> QED
      BY <3>1 DEF M!vars, Rows, NewestIn
  <2> QED
    BY <2>1, <2>2, <2>3, <2>4 DEF Next
<1> QED
  BY <1>1, <1>2, InvInit, InvNext, PTL DEF Spec, ImplementsMaster, M!Spec

-----------------------------------------------------------------------------
(* The theorems on the halves, of the whole. *)

WP == INSTANCE WorkerProofs WITH pc <- wpc

MP == INSTANCE MasterProofs
        WITH pc <- mpc, rows <- Rows, newest <- NewestIn(Rows)

LEMMA RowIsFinite == IsFiniteSet(Row)
<1> DEFINE A == 0 .. MaxNow - 1
           B == 1 .. MaxNow - 1
           R == [from : A, to : B]
           f == [p \in A \X B |-> [from |-> p[1], to |-> p[2]]]
<1>1. IsFiniteSet(A) /\ IsFiniteSet(B)
  BY IndexerAssumption, FS_Interval
<1>2. IsFiniteSet(A \X B)
  BY <1>1, FS_Product
<1>3. f \in Surjection(A \X B, R)
  <2>1. f \in [A \X B -> R]
    OBVIOUS
  <2>2. ASSUME NEW r \in R
        PROVE  \E p \in A \X B : f[p] = r
    <3>1. <<r.from, r.to>> \in A \X B /\ r = [from |-> r.from, to |-> r.to]
      OBVIOUS
    <3> QED
      BY <3>1
  <2> QED
    BY <2>1, <2>2 DEF Surjection
<1>4. IsFiniteSet(R)
  BY <1>2, <1>3, FS_Surjection
<1> QED
  BY <1>4, FS_Subset DEF Row

(* W and WP are the same module under two names, and so are M and MP.       *)
LEMMA SameWorker == W!Spec => WP!Spec
<1>1. \A S : W!Cardinality(S) = WP!Cardinality(S)
  BY DEF W!Cardinality, WP!Cardinality
<1>2. W!ClaimSets = WP!ClaimSets
  BY <1>1
     DEF W!ClaimSets, WP!ClaimSets, W!Eligible, WP!Eligible, W!Claimable,
         WP!Claimable, W!Locked, WP!Locked
<1>3. WP!Next <=> W!Next
  BY <1>2
     DEF W!Topic, WP!Topic, W!BlocksTopic, WP!BlocksTopic, W!table,
         WP!table, W!appends, WP!appends, W!sends, WP!sends, W!locals,
         WP!locals, W!vars, WP!vars, W!Claimable, WP!Claimable, W!Locked,
         WP!Locked, W!Eligible, WP!Eligible, W!Owning, WP!Owning, W!Owns,
         WP!Owns, W!Expose, WP!Expose, W!AtRisk, WP!AtRisk, W!Assign,
         WP!Assign, W!Revoke, WP!Revoke, W!UpdateStatus,
         WP!UpdateStatus, W!EndCalls, WP!EndCalls, W!Claim, WP!Claim,
         W!NoNewBlocks, WP!NoNewBlocks, W!CommitClaim, WP!CommitClaim,
         W!RollbackClaim, WP!RollbackClaim, W!FailAfterTx, WP!FailAfterTx,
         W!ResponseData, WP!ResponseData, W!FetchOk, WP!FetchOk,
         W!FetchFail, WP!FetchFail, W!NextTopic, WP!NextTopic, W!ReadSlice,
         WP!ReadSlice, W!WriteSlice, WP!WriteSlice, W!Joined, WP!Joined,
         W!Appended, WP!Appended, W!NoBlocks, WP!NoBlocks, W!StartSend,
         WP!StartSend, W!Unsent, WP!Unsent, W!Send, WP!Send, W!SendFail,
         WP!SendFail, W!Outcome, WP!Outcome, W!Finish, WP!Finish,
         W!CreateMany, WP!CreateMany, W!Stale, WP!Stale,
         W!UpdateFailedStatus, WP!UpdateFailedStatus, W!Tick, WP!Tick,
         W!Crash, WP!Crash, W!Settle, WP!Settle, W!RowStep, WP!RowStep,
         W!WorkerStep, WP!WorkerStep, W!Next, WP!Next
<1>4. W!Init => WP!Init
  BY DEF W!Init, WP!Init, W!Topic, WP!Topic
<1>5. [W!Next]_(W!vars) => [WP!Next]_(WP!vars)
  BY <1>3 DEF W!vars, WP!vars, W!table, WP!table, W!locals, WP!locals
<1> QED
  BY <1>4, <1>5, PTL DEF W!Spec, WP!Spec

LEMMA SameMaster == M!Spec => MP!Spec
<1>1. MP!Next <=> M!Next
  BY DEF M!vars, MP!vars, M!Windows, MP!Windows, M!NewestOf, MP!NewestOf,
         M!ResumePoints, MP!ResumePoints, M!FetchBlockTime,
         MP!FetchBlockTime, M!NothingToDo, MP!NothingToDo, M!Return,
         MP!Return, M!CreateMany, MP!CreateMany, M!CreateManyFail,
         MP!CreateManyFail, M!Tick, MP!Tick, M!Next, MP!Next
<1>2. M!Init => MP!Init
  BY DEF M!Init, MP!Init
<1>3. [M!Next]_(M!vars) => [MP!Next]_(MP!vars)
  BY <1>1 DEF M!vars, MP!vars
<1> QED
  BY <1>2, <1>3, PTL DEF M!Spec, MP!Spec

LEMMA WorkerFits ==
    /\ WP!IsFiniteSet(Row)
    /\ Chain \in [WP!Topic -> SUBSET Row]
BY RowIsFinite DEF IsFiniteSet, WP!IsFiniteSet, Chain, WP!Topic

(* block_time_repo.go 84-97, master.go 59-112: created_at and the windows   *)
(* are the master's in the whole as well, though workers update the rows.   *)
THEOREM RightWindows == Spec => []WindowsRight
<1>1. MP!Spec => [](MP!NoGaps /\ MP!WindowsValid /\ MP!ResumesNearEnd)
  BY IndexerAssumption, MP!Gapless, MP!ValidWindows, MP!NearEnd, PTL
<1>2. MP!Spec => []MP!AtMostTwice
  BY IndexerAssumption, MP!TwiceAtMost
<1>3. \A S : M!Cardinality(S) = MP!Cardinality(S)
  BY DEF M!Cardinality, MP!Cardinality
<1>4. MP!AtMostTwice => M!AtMostTwice
  BY <1>3 DEF M!AtMostTwice, MP!AtMostTwice, M!Covers, MP!Covers
<1>5. MP!NoGaps /\ MP!WindowsValid /\ MP!ResumesNearEnd
        => M!NoGaps /\ M!WindowsValid /\ M!ResumesNearEnd
  BY DEF M!NoGaps, MP!NoGaps, M!Covered, MP!Covered, M!Covers, MP!Covers,
         M!WindowsValid, MP!WindowsValid, M!ResumesNearEnd, MP!ResumesNearEnd
<1>6. MP!NoGaps /\ MP!WindowsValid /\ MP!ResumesNearEnd /\ MP!AtMostTwice
        => WindowsRight
  BY <1>4, <1>5 DEF WindowsRight
<1> QED
  BY <1>1, <1>2, <1>6, MasterRefinement, SameMaster, PTL DEF ImplementsMaster

(* Worker and master over one table, seen from the topics and the statuses  *)
(* alone, for any limit: windows are published, and done when they are, but *)
(* for the exposed ones.                                                    *)
THEOREM PublishRefinement == Spec => ImplementsPublishQueue
<1>1. WP!Spec => WP!ImplementsPublishQueue
  BY WorkerFits, IndexerAssumption, WP!Refinement
<1>2. /\ WP!PQ!Init <=> W!PQ!Init
      /\ [WP!PQ!Next]_(WP!PQ!vars) <=> [W!PQ!Next]_(W!PQ!vars)
  BY DEF WP!PQ!Init, W!PQ!Init, WP!PQ!Next, W!PQ!Next, WP!PQ!vars,
         W!PQ!vars, WP!PQ!Publish, W!PQ!Publish, WP!PQ!Complete,
         W!PQ!Complete, WP!PQ!Reopen, W!PQ!Reopen, WP!Topic, W!Topic
<1>3. WP!ImplementsPublishQueue => ImplementsPublishQueue
  BY <1>2, PTL
     DEF WP!ImplementsPublishQueue, ImplementsPublishQueue,
         W!ImplementsPublishQueue, WP!PQ!Spec, W!PQ!Spec
<1> QED
  BY <1>1, <1>3, WorkerRefinement, SameWorker, PTL DEF ImplementsWorker

(* master.go 59-112 and worker.go 113-258 together, for any limit: no       *)
(* minute is lost between the two halves.  The windows have no gap          *)
(* (Gapless), and DONE is published but for the exposed (DoneDelivered).    *)
THEOREM NoMinuteLost == Spec => []EveryMinuteAccounted
<1>1. WP!Spec => []WP!DoneIsDelivered
  BY WorkerFits, IndexerAssumption, WP!DoneDelivered
<1>2. MP!Spec => []MP!NoGaps
  BY IndexerAssumption, MP!Gapless
<1>3. WP!DoneIsDelivered /\ MP!NoGaps => EveryMinuteAccounted
  <2> SUFFICES ASSUME WP!DoneIsDelivered, MP!NoGaps,
                      NEW v \in Rows, NEW w \in Rows, NEW m \in v.to + 1 .. w.to
               PROVE  \E r \in Rows :
                         /\ M!Covers(r, m)
                         /\ Published(r) \/ status[r] # "DONE" \/ r \in exposed
    BY DEF EveryMinuteAccounted
  <2>1. PICK r \in Rows : M!Covers(r, m)
    BY DEF MP!NoGaps, MP!Covered, MP!Covers, M!Covers
  <2>2. status[r] = "DONE" => Published(r) \/ r \in exposed
    BY DEF WP!DoneIsDelivered, WP!Topic, Chain, Published, Rows
  <2> QED
    BY <2>1, <2>2
<1> QED
  BY <1>1, <1>2, <1>3, WorkerRefinement, MasterRefinement, SameWorker,
     SameMaster, PTL DEF ImplementsWorker, ImplementsMaster

-----------------------------------------------------------------------------
(* created_at and the end of the windows. *)

(* A row that is not younger than another ends less than a batch after it.  *)
StampsNearEnds ==
    \A r, s \in Rows : created[s] <= created[r] => s.to - r.to < BatchSize

PlanNearEnds == mpc = "save" => \A r \in Rows : r.to - from < BatchSize

NearInv == StampsNearEnds /\ PlanNearEnds

LEMMA RowTyped == \A r \in Row : r.from \in Int /\ r.to \in Int /\ r.from < r.to
BY IndexerAssumption DEF Row

LEMMA CreateManyNear ==
    ASSUME IndexInv, NearInv, CreateMany
    PROVE  StampsNearEnds'
<1> USE IndexerAssumption DEF IndexInv
<1> DEFINE Batch(w) == (w.from - from) \div BatchSize
<1>1. PICK last \in Nat :
          /\ \A r \in Row : created[r] <= last
          /\ created' = [r \in Row |->
                IF r \in Fresh THEN last + Stamp(r) ELSE created[r]]
  BY NewStamps
<1>2. /\ mpc = "save" /\ Rows' = Rows \cup Fresh
      /\ Rows \subseteq Row /\ Fresh \subseteq Row
      /\ from \in Int /\ to \in Int /\ from < to
  BY RowsCreated DEF CreateMany, Fresh, Rows, PlanInv
<1>3. \A r \in Fresh : /\ created'[r] = last + 1 + Batch(r)
                       /\ Batch(r) \in Nat /\ r.from - from \in Nat
  BY <1>1, <1>2, StampsTyped, PlannedRows DEF Fresh
<1>4. \A r \in Rows : created'[r] = created[r] /\ created[r] \in 0 .. last
  BY <1>1, <1>2, RowsCreated DEF StampInv
<1>5. \A r \in Rows : r.to - from < BatchSize
  BY <1>2 DEF NearInv, PlanNearEnds
<1>6. ASSUME NEW r \in Fresh, NEW s \in Fresh, Batch(s) <= Batch(r)
      PROVE  s.to - r.to < BatchSize
  <2>1. CASE to - from > SplitAfter
    <3>1. r.to = r.from + 1 /\ s.to = s.from + 1
      BY <2>1 DEF Fresh, M!Windows
    <3>2. \A a, b \in Nat : a \div BatchSize <= b \div BatchSize
                              => a - b < BatchSize
      OBVIOUS
    <3>3. (s.from - from) - (r.from - from) < BatchSize
      BY <1>3, <1>6, <3>2
    <3> QED
      BY <1>2, <3>1, <3>3, RowTyped
  <2>2. CASE ~ (to - from > SplitAfter)
    <3>1. r = s
      BY <2>2 DEF Fresh, M!Windows
    <3> QED
      BY <1>2, <3>1, RowTyped
  <2> QED
    BY <2>1, <2>2
<1> HIDE DEF Batch
<1> SUFFICES ASSUME NEW r \in Rows', NEW s \in Rows', created'[s] <= created'[r]
             PROVE  s.to - r.to < BatchSize
  BY DEF StampsNearEnds
<1>7. CASE r \in Rows /\ s \in Rows
  BY <1>4, <1>7 DEF NearInv, StampsNearEnds
<1>8. CASE r \in Fresh /\ s \in Rows
  <2>1. from < r.to
    BY <1>2, <1>3, <1>8, RowTyped
  <2> QED
    BY <1>2, <1>5, <1>8, <2>1, RowTyped
<1>9. CASE r \in Rows /\ s \in Fresh
  BY <1>3, <1>4, <1>9
<1>10. CASE r \in Fresh /\ s \in Fresh
  BY <1>3, <1>6, <1>10
<1> QED
  BY <1>2, <1>7, <1>8, <1>9, <1>10

LEMMA NewestExists ==
    ASSUME StampInv, Rows # {}
    PROVE  NewestIn(Rows) # {}
<1> DEFINE S == {created[r] : r \in Rows}
<1>1. S \subseteq Nat /\ S # {} /\ \E k \in Nat : \A n \in S : n <= k
  BY DEF StampInv, Rows
<1>2. \E n \in S : \A m \in S : m <= n
  BY <1>1, GreatestExists
<1> QED
  BY <1>2 DEF NewestIn

LEMMA NearNext == IndexInv /\ NearInv /\ [Next]_vars => NearInv'
<1> SUFFICES ASSUME IndexInv, NearInv, [Next]_vars
             PROVE  NearInv'
  OBVIOUS
<1>1. CASE CreateMany
  BY <1>1, CreateManyNear DEF CreateMany, M!Return, NearInv, PlanNearEnds
<1>2. CASE MasterStep
  <2>1. Rows' = Rows /\ created' = created
    BY <1>2 DEF MasterStep, workers, Rows
  <2>2. CASE M!FetchBlockTime
    <3>1. Rows = {} \/ \E v \in NewestIn(Rows) : from' = v.to
      BY <2>2, NewestExists DEF M!FetchBlockTime, M!ResumePoints, IndexInv
    <3> QED
      BY <2>1, <3>1 DEF NearInv, StampsNearEnds, PlanNearEnds, NewestIn
  <2>3. CASE M!NothingToDo \/ M!CreateManyFail \/ M!Tick
    BY <2>1, <2>3
       DEF M!NothingToDo, M!vars, M!CreateManyFail, M!Return, M!Tick,
           NearInv, StampsNearEnds, PlanNearEnds
  <2> QED
    BY <1>2, <2>2, <2>3 DEF MasterStep
<1>3. CASE WorkerHalf \/ GetProcessed \/ Post \/ PostLost \/ UNCHANGED vars
  <2>1. Rows' = Rows
    BY <1>3, WorkerRows
       DEF IndexInv, GetProcessed, Post, PostLost, vars, workers, Rows
  <2>2. UNCHANGED <<created, mpc, from>>
    BY <1>3 DEF WorkerHalf, GetProcessed, Post, PostLost, vars, master
  <2> QED
    BY <2>1, <2>2 DEF NearInv, StampsNearEnds, PlanNearEnds
<1> QED
  BY <1>1, <1>2, <1>3 DEF Next

(* master.go:117: the row Monitor measures ends within a batch of the last  *)
(* DONE window, for any windows and batches.                                *)
THEOREM MonitorNear == Spec => MonitorNearLatest
<1>1. Init => NearInv
  BY DEF Init, W!Init, NearInv, StampsNearEnds, PlanNearEnds, Rows
<1>2. NearInv /\ [Next]_vars =>
        [GetProcessed =>
           \A r \in latest' : \A s \in Row :
               status[s] # "DONE" \/ s.to - r.to < BatchSize]_vars
  <2> SUFFICES ASSUME NearInv, GetProcessed, NEW r \in latest',
                      NEW s \in Row, status[s] = "DONE"
               PROVE  s.to - r.to < BatchSize
    OBVIOUS
  <2>1. r \in Processed
    BY DEF GetProcessed
  <2>2. r \in Rows /\ s \in Rows /\ created[s] <= created[r]
    BY <2>1 DEF Processed, NewestIn, Rows
  <2> QED
    BY <2>2 DEF NearInv, StampsNearEnds
<1> QED
  BY <1>1, <1>2, InvInit, InvNext, NearNext, PTL DEF Spec, MonitorNearLatest
=============================================================================
