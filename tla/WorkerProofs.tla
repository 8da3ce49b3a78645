---------------------------- MODULE WorkerProofs ----------------------------
(***************************************************************************)
(* Safety of Worker for any number of goroutines, processes, windows and   *)
(* topics, and any limit.                                                  *)
(***************************************************************************)
EXTENDS Worker, TLAPS

PcType == {"idle", "tx", "txerr", "fetch", "send"}

(* The conjuncts of TypeOK, by what disturbs them together. *)
TableOK ==
    /\ status \in [Row -> Status]
    /\ age \in [Row -> 0 .. ReapAge]

LocalsOK ==
    /\ pc \in [Worker -> PcType]
    /\ batch \in [Worker -> SUBSET Row]
    /\ fetching \in [Worker -> SUBSET Row]
    /\ failed \in [Worker -> SUBSET Row]
    /\ left \in [Worker -> [Row -> SUBSET Topic]]
    /\ pend \in [Worker -> [Row -> SUBSET SUBSET Row]]
    /\ buf \in [Worker -> [Topic -> SUBSET Row]]
    /\ sent \in [Worker -> [Topic -> SUBSET Row]]
    /\ broke \in [Worker -> SUBSET Topic]

LEMMA AssignTyped ==
    ASSUME TableOK, NEW S, NEW st \in Status, Assign(S, st)
    PROVE  TableOK'
BY WorkerAssumption DEF TableOK, Assign

LEMMA RevokeTyped ==
    ASSUME revoked \in [Worker -> SUBSET Row], NEW S \in SUBSET Row, Revoke(S)
    PROVE  revoked' \in [Worker -> SUBSET Row]
BY DEF Revoke

LEMMA UpdateStatusTyped ==
    ASSUME TableOK, revoked \in [Worker -> SUBSET Row],
           NEW S \in SUBSET Row, NEW st \in Status, UpdateStatus(S, st)
    PROVE  TableOK' /\ revoked' \in [Worker -> SUBSET Row]
<1>1. CASE Assign(S, st) /\ Revoke(S)
  BY <1>1, AssignTyped, RevokeTyped
<1>2. CASE UNCHANGED table /\ Revoke({})
  BY <1>2, RevokeTyped DEF table, TableOK
<1> QED
  BY <1>1, <1>2 DEF UpdateStatus

LEMMA EndCallsTyped ==
    ASSUME LocalsOK, NEW P, EndCalls(P)
    PROVE  LocalsOK'
BY DEF LocalsOK, EndCalls, PcType

LEMMA ExposeTyped ==
    ASSUME NEW S, Expose(S)
    PROVE  exposed' \subseteq Row
BY DEF Expose

LEMMA TypeInit == Init => TypeOK
<1>1. "ABSENT" \in Status /\ 0 \in 0 .. ReapAge
  BY WorkerAssumption DEF Status
<1> SUFFICES ASSUME Init
             PROVE  TypeOK
  OBVIOUS
<1>2. TableOK
  BY <1>1 DEF Init, TableOK
<1>3. pend \in [Worker -> [Row -> SUBSET SUBSET Row]]
  <2>1. [r \in Row |-> {}] \in [Row -> SUBSET SUBSET Row]
    OBVIOUS
  <2> QED
    BY <2>1 DEF Init
<1>4. left \in [Worker -> [Row -> SUBSET Topic]]
  BY DEF Init
<1>5. /\ buf \in [Worker -> [Topic -> SUBSET Row]]
      /\ sent \in [Worker -> [Topic -> SUBSET Row]]
      /\ kafka \in [Topic -> SUBSET Row]
  BY DEF Init
<1> QED
  BY <1>2, <1>3, <1>4, <1>5 DEF Init, TypeOK, TableOK

LEMMA TypeNext == TypeOK /\ [Next]_vars => TypeOK'
<1> SUFFICES ASSUME TypeOK, [Next]_vars
             PROVE  TypeOK'
  OBVIOUS
<1> USE WorkerAssumption
<1>a. /\ TableOK /\ LocalsOK
      /\ kafka \in [Topic -> SUBSET Row]
      /\ settled \in BOOLEAN
      /\ revoked \in [Worker -> SUBSET Row]
      /\ exposed \subseteq Row
  BY DEF TypeOK, TableOK, LocalsOK, PcType
<1>q. /\ TableOK' /\ LocalsOK'
      /\ kafka' \in [Topic -> SUBSET Row]
      /\ settled' \in BOOLEAN
      /\ revoked' \in [Worker -> SUBSET Row]
      /\ exposed' \subseteq Row
      => TypeOK'
  BY DEF TypeOK, TableOK, LocalsOK, PcType
<1>st. "FAIL" \in Status /\ "DONE" \in Status /\ "PROCESSING" \in Status
       /\ "NOT_READY" \in Status
  BY DEF Status
<1>1. ASSUME NEW w \in Worker, Claim(w)
      PROVE  TypeOK'
  BY <1>1 DEF TypeOK, Claim, ClaimSets, Eligible, table, appends, sends
<1>2. ASSUME NEW w \in Worker, NoNewBlocks(w)
      PROVE  TypeOK'
  BY <1>2 DEF TypeOK, NoNewBlocks, vars, table, locals
<1>3. ASSUME NEW w \in Worker, CommitClaim(w)
      PROVE  TypeOK'
  <2>1. TableOK'
    BY <1>3, <1>a, <1>st, AssignTyped DEF CommitClaim
  <2>2. LocalsOK'
    <3>1. CASE pc' = [pc EXCEPT ![w] = "fetch"] /\ fetching' = [fetching EXCEPT ![w] = batch[w]]
      BY <1>3, <1>a, <3>1 DEF CommitClaim, LocalsOK, PcType, appends, sends
    <3>2. CASE pc' = [pc EXCEPT ![w] = "txerr"] /\ UNCHANGED fetching
      BY <1>3, <1>a, <3>2 DEF CommitClaim, LocalsOK, PcType, appends, sends
    <3> QED
      BY <1>3, <3>1, <3>2 DEF CommitClaim
  <2> QED
    BY <1>3, <1>a, <2>1, <2>2
       DEF CommitClaim, TypeOK, TableOK, LocalsOK, PcType, sends
<1>4. ASSUME NEW w \in Worker, RollbackClaim(w)
      PROVE  TypeOK'
  BY <1>4 DEF TypeOK, RollbackClaim, table, appends, sends
<1>5. ASSUME NEW w \in Worker, FailAfterTx(w)
      PROVE  TypeOK'
  BY <1>5, <1>a, <1>q, <1>st, EndCallsTyped, UpdateStatusTyped, ExposeTyped
     DEF FailAfterTx, LocalsOK
<1>6. ASSUME NEW w \in Worker, NEW r \in Row, FetchOk(w, r)
      PROVE  TypeOK'
  BY <1>6 DEF TypeOK, FetchOk, ResponseData, table, sends
<1>7. ASSUME NEW w \in Worker, NEW r \in Row, FetchFail(w, r)
      PROVE  TypeOK'
  <2>1. LocalsOK'
    BY <1>7, <1>a DEF FetchFail, LocalsOK, appends, sends
  <2>2. TableOK' /\ revoked' \in [Worker -> SUBSET Row]
    BY <1>7, <1>a, <1>st, UpdateStatusTyped DEF FetchFail
  <2> QED
    BY <1>7, <1>a, <1>q, <2>1, <2>2, ExposeTyped DEF FetchFail
<1>8. ASSUME NEW w \in Worker, NEW r \in Row, ReadSlice(w, r)
      PROVE  TypeOK'
  <2>1. PICK t \in Topic : pend' = [pend EXCEPT ![w][r] = {buf[w][t]}]
    BY <1>8 DEF ReadSlice
  <2>2. {buf[w][t]} \in SUBSET SUBSET Row
    BY DEF TypeOK
  <2>3. pend' \in [Worker -> [Row -> SUBSET SUBSET Row]]
    BY <2>1, <2>2 DEF TypeOK
  <2> QED
    BY <1>8, <2>3 DEF TypeOK, ReadSlice, table, sends
<1>9. ASSUME NEW w \in Worker, NEW r \in Row, WriteSlice(w, r)
      PROVE  TypeOK'
  <2>1. PICK t \in Topic, S \in pend[w][r] :
             /\ \/ buf' = [buf EXCEPT ![w][t] = S \cup {r}]
                \/ buf' = [buf EXCEPT ![w][t] = S]
             /\ left' = [left EXCEPT ![w][r] = @ \ {t}]
    BY <1>9 DEF WriteSlice
  <2>2. S \in SUBSET Row /\ S \cup {r} \in SUBSET Row
    BY DEF TypeOK
  <2>3. buf' \in [Worker -> [Topic -> SUBSET Row]]
    <3>1. CASE buf' = [buf EXCEPT ![w][t] = S \cup {r}]
      BY <3>1, <2>2 DEF TypeOK
    <3>2. CASE buf' = [buf EXCEPT ![w][t] = S]
      BY <3>2, <2>2 DEF TypeOK
    <3> QED
      BY <2>1, <3>1, <3>2
  <2>4. left' \in [Worker -> [Row -> SUBSET Topic]]
    BY <2>1 DEF TypeOK
  <2>5. pend' \in [Worker -> [Row -> SUBSET SUBSET Row]]
    <3>1. {} \in SUBSET SUBSET Row
      OBVIOUS
    <3> QED
      BY <1>9, <3>1 DEF TypeOK, WriteSlice
  <2> QED
    BY <1>9, <2>3, <2>4, <2>5 DEF TypeOK, WriteSlice, table, sends
<1>10. ASSUME NEW w \in Worker, NoBlocks(w)
       PROVE  TypeOK'
  BY <1>10, <1>a, <1>q, <1>st, EndCallsTyped, UpdateStatusTyped, ExposeTyped
     DEF NoBlocks, LocalsOK
<1>11. ASSUME NEW w \in Worker, StartSend(w)
       PROVE  TypeOK'
  BY <1>11 DEF TypeOK, StartSend, table, appends, sends
<1>12. ASSUME NEW w \in Worker, NEW t \in Topic, NEW r \in Row, Send(w, t, r)
       PROVE  TypeOK'
  BY <1>12 DEF TypeOK, Send, table, appends
<1>13. ASSUME NEW w \in Worker, NEW t \in Topic, NEW r \in Row,
              SendFail(w, t, r)
       PROVE  TypeOK'
  <2>1. kafka' \in [Topic -> SUBSET Row]
    <3>1. kafka[t] \cup {r} \in SUBSET Row
      BY DEF TypeOK
    <3>2. \/ kafka' = kafka
          \/ kafka' = [kafka EXCEPT ![t] = kafka[t] \cup {r}]
      BY <1>13 DEF SendFail
    <3> QED
      BY <3>1, <3>2 DEF TypeOK
  <2>2. broke' \in [Worker -> SUBSET Topic]
    <3>1. broke[w] \cup {t} \in SUBSET Topic
      BY DEF TypeOK
    <3> QED
      BY <1>13, <3>1 DEF TypeOK, SendFail
  <2> QED
    BY <1>13, <2>1, <2>2 DEF TypeOK, SendFail, table, appends
<1>14. ASSUME NEW w \in Worker, Finish(w)
       PROVE  TypeOK'
  <2>1. Outcome(w) \in Status
    BY <1>st DEF Outcome
  <2> QED
    BY <1>14, <1>a, <1>q, <2>1, EndCallsTyped, UpdateStatusTyped, ExposeTyped
       DEF Finish, LocalsOK
<1>15. CASE CreateMany
  BY <1>15, <1>a, <1>q, <1>st, AssignTyped DEF CreateMany, LocalsOK, locals
<1>16. CASE UpdateFailedStatus
  BY <1>16, <1>a, <1>q, <1>st, AssignTyped, RevokeTyped
     DEF UpdateFailedStatus, Stale, LocalsOK, locals
<1>17. CASE Tick
  BY <1>17 DEF TypeOK, Tick, locals
<1>18. ASSUME NEW P \in Processes, Crash(P)
       PROVE  TypeOK'
  BY <1>18, <1>a, <1>q, EndCallsTyped, RevokeTyped
     DEF Crash, TableOK, table
<1>19. CASE Settle
  BY <1>19 DEF TypeOK, Settle, table, locals
<1>20. CASE UNCHANGED vars
  BY <1>20 DEF TypeOK, vars, table, locals
<1> QED
  BY <1>1, <1>2, <1>3, <1>4, <1>5, <1>6, <1>7, <1>8, <1>9, <1>10, <1>11,
     <1>12, <1>13, <1>14, <1>15, <1>16, <1>17, <1>18, <1>19, <1>20
     DEF Next, WorkerStep, RowStep

(* The columns, locals and topics keep their types. *)
THEOREM TypeCorrect == Spec => []TypeOK
BY TypeInit, TypeNext, PTL DEF Spec

-----------------------------------------------------------------------------
(* The claim protocol. *)

(* What a claim transaction locked, nobody writes to before it commits. *)
LockedClaimable ==
    \A w \in Worker :
        pc[w] = "tx" => \A r \in batch[w] : status[r] \in Claimable

LocksDisjoint ==
    \A v, w \in Worker :
        v # w /\ pc[v] = "tx" /\ pc[w] = "tx" => batch[v] \cap batch[w] = {}

(* A call that works on a row and has not lost it finds it PROCESSING. *)
HeldProcessing ==
    \A w \in Worker :
        pc[w] \in {"fetch", "send"}
          => \A r \in batch[w] \ revoked[w] : status[r] = "PROCESSING"

ClaimInv == LockedClaimable /\ LocksDisjoint /\ HeldProcessing /\ ClaimExclusion

LEMMA EndCallsLocals ==
    ASSUME TypeOK, NEW P, EndCalls(P), NEW w \in Worker
    PROVE  /\ w \in P => /\ pc'[w] = "idle" /\ batch'[w] = {}
                         /\ fetching'[w] = {} /\ failed'[w] = {}
                         /\ broke'[w] = {}
                         /\ \A r \in Row : left'[w][r] = {} /\ pend'[w][r] = {}
                         /\ \A t \in Topic : buf'[w][t] = {} /\ sent'[w][t] = {}
           /\ w \notin P => /\ pc'[w] = pc[w] /\ batch'[w] = batch[w]
                            /\ fetching'[w] = fetching[w]
                            /\ failed'[w] = failed[w] /\ broke'[w] = broke[w]
                            /\ left'[w] = left[w] /\ pend'[w] = pend[w]
                            /\ buf'[w] = buf[w] /\ sent'[w] = sent[w]
BY DEF EndCalls

(* A status written outside the claim protocol disturbs no claim: it waits  *)
(* for the locked rows, and the calls that own the others lose them.        *)
LEMMA UpdateKeepsClaims ==
    ASSUME TypeOK, ClaimInv,
           NEW S \in SUBSET Row, NEW st \in Status, UpdateStatus(S, st),
           \A w \in Worker : \/ pc'[w] \notin Owning
                             \/ pc'[w] = pc[w] /\ batch'[w] = batch[w]
    PROVE  ClaimInv'
<1> USE DEF Owning
<1>1. ASSUME NEW r \in Row, r \notin S
      PROVE  status'[r] = status[r]
  BY <1>1 DEF UpdateStatus, Assign, TypeOK, table
<1>2. ASSUME NEW w \in Worker, NEW r \in batch[w], pc[w] = "tx"
      PROVE  status'[r] = status[r]
  <2>1. CASE S \cap Locked = {}
    BY <1>1, <1>2, <2>1 DEF Locked, TypeOK
  <2>2. CASE UNCHANGED table
    BY <2>2 DEF table
  <2> QED
    BY <2>1, <2>2 DEF UpdateStatus
<1>3. ASSUME NEW w \in Worker, NEW r \in Row, Owns(w, r)'
      PROVE  /\ Owns(w, r)
             /\ r \in revoked[w] => r \in revoked'[w]
             /\ r \notin revoked'[w] => status'[r] = status[r]
  <2>1. Owns(w, r)
    BY <1>3 DEF Owns
  <2>2. CASE Assign(S, st) /\ Revoke(S)
    BY <1>1, <1>3, <2>1, <2>2 DEF Revoke
  <2>3. CASE UNCHANGED table /\ Revoke({})
    BY <1>3, <2>1, <2>3 DEF Revoke, table
  <2> QED
    BY <2>1, <2>2, <2>3 DEF UpdateStatus
<1>4. LockedClaimable'
  BY <1>2 DEF ClaimInv, LockedClaimable, TypeOK
<1>5. LocksDisjoint'
  BY DEF ClaimInv, LocksDisjoint
<1>6. HeldProcessing'
  <2> SUFFICES ASSUME NEW w \in Worker, pc'[w] \in {"fetch", "send"},
                      NEW r \in batch'[w] \ revoked'[w]
               PROVE  status'[r] = "PROCESSING"
    BY DEF HeldProcessing
  <2>1. pc'[w] = pc[w] /\ batch'[w] = batch[w] /\ r \in Row
    BY DEF TypeOK
  <2>2. Owns(w, r)'
    BY DEF Owns
  <2> QED
    BY <1>3, <2>1, <2>2 DEF ClaimInv, HeldProcessing
<1>7. ClaimExclusion'
  BY <1>3 DEF ClaimInv, ClaimExclusion
<1> QED
  BY <1>4, <1>5, <1>6, <1>7 DEF ClaimInv

(* So does one that ends the calls of some goroutines. *)
LEMMA EndKeepsClaims ==
    ASSUME TypeOK, ClaimInv, NEW P, EndCalls(P),
           NEW S \in SUBSET Row, NEW st \in Status, UpdateStatus(S, st)
    PROVE  ClaimInv'
<1>1. \A v \in Worker : \/ pc'[v] \notin Owning
                        \/ pc'[v] = pc[v] /\ batch'[v] = batch[v]
  BY EndCallsLocals DEF Owning
<1> QED
  BY <1>1, UpdateKeepsClaims

LEMMA ClaimNext == TypeOK /\ ClaimInv /\ [Next]_vars => ClaimInv'
<1> SUFFICES ASSUME TypeOK, ClaimInv, [Next]_vars
             PROVE  ClaimInv'
  OBVIOUS
<1> USE DEF Owning
<1>fr. UNCHANGED <<status, pc, batch, revoked>> => ClaimInv'
  BY DEF ClaimInv, LockedClaimable, LocksDisjoint, HeldProcessing,
         ClaimExclusion, Owns
<1>st. "FAIL" \in Status /\ "DONE" \in Status
  BY DEF Status
<1>b. \A w \in Worker : batch[w] \in SUBSET Row
  BY DEF TypeOK
<1>1. ASSUME NEW w \in Worker, Claim(w)
      PROVE  ClaimInv'
  <2>1. PICK S \in ClaimSets : batch' = [batch EXCEPT ![w] = S]
    BY <1>1 DEF Claim
  <2>2. /\ pc' = [pc EXCEPT ![w] = "tx"] /\ pc[w] = "idle"
        /\ status' = status /\ revoked' = revoked
    BY <1>1 DEF Claim, table
  <2>3. S \subseteq Row /\ \A r \in S : status[r] \in Claimable /\ r \notin Locked
    BY DEF ClaimSets, Eligible
  <2>4. /\ pc'[w] = "tx" /\ batch'[w] = S
        /\ \A v \in Worker \ {w} : pc'[v] = pc[v] /\ batch'[v] = batch[v]
    BY <2>1, <2>2 DEF TypeOK
  <2>5. LockedClaimable'
    BY <2>2, <2>3, <2>4 DEF ClaimInv, LockedClaimable
  <2>6. ASSUME NEW v \in Worker \ {w}, pc[v] = "tx"
        PROVE  batch[v] \cap S = {}
    BY <2>3, <2>6 DEF Locked
  <2>7. LocksDisjoint'
    BY <2>4, <2>6 DEF ClaimInv, LocksDisjoint
  <2>8. HeldProcessing'
    BY <2>2, <2>4 DEF ClaimInv, HeldProcessing
  <2>9. ASSUME NEW v \in Worker \ {w}, NEW r \in S, Owns(v, r)
        PROVE  r \in revoked[v]
    <3>1. pc[v] # "tx"
      BY <2>6, <2>9 DEF Owns
    <3>2. status[r] # "PROCESSING"
      BY <2>3 DEF Claimable
    <3> QED
      BY <2>9, <3>1, <3>2 DEF Owns, ClaimInv, HeldProcessing
  <2>10. ClaimExclusion'
    <3> SUFFICES ASSUME NEW u \in Worker, NEW v \in Worker, NEW r \in Row,
                        u # v, Owns(u, r)', Owns(v, r)'
                 PROVE  r \in revoked'[u] \cup revoked'[v]
      BY DEF ClaimExclusion
    <3>1. CASE u = w
      BY <2>2, <2>4, <2>9, <3>1 DEF Owns
    <3>2. CASE v = w
      BY <2>2, <2>4, <2>9, <3>2 DEF Owns
    <3>3. CASE u # w /\ v # w
      BY <2>2, <2>4, <3>3 DEF Owns, ClaimInv, ClaimExclusion
    <3> QED
      BY <3>1, <3>2, <3>3
  <2> QED
    BY <2>5, <2>7, <2>8, <2>10 DEF ClaimInv
<1>2. ASSUME NEW w \in Worker, NoNewBlocks(w)
      PROVE  ClaimInv'
  BY <1>2, <1>fr DEF NoNewBlocks, vars, table, locals
<1>3. ASSUME NEW w \in Worker, CommitClaim(w)
      PROVE  ClaimInv'
  <2>1. /\ pc[w] = "tx" /\ pc'[w] \in {"fetch", "txerr"}
        /\ \A v \in Worker \ {w} : pc'[v] = pc[v]
        /\ batch' = batch /\ revoked' = revoked
    BY <1>3 DEF CommitClaim, TypeOK
  <2>2. \A r \in Row : status'[r] = IF r \in batch[w] THEN "PROCESSING"
                                                      ELSE status[r]
    BY <1>3 DEF CommitClaim, Assign
  <2>3. batch[w] \subseteq Row
    BY DEF TypeOK
  <2>4. LockedClaimable'
    <3> SUFFICES ASSUME NEW v \in Worker, pc'[v] = "tx", NEW r \in batch[v]
                 PROVE  status'[r] \in Claimable
      BY <2>1 DEF LockedClaimable
    <3>1. v # w /\ pc[v] = "tx" /\ r \in Row
      BY <2>1 DEF TypeOK
    <3>2. r \notin batch[w]
      BY <2>1, <3>1 DEF ClaimInv, LocksDisjoint
    <3> QED
      BY <2>2, <3>1, <3>2 DEF ClaimInv, LockedClaimable
  <2>5. LocksDisjoint'
    BY <2>1 DEF ClaimInv, LocksDisjoint
  <2>6. HeldProcessing'
    <3> SUFFICES ASSUME NEW v \in Worker, pc'[v] \in {"fetch", "send"},
                        NEW r \in batch[v] \ revoked[v], r \notin batch[w]
                 PROVE  status'[r] = "PROCESSING"
      BY <2>1, <2>2, <2>3 DEF HeldProcessing
    <3> QED
      BY <2>1, <2>2 DEF TypeOK, ClaimInv, HeldProcessing
  <2>7. ClaimExclusion'
    BY <2>1 DEF ClaimInv, ClaimExclusion, Owns
  <2> QED
    BY <2>4, <2>5, <2>6, <2>7 DEF ClaimInv
<1>4. ASSUME NEW w \in Worker, RollbackClaim(w)
      PROVE  ClaimInv'
  <2>1. /\ pc'[w] = "txerr" /\ \A v \in Worker \ {w} : pc'[v] = pc[v]
        /\ status' = status /\ batch' = batch /\ revoked' = revoked
    BY <1>4 DEF RollbackClaim, TypeOK, table
  <2> QED
    BY <2>1 DEF ClaimInv, LockedClaimable, LocksDisjoint, HeldProcessing,
                ClaimExclusion, Owns
<1>5. ASSUME NEW w \in Worker, FailAfterTx(w)
      PROVE  ClaimInv'
  BY <1>5, <1>st, <1>b, EndKeepsClaims DEF FailAfterTx
<1>6. ASSUME NEW w \in Worker, NEW r \in Row, FetchOk(w, r)
      PROVE  ClaimInv'
  BY <1>6, <1>fr DEF FetchOk, table
<1>7. ASSUME NEW w \in Worker, NEW r \in Row, FetchFail(w, r)
      PROVE  ClaimInv'
  BY <1>7, <1>st, UpdateKeepsClaims DEF FetchFail
<1>8. ASSUME NEW w \in Worker, NEW r \in Row, ReadSlice(w, r)
      PROVE  ClaimInv'
  BY <1>8, <1>fr DEF ReadSlice, table
<1>9. ASSUME NEW w \in Worker, NEW r \in Row, WriteSlice(w, r)
      PROVE  ClaimInv'
  BY <1>9, <1>fr DEF WriteSlice, table
<1>10. ASSUME NEW w \in Worker, NoBlocks(w)
       PROVE  ClaimInv'
  BY <1>10, <1>st, <1>b, EndKeepsClaims DEF NoBlocks
<1>11. ASSUME NEW w \in Worker, StartSend(w)
       PROVE  ClaimInv'
  <2>1. /\ pc[w] = "fetch" /\ pc'[w] = "send"
        /\ \A v \in Worker \ {w} : pc'[v] = pc[v]
        /\ status' = status /\ batch' = batch /\ revoked' = revoked
    BY <1>11 DEF StartSend, Joined, TypeOK, table
  <2> QED
    BY <2>1 DEF ClaimInv, LockedClaimable, LocksDisjoint, HeldProcessing,
                ClaimExclusion, Owns
<1>12. ASSUME NEW w \in Worker, NEW t \in Topic, NEW r \in Row, Send(w, t, r)
       PROVE  ClaimInv'
  BY <1>12, <1>fr DEF Send, table
<1>13. ASSUME NEW w \in Worker, NEW t \in Topic, NEW r \in Row,
              SendFail(w, t, r)
       PROVE  ClaimInv'
  BY <1>13, <1>fr DEF SendFail, table
<1>14. ASSUME NEW w \in Worker, Finish(w)
       PROVE  ClaimInv'
  <2>1. Outcome(w) \in Status
    BY <1>st DEF Outcome
  <2> QED
    BY <1>14, <1>b, <2>1, EndKeepsClaims DEF Finish
<1>15. CASE CreateMany
  <2>1. /\ pc' = pc /\ batch' = batch /\ revoked' = revoked
        /\ \A r \in Row : status[r] # "ABSENT" => status'[r] = status[r]
    BY <1>15 DEF CreateMany, Assign, locals
  <2>2. \A w \in Worker : batch[w] \subseteq Row
    BY DEF TypeOK
  <2>3. LockedClaimable'
    BY <2>1, <2>2 DEF ClaimInv, LockedClaimable, Claimable
  <2>4. HeldProcessing'
    BY <2>1, <2>2 DEF ClaimInv, HeldProcessing
  <2> QED
    BY <2>1, <2>3, <2>4 DEF ClaimInv, LocksDisjoint, ClaimExclusion, Owns
<1>16. CASE UpdateFailedStatus
  <2>1. Stale \in SUBSET Row /\ UpdateStatus(Stale, "FAIL")
    BY <1>16 DEF UpdateFailedStatus, UpdateStatus, Stale
  <2> QED
    BY <1>16, <1>st, <2>1, UpdateKeepsClaims DEF UpdateFailedStatus, locals
<1>17. CASE Tick
  BY <1>17, <1>fr DEF Tick, locals
<1>18. ASSUME NEW P \in Processes, Crash(P)
       PROVE  ClaimInv'
  <2>1. UpdateStatus({}, "FAIL") /\ EndCalls(P)
    BY <1>18 DEF Crash, UpdateStatus
  <2> QED
    BY <1>st, <2>1, EndKeepsClaims
<1>19. CASE Settle
  BY <1>19, <1>fr DEF Settle, table, locals
<1>20. CASE UNCHANGED vars
  BY <1>20, <1>fr DEF vars, table, locals
<1> QED
  BY <1>1, <1>2, <1>3, <1>4, <1>5, <1>6, <1>7, <1>8, <1>9, <1>10, <1>11,
     <1>12, <1>13, <1>14, <1>15, <1>16, <1>17, <1>18, <1>19, <1>20
     DEF Next, WorkerStep, RowStep

LEMMA ClaimInit == Init => ClaimInv
BY DEF Init, ClaimInv, LockedClaimable, LocksDisjoint, HeldProcessing,
       ClaimExclusion, Owns, Owning

(* FOR UPDATE SKIP LOCKED gives a row to one call at a time. *)
THEOREM ClaimSafety == Spec => []ClaimExclusion
<1>1. ClaimInv => ClaimExclusion
  BY DEF ClaimInv
<1> QED
  BY <1>1, TypeInit, TypeNext, ClaimInit, ClaimNext, PTL DEF Spec

-----------------------------------------------------------------------------
(* One call of fetchData, from the join of its goroutines to its outcome.   *)

(* How the locals of a call fit together.  The last three conjuncts say     *)
(* that a batch of one row has no race: what its goroutine read is what the *)
(* slice still holds, and what it does not have to append any more is there.*)
CallOK(w) ==
    /\ fetching[w] \subseteq batch[w]
    /\ fetching[w] # {} => pc[w] = "fetch"
    /\ \A r \in Row :
          /\ left[w][r] # {}
               => pc[w] = "fetch" /\ r \in batch[w] /\ r \notin fetching[w]
          /\ left[w][r] \subseteq ResponseData(r)
          /\ pend[w][r] # {} => left[w][r] # {}
          /\ \A S \in pend[w][r] : \A t \in Topic :
                NextTopic(w, r, t) => S \subseteq Chain[t]
    /\ \A t \in Topic : buf[w][t] \subseteq Chain[t]
    /\ \A t \in Topic : sent[w][t] \subseteq kafka[t]
    /\ \A r \in Row : batch[w] = {r} =>
          /\ \A S \in pend[w][r] : \A t \in Topic :
                NextTopic(w, r, t) => S = buf[w][t]
          /\ pc[w] = "fetch" /\ r \notin fetching[w] \cup failed[w] =>
                \A t \in ResponseData(r) : t \in left[w][r] \/ r \in buf[w][t]
          /\ pc[w] = "send" =>
                /\ r \notin failed[w]
                /\ \A t \in ResponseData(r) : r \in buf[w][t]

CallInv == \A w \in Worker : CallOK(w)

LEMMA CallFrame ==
    ASSUME NEW v \in Worker, CallOK(v),
           pc'[v] = pc[v], batch'[v] = batch[v], fetching'[v] = fetching[v],
           failed'[v] = failed[v], left'[v] = left[v], pend'[v] = pend[v],
           buf'[v] = buf[v], sent'[v] = sent[v],
           \A t \in Topic : kafka[t] \subseteq kafka'[t]
    PROVE  CallOK(v)'
<1>1. \A r \in Row, t \in Topic : NextTopic(v, r, t)' = NextTopic(v, r, t)
  BY DEF NextTopic
<1> QED
  BY <1>1 DEF CallOK, ResponseData

LEMMA CallReset ==
    ASSUME NEW v \in Worker, pc'[v] = "idle", batch'[v] = {},
           fetching'[v] = {},
           \A r \in Row : left'[v][r] = {} /\ pend'[v][r] = {},
           \A t \in Topic : buf'[v][t] = {} /\ sent'[v][t] = {}
    PROVE  CallOK(v)'
BY DEF CallOK

LEMMA CallEnd ==
    ASSUME TypeOK, CallInv, NEW P, EndCalls(P), kafka' = kafka
    PROVE  CallInv'
<1> SUFFICES ASSUME NEW v \in Worker
             PROVE  CallOK(v)'
  BY DEF CallInv
<1>1. CASE v \in P
  BY <1>1, EndCallsLocals, CallReset
<1>2. CASE v \notin P
  <2>1. CallOK(v) /\ \A t \in Topic : kafka[t] \subseteq kafka'[t]
    BY DEF CallInv
  <2> QED
    BY <1>2, <2>1, EndCallsLocals, CallFrame
<1> QED
  BY <1>1, <1>2

(* Storing a record takes nothing away. *)
LEMMA StoreGrows ==
    ASSUME kafka \in [Topic -> SUBSET Row], NEW t \in Topic, NEW u \in Topic,
           NEW r, kafka' = kafka \/ kafka' = [kafka EXCEPT ![u] = kafka[u] \cup {r}]
    PROVE  kafka[t] \subseteq kafka'[t]
<1>1. kafka'[t] = kafka[t] \/ kafka'[t] = kafka[t] \cup {r}
  OBVIOUS
<1> QED
  BY <1>1

LEMMA NextTopicUnique ==
    ASSUME TypeOK, NEW w \in Worker, NEW r \in Row, NEW t \in Topic,
           NEW u \in Topic, NextTopic(w, r, t), NextTopic(w, r, u)
    PROVE  t = u
BY WorkerAssumption DEF NextTopic, Topic

LEMMA CallInit == Init => CallInv
<1> SUFFICES ASSUME Init, NEW w \in Worker
             PROVE  CallOK(w)
  BY DEF CallInv
<1> QED
  BY DEF Init, CallOK

LEMMA CallNext == TypeOK /\ CallInv /\ [Next]_vars => CallInv'
<1> SUFFICES ASSUME TypeOK, CallInv, [Next]_vars
             PROVE  CallInv'
  OBVIOUS
<1>ok. ASSUME NEW v \in Worker
       PROVE  CallOK(v)
  BY DEF CallInv
<1>k. kafka' = kafka => \A t \in Topic : kafka[t] \subseteq kafka'[t]
  OBVIOUS
<1>fr. UNCHANGED <<pc, batch, fetching, failed, left, pend, buf, sent, kafka>>
       => CallInv'
  BY <1>ok, <1>k, CallFrame DEF CallInv
<1>1. ASSUME NEW w \in Worker, Claim(w)
      PROVE  CallInv'
  <2> SUFFICES ASSUME NEW v \in Worker
               PROVE  CallOK(v)'
    BY DEF CallInv
  <2>1. /\ pc[w] = "idle" /\ pc'[w] = "tx"
        /\ UNCHANGED <<fetching, failed, left, pend, buf, sent, kafka>>
        /\ v # w => pc'[v] = pc[v] /\ batch'[v] = batch[v]
    BY <1>1 DEF Claim, TypeOK, appends, sends
  <2>2. CASE v # w
    BY <1>ok, <1>k, <2>1, <2>2, CallFrame
  <2>3. CASE v = w
    <3>1. CallOK(w)
      BY <1>ok
    <3>2. \A r \in Row : left'[w][r] = {} /\ pend'[w][r] = {}
      BY <2>1, <3>1 DEF CallOK
    <3>3. fetching'[w] = {}
      BY <2>1, <3>1 DEF CallOK
    <3>4. \A t \in Topic : buf'[w][t] \subseteq Chain[t] /\ sent'[w][t] \subseteq kafka'[t]
      BY <2>1, <3>1 DEF CallOK
    <3> QED
      BY <2>1, <2>3, <3>2, <3>3, <3>4 DEF CallOK
  <2> QED
    BY <2>2, <2>3
<1>2. ASSUME NEW w \in Worker, NoNewBlocks(w)
      PROVE  CallInv'
  BY <1>2, <1>fr DEF NoNewBlocks, vars, locals
<1>3. ASSUME NEW w \in Worker, CommitClaim(w)
      PROVE  CallInv'
  <2> SUFFICES ASSUME NEW v \in Worker
               PROVE  CallOK(v)'
    BY DEF CallInv
  <2>1. /\ pc[w] = "tx" /\ UNCHANGED <<batch, failed, left, pend, buf, sent, kafka>>
        /\ \/ pc'[w] = "fetch" /\ fetching'[w] = batch[w]
           \/ pc'[w] = "txerr" /\ fetching'[w] = fetching[w]
        /\ v # w => pc'[v] = pc[v] /\ fetching'[v] = fetching[v]
    BY <1>3 DEF CommitClaim, TypeOK, appends, sends
  <2>2. CASE v # w
    BY <1>ok, <1>k, <2>1, <2>2, CallFrame
  <2>3. CASE v = w
    <3>1. CallOK(w)
      BY <1>ok
    <3>2. \A r \in Row : left'[w][r] = {} /\ pend'[w][r] = {}
      BY <2>1, <3>1 DEF CallOK
    <3>3. fetching[w] = {}
      BY <2>1, <3>1 DEF CallOK
    <3>4. \A t \in Topic : buf'[w][t] \subseteq Chain[t] /\ sent'[w][t] \subseteq kafka'[t]
      BY <2>1, <3>1 DEF CallOK
    <3> QED
      BY <2>1, <2>3, <3>2, <3>3, <3>4 DEF CallOK
  <2> QED
    BY <2>2, <2>3
<1>4. ASSUME NEW w \in Worker, RollbackClaim(w)
      PROVE  CallInv'
  <2> SUFFICES ASSUME NEW v \in Worker
               PROVE  CallOK(v)'
    BY DEF CallInv
  <2>1. /\ pc[w] = "tx" /\ pc'[w] = "txerr" /\ (v # w => pc'[v] = pc[v])
        /\ UNCHANGED <<batch, fetching, failed, left, pend, buf, sent, kafka>>
    BY <1>4 DEF RollbackClaim, TypeOK, appends, sends
  <2>2. CASE v # w
    BY <1>ok, <1>k, <2>1, <2>2, CallFrame
  <2>3. CASE v = w
    <3>1. CallOK(w)
      BY <1>ok
    <3>2. \A r \in Row : left'[w][r] = {} /\ pend'[w][r] = {}
      BY <2>1, <3>1 DEF CallOK
    <3>3. fetching'[w] = {}
      BY <2>1, <3>1 DEF CallOK
    <3>4. \A t \in Topic : buf'[w][t] \subseteq Chain[t] /\ sent'[w][t] \subseteq kafka'[t]
      BY <2>1, <3>1 DEF CallOK
    <3> QED
      BY <2>1, <2>3, <3>2, <3>3, <3>4 DEF CallOK
  <2> QED
    BY <2>2, <2>3
<1>5. ASSUME NEW w \in Worker, FailAfterTx(w)
      PROVE  CallInv'
  BY <1>5, CallEnd DEF FailAfterTx
<1>6. ASSUME NEW w \in Worker, NEW r \in Row, FetchOk(w, r)
      PROVE  CallInv'
  <2> SUFFICES ASSUME NEW v \in Worker
               PROVE  CallOK(v)'
    BY DEF CallInv
  <2>1. /\ UNCHANGED <<pc, batch, failed, pend, buf, sent, kafka>>
        /\ r \in fetching[w] /\ fetching'[w] = fetching[w] \ {r}
        /\ left'[w][r] = ResponseData(r)
        /\ \A q \in Row \ {r} : left'[w][q] = left[w][q]
        /\ v # w => fetching'[v] = fetching[v] /\ left'[v] = left[v]
    BY <1>6 DEF FetchOk, TypeOK, sends
  <2>2. CASE v # w
    BY <1>ok, <1>k, <2>1, <2>2, CallFrame
  <2>3. CASE v = w
    <3>1. CallOK(w)
      BY <1>ok
    <3>2. pc[w] = "fetch" /\ r \in batch[w] /\ pend[w][r] = {}
      BY <2>1, <3>1 DEF CallOK
    <3>3. \A q \in Row \ {r}, t \in Topic :
              NextTopic(w, q, t)' = NextTopic(w, q, t)
      BY <2>1 DEF NextTopic
    <3>4. ASSUME NEW q \in Row
          PROVE  /\ left'[w][q] # {}
                      => pc[w] = "fetch" /\ q \in batch[w] /\ q \notin fetching'[w]
                 /\ left'[w][q] \subseteq ResponseData(q)
                 /\ pend[w][q] # {} => left'[w][q] # {}
                 /\ \A S \in pend[w][q] : \A t \in Topic :
                       NextTopic(w, q, t)' => S \subseteq Chain[t]
      BY <2>1, <3>1, <3>2, <3>3 DEF CallOK
    <3>5. ASSUME NEW q \in Row, batch[w] = {q}
          PROVE  q = r
      BY <3>2, <3>5
    <3> QED
      BY <2>1, <2>3, <3>1, <3>2, <3>4, <3>5 DEF CallOK
  <2> QED
    BY <2>2, <2>3
<1>7. ASSUME NEW w \in Worker, NEW r \in Row, FetchFail(w, r)
      PROVE  CallInv'
  <2> SUFFICES ASSUME NEW v \in Worker
               PROVE  CallOK(v)'
    BY DEF CallInv
  <2>1. /\ UNCHANGED <<pc, batch, left, pend, buf, sent, kafka>>
        /\ r \in fetching[w] /\ fetching'[w] = fetching[w] \ {r}
        /\ failed'[w] = failed[w] \cup {r}
        /\ v # w => fetching'[v] = fetching[v] /\ failed'[v] = failed[v]
    BY <1>7 DEF FetchFail, TypeOK, appends, sends
  <2>2. CASE v # w
    BY <1>ok, <1>k, <2>1, <2>2, CallFrame
  <2>3. CASE v = w
    <3>1. CallOK(w) /\ pc[w] = "fetch"
      BY <1>ok, <2>1 DEF CallOK
    <3>2. \A q \in Row, t \in Topic : NextTopic(w, q, t)' = NextTopic(w, q, t)
      BY <2>1 DEF NextTopic
    <3> QED
      BY <2>1, <2>3, <3>1, <3>2 DEF CallOK, ResponseData
  <2> QED
    BY <2>2, <2>3
<1>8. ASSUME NEW w \in Worker, NEW r \in Row, ReadSlice(w, r)
      PROVE  CallInv'
  <2> SUFFICES ASSUME NEW v \in Worker
               PROVE  CallOK(v)'
    BY DEF CallInv
  <2>1. PICK t \in Topic : /\ NextTopic(w, r, t)
                           /\ pend' = [pend EXCEPT ![w][r] = {buf[w][t]}]
    BY <1>8 DEF ReadSlice
  <2>2. /\ UNCHANGED <<pc, batch, fetching, failed, left, buf, sent, kafka>>
        /\ pend'[w][r] = {buf[w][t]}
        /\ \A q \in Row \ {r} : pend'[w][q] = pend[w][q]
        /\ v # w => pend'[v] = pend[v]
    BY <1>8, <2>1 DEF ReadSlice, TypeOK, sends
  <2>3. CASE v # w
    BY <1>ok, <1>k, <2>2, <2>3, CallFrame
  <2>4. CASE v = w
    <3>1. CallOK(w)
      BY <1>ok
    <3>2. \A q \in Row, u \in Topic : NextTopic(w, q, u)' = NextTopic(w, q, u)
      BY <2>2 DEF NextTopic
    <3>3. \A u \in Topic : NextTopic(w, r, u) => u = t
      BY <2>1, NextTopicUnique
    <3>4. left[w][r] # {}
      BY <2>1 DEF NextTopic
    <3> QED
      BY <2>2, <2>4, <3>1, <3>2, <3>3, <3>4 DEF CallOK, ResponseData
  <2> QED
    BY <2>3, <2>4
<1>9. ASSUME NEW w \in Worker, NEW r \in Row, WriteSlice(w, r)
      PROVE  CallInv'
  <2> SUFFICES ASSUME NEW v \in Worker
               PROVE  CallOK(v)'
    BY DEF CallInv
  <2>1. PICK t \in Topic, S \in pend[w][r] :
             /\ NextTopic(w, r, t)
             /\ \/ buf' = [buf EXCEPT ![w][t] = S \cup {r}]
                \/ buf[w][t] # S /\ buf' = [buf EXCEPT ![w][t] = S]
             /\ left' = [left EXCEPT ![w][r] = @ \ {t}]
    BY <1>9 DEF WriteSlice
  <2>2. /\ UNCHANGED <<pc, batch, fetching, failed, sent, kafka>>
        /\ pend'[w][r] = {} /\ left'[w][r] = left[w][r] \ {t}
        /\ \A q \in Row \ {r} : pend'[w][q] = pend[w][q] /\ left'[w][q] = left[w][q]
        /\ \A u \in Topic \ {t} : buf'[w][u] = buf[w][u]
        /\ \/ buf'[w][t] = S \cup {r}
           \/ buf[w][t] # S /\ buf'[w][t] = S
        /\ v # w => pend'[v] = pend[v] /\ left'[v] = left[v] /\ buf'[v] = buf[v]
    BY <1>9, <2>1 DEF WriteSlice, TypeOK, sends
  <2>3. CASE v # w
    BY <1>ok, <1>k, <2>2, <2>3, CallFrame
  <2>4. CASE v = w
    <3>1. CallOK(w)
      BY <1>ok
    <3>2. \A q \in Row \ {r}, u \in Topic :
              NextTopic(w, q, u)' = NextTopic(w, q, u)
      BY <2>2 DEF NextTopic
    <3>3. /\ t \in left[w][r] /\ t \in ResponseData(r) /\ S \subseteq Chain[t]
          /\ pc[w] = "fetch" /\ r \in batch[w] /\ r \notin fetching[w]
      BY <2>1, <3>1 DEF CallOK, NextTopic
    <3>4. \A u \in Topic : buf'[w][u] \subseteq Chain[u]
      BY <2>2, <3>1, <3>3 DEF CallOK, ResponseData
    <3>5. ASSUME NEW q \in Row
          PROVE  /\ left'[w][q] # {}
                      => pc[w] = "fetch" /\ q \in batch[w] /\ q \notin fetching[w]
                 /\ left'[w][q] \subseteq ResponseData(q)
                 /\ pend'[w][q] # {} => left'[w][q] # {}
                 /\ \A T \in pend'[w][q] : \A u \in Topic :
                       NextTopic(w, q, u)' => T \subseteq Chain[u]
      BY <2>2, <3>1, <3>2, <3>3 DEF CallOK
    <3>6. ASSUME NEW q \in Row, batch[w] = {q}
          PROVE  /\ q = r /\ S = buf[w][t]
                 /\ pend'[w][q] = {}
                 /\ q \notin fetching[w] \cup failed[w] =>
                       \A u \in ResponseData(q) : u \in left'[w][q] \/ q \in buf'[w][u]
      <4>1. q = r /\ S = buf[w][t]
        BY <2>1, <3>1, <3>3, <3>6 DEF CallOK
      <4>2. buf'[w][t] = S \cup {r}
        BY <2>2, <4>1
      <4> QED
        BY <2>2, <3>1, <3>3, <3>6, <4>1, <4>2 DEF CallOK, ResponseData
    <3> QED
      BY <2>2, <2>4, <3>1, <3>3, <3>4, <3>5, <3>6 DEF CallOK
  <2> QED
    BY <2>3, <2>4
<1>10. ASSUME NEW w \in Worker, NoBlocks(w)
       PROVE  CallInv'
  BY <1>10, CallEnd DEF NoBlocks
<1>11. ASSUME NEW w \in Worker, StartSend(w)
       PROVE  CallInv'
  <2> SUFFICES ASSUME NEW v \in Worker
               PROVE  CallOK(v)'
    BY DEF CallInv
  <2>1. /\ pc[w] = "fetch" /\ pc'[w] = "send" /\ (v # w => pc'[v] = pc[v])
        /\ UNCHANGED <<batch, fetching, failed, left, pend, buf, sent, kafka>>
        /\ fetching[w] = {} /\ \A q \in Row : left[w][q] = {}
        /\ batch[w] \ failed[w] # {}
    BY <1>11 DEF StartSend, Joined, Appended, TypeOK, appends, sends
  <2>2. CASE v # w
    BY <1>ok, <1>k, <2>1, <2>2, CallFrame
  <2>3. CASE v = w
    <3>1. CallOK(w)
      BY <1>ok
    <3>2. \A q \in Row : left'[w][q] = {} /\ pend'[w][q] = {}
      BY <2>1, <3>1 DEF CallOK
    <3>3. \A t \in Topic : buf'[w][t] \subseteq Chain[t] /\ sent'[w][t] \subseteq kafka'[t]
      BY <2>1, <3>1 DEF CallOK
    <3>4. ASSUME NEW q \in Row, batch[w] = {q}
          PROVE  q \notin failed[w] /\ \A t \in ResponseData(q) : q \in buf[w][t]
      BY <2>1, <3>1, <3>4 DEF CallOK
    <3> QED
      BY <2>1, <2>3, <3>2, <3>3, <3>4 DEF CallOK
  <2> QED
    BY <2>2, <2>3
<1>12. ASSUME NEW w \in Worker, NEW t \in Topic, NEW r \in Row, Send(w, t, r)
       PROVE  CallInv'
  <2> SUFFICES ASSUME NEW v \in Worker
               PROVE  CallOK(v)'
    BY DEF CallInv
  <2>1. /\ UNCHANGED <<pc, batch, fetching, failed, left, pend, buf>>
        /\ (v # w => sent'[v] = sent[v])
        /\ \A u \in Topic : kafka[u] \subseteq kafka'[u]
        /\ \A u \in Topic : sent'[w][u] \subseteq sent[w][u] \cup kafka'[u]
    BY <1>12 DEF Send, TypeOK, appends
  <2>2. CASE v # w
    BY <1>ok, <2>1, <2>2, CallFrame
  <2>3. CASE v = w
    <3>1. CallOK(w)
      BY <1>ok
    <3>2. \A q \in Row, u \in Topic : NextTopic(w, q, u)' = NextTopic(w, q, u)
      BY <2>1 DEF NextTopic
    <3> QED
      BY <2>1, <2>3, <3>1, <3>2 DEF CallOK, ResponseData
  <2> QED
    BY <2>2, <2>3
<1>13. ASSUME NEW w \in Worker, NEW t \in Topic, NEW r \in Row,
              SendFail(w, t, r)
       PROVE  CallInv'
  <2>1. \A u \in Topic : kafka[u] \subseteq kafka'[u]
    <3>1. \/ kafka' = kafka
          \/ kafka' = [kafka EXCEPT ![t] = kafka[t] \cup {r}]
      BY <1>13 DEF SendFail
    <3>2. kafka \in [Topic -> SUBSET Row]
      BY DEF TypeOK
    <3> QED
      BY <3>1, <3>2, StoreGrows
  <2> QED
    BY <1>ok, <1>13, <2>1, CallFrame DEF SendFail, CallInv, appends
<1>14. ASSUME NEW w \in Worker, Finish(w)
       PROVE  CallInv'
  BY <1>14, CallEnd DEF Finish
<1>15. CASE CreateMany
  BY <1>15, <1>fr DEF CreateMany, locals
<1>16. CASE UpdateFailedStatus
  BY <1>16, <1>fr DEF UpdateFailedStatus, locals
<1>17. CASE Tick
  BY <1>17, <1>fr DEF Tick, locals
<1>18. ASSUME NEW P \in Processes, Crash(P)
       PROVE  CallInv'
  BY <1>18, CallEnd DEF Crash
<1>19. CASE Settle
  BY <1>19, <1>fr DEF Settle, locals
<1>20. CASE UNCHANGED vars
  BY <1>20, <1>fr DEF vars, locals
<1> QED
  BY <1>1, <1>2, <1>3, <1>4, <1>5, <1>6, <1>7, <1>8, <1>9, <1>10, <1>11,
     <1>12, <1>13, <1>14, <1>15, <1>16, <1>17, <1>18, <1>19, <1>20
     DEF Next, WorkerStep, RowStep

(* The locals of a call of fetchData fit together at every step. *)
THEOREM CallCorrect == Spec => []CallInv
BY TypeInit, TypeNext, CallInit, CallNext, PTL DEF Spec

-----------------------------------------------------------------------------
(* Who writes which status. *)

LEMMA StatusSteps ==
    ASSUME TypeOK, CallInv, [Next]_vars, NEW r \in Row, status'[r] # status[r]
    PROVE  \/ status[r] = "ABSENT" /\ status'[r] = "NOT_READY"
           \/ status[r] = "PROCESSING" /\ status'[r] = "FAIL"
           \/ \E w \in Worker : /\ r \in batch[w] /\ Acts(w)
                                /\ \/ /\ CommitClaim(w) /\ pc[w] = "tx"
                                      /\ status'[r] = "PROCESSING"
                                   \/ pc[w] = "txerr" /\ status'[r] = "FAIL"
                                   \/ pc[w] = "fetch" /\ status'[r] = "FAIL"
                                   \/ Finish(w) /\ status'[r] = Outcome(w)
<1>a. ASSUME NEW S, NEW st, Assign(S, st)
      PROVE  r \in S /\ status'[r] = st
  BY <1>a DEF Assign
<1>u. ASSUME NEW S, NEW st, UpdateStatus(S, st)
      PROVE  r \in S /\ status'[r] = st
  <2>1. ~ UNCHANGED table
    BY DEF table
  <2> QED
    BY <1>u, <1>a, <2>1 DEF UpdateStatus
<1>n. ~ UNCHANGED table /\ ~ UNCHANGED vars
  BY DEF table, vars
<1>e. ASSUME NEW w \in Worker, EndCalls({w}), pc[w] # "idle"
      PROVE  Acts(w)
  BY <1>e, EndCallsLocals DEF Acts
<1>1. ASSUME NEW w \in Worker, CommitClaim(w)
      PROVE  /\ r \in batch[w] /\ Acts(w)
             /\ pc[w] = "tx" /\ status'[r] = "PROCESSING"
  <2>1. Acts(w)
    BY <1>1 DEF CommitClaim, Acts, TypeOK
  <2> QED
    BY <1>1, <1>a, <2>1 DEF CommitClaim
<1>2. ASSUME NEW w \in Worker, FailAfterTx(w)
      PROVE  /\ r \in batch[w] /\ Acts(w)
             /\ pc[w] = "txerr" /\ status'[r] = "FAIL"
  BY <1>2, <1>e, <1>u DEF FailAfterTx
<1>3. ASSUME NEW w \in Worker, NEW q \in Row, FetchFail(w, q)
      PROVE  /\ r \in batch[w] /\ Acts(w)
             /\ pc[w] = "fetch" /\ status'[r] = "FAIL"
  <2>1. r = q /\ status'[r] = "FAIL"
    BY <1>3, <1>u DEF FetchFail
  <2>2. q \in fetching[w] /\ fetching'[w] = fetching[w] \ {q}
    BY <1>3 DEF FetchFail, TypeOK
  <2>3. Acts(w)
    BY <2>2 DEF Acts
  <2> QED
    BY <2>1, <2>2, <2>3 DEF CallInv, CallOK
<1>4. ASSUME NEW w \in Worker, NoBlocks(w)
      PROVE  /\ r \in batch[w] /\ Acts(w)
             /\ pc[w] = "fetch" /\ status'[r] = "FAIL"
  BY <1>4, <1>e, <1>u DEF NoBlocks, Joined
<1>5. ASSUME NEW w \in Worker, Finish(w)
      PROVE  r \in batch[w] /\ Acts(w) /\ status'[r] = Outcome(w)
  BY <1>5, <1>e, <1>u DEF Finish
<1>6. CASE CreateMany
  BY <1>6, <1>a DEF CreateMany
<1>7. CASE UpdateFailedStatus
  BY <1>7, <1>a DEF UpdateFailedStatus, Stale
<1>8. ASSUME NEW w \in Worker,
             \/ Claim(w) \/ NoNewBlocks(w) \/ RollbackClaim(w) \/ StartSend(w)
             \/ \E q \in Row : FetchOk(w, q) \/ ReadSlice(w, q) \/ WriteSlice(w, q)
             \/ \E t \in Topic, q \in Row : Send(w, t, q) \/ SendFail(w, t, q)
      PROVE  FALSE
  BY <1>8, <1>n DEF Claim, NoNewBlocks, RollbackClaim, StartSend, FetchOk,
                    ReadSlice, WriteSlice, Send, SendFail
<1>9. CASE Tick
  BY <1>9 DEF Tick
<1>10. ASSUME NEW P \in Processes, Crash(P)
       PROVE  FALSE
  BY <1>10, <1>n DEF Crash
<1>11. CASE Settle
  BY <1>11, <1>n DEF Settle
<1> QED
  BY <1>n, <1>1, <1>2, <1>3, <1>4, <1>5, <1>6, <1>7, <1>8, <1>9, <1>10, <1>11
     DEF Next, WorkerStep, RowStep

(* worker.go 113-150: whoever else writes, what a transaction read under its *)
(* row locks is still so when it commits, so that no claim is overwritten by *)
(* another claim; and nothing makes a window new again.                      *)
THEOREM FreshClaims == Spec => ClaimsAreFresh
<1>1. ASSUME TypeOK, ClaimInv, NEW w \in Worker, CommitClaim(w)
      PROVE  \A r \in batch[w] : status[r] \in {"NOT_READY", "FAIL"}
  BY <1>1 DEF CommitClaim, ClaimInv, LockedClaimable, Claimable
<1>2. ASSUME TypeOK, CallInv, [Next]_vars, NEW r \in Row,
             status'[r] = "NOT_READY"
      PROVE  status[r] \in {"ABSENT", "NOT_READY"}
  <2>1. \A w \in Worker : Outcome(w) # "NOT_READY"
    BY DEF Outcome
  <2> QED
    BY <1>2, <2>1, StatusSteps
<1>3. TypeOK /\ ClaimInv /\ CallInv /\ [Next]_vars =>
        [/\ \A w \in Worker : CommitClaim(w) =>
                \A r \in batch[w] : status[r] \in {"NOT_READY", "FAIL"}
         /\ \A r \in Row :
                status'[r] = "NOT_READY" => status[r] \in {"ABSENT", "NOT_READY"}
        ]_vars
  BY <1>1, <1>2
<1> QED
  BY <1>3, TypeInit, TypeNext, ClaimInit, ClaimNext, CallInit, CallNext, PTL
     DEF Spec, ClaimsAreFresh

(* worker.go 153-164, 182-187, 206-212, 248-256: DONE is taken back only by *)
(* a call that has lost the row, or has no claim, in the step it writes.    *)
THEOREM StaleReopen == Spec => ReopenedOnlyByStaleWrite
<1>1. ASSUME TypeOK, ClaimInv, CallInv, [Next]_vars
      PROVE  [\A r \in Row :
                status[r] = "DONE" /\ status'[r] # "DONE"
                  => \E w \in Worker :
                        /\ Acts(w) /\ r \in batch[w]
                        /\ r \in revoked[w] \/ pc[w] = "txerr"]_vars
  <2> SUFFICES ASSUME NEW r \in Row, status[r] = "DONE", status'[r] # "DONE"
               PROVE  \E w \in Worker : /\ Acts(w) /\ r \in batch[w]
                                        /\ r \in revoked[w] \/ pc[w] = "txerr"
    OBVIOUS
  <2>1. ASSUME NEW w \in Worker, r \in batch[w], pc[w] \in {"fetch", "send"}
        PROVE  r \in revoked[w]
    BY <1>1, <2>1 DEF ClaimInv, HeldProcessing
  <2>2. ASSUME NEW w \in Worker, r \in batch[w], pc[w] = "tx"
        PROVE  FALSE
    BY <1>1, <2>2 DEF ClaimInv, LockedClaimable, Claimable
  <2>3. ASSUME NEW w \in Worker, Finish(w)
        PROVE  pc[w] = "send"
    BY <2>3 DEF Finish
  <2> QED
    BY <1>1, <2>1, <2>2, <2>3, StatusSteps
<1> QED
  BY <1>1, TypeInit, TypeNext, ClaimInit, ClaimNext, CallInit, CallNext, PTL
     DEF Spec, ReopenedOnlyByStaleWrite

(* The step that makes a row DONE. *)
LEMMA DoneSteps ==
    ASSUME TypeOK, CallInv, [Next]_vars, NEW r \in Row,
           status[r] # "DONE", status'[r] = "DONE"
    PROVE  \E w \in Worker :
               /\ Finish(w) /\ r \in batch[w]
               /\ \A t \in Topic : buf[w][t] \subseteq kafka[t]
<1>1. PICK w \in Worker : Finish(w) /\ r \in batch[w] /\ Outcome(w) = "DONE"
  BY StatusSteps
<1>2. broke[w] = {}
  BY <1>1 DEF Outcome
<1>3. \A t \in Topic : buf[w][t] \subseteq sent[w][t]
  BY <1>1, <1>2 DEF Finish, Unsent
<1>4. \A t \in Topic : sent[w][t] \subseteq kafka[t]
  BY DEF CallInv, CallOK
<1> QED
  BY <1>1, <1>3, <1>4

(* DONE comes after the last send. *)
THEOREM FlushedDone == Spec => DoneAfterFlush
<1>1. ASSUME TypeOK, CallInv, [Next]_vars
      PROVE  [\A r \in Row :
                status[r] # "DONE" /\ status'[r] = "DONE"
                  => \E w \in Worker :
                        /\ Owns(w, r) /\ pc'[w] = "idle"
                        /\ \A t \in Topic : buf[w][t] \subseteq kafka[t]]_vars
  <2> SUFFICES ASSUME NEW r \in Row, status[r] # "DONE", status'[r] = "DONE"
               PROVE  \E w \in Worker :
                        /\ Owns(w, r) /\ pc'[w] = "idle"
                        /\ \A t \in Topic : buf[w][t] \subseteq kafka[t]
    OBVIOUS
  <2>1. PICK w \in Worker : /\ Finish(w) /\ r \in batch[w]
                            /\ \A t \in Topic : buf[w][t] \subseteq kafka[t]
    BY <1>1, DoneSteps
  <2>2. Owns(w, r) /\ pc'[w] = "idle"
    BY <1>1, <2>1, EndCallsLocals DEF Finish, Owns, Owning
  <2> QED
    BY <2>1, <2>2
<1> QED
  BY <1>1, TypeInit, TypeNext, CallInit, CallNext, PTL DEF Spec, DoneAfterFlush

-----------------------------------------------------------------------------
(* What becomes of a claim. *)

(* A window some call works on has been claimed, and is never new again. *)
WorkedInv ==
    \A w \in Worker :
        pc[w] \in {"fetch", "send"}
          => \A r \in batch[w] : status[r] \in {"PROCESSING", "FAIL", "DONE"}

LEMMA ClaimedStays ==
    ASSUME TypeOK, CallInv, [Next]_vars, NEW r \in Row,
           status[r] \in {"PROCESSING", "FAIL", "DONE"}
    PROVE  status'[r] \in {"PROCESSING", "FAIL", "DONE"}
BY StatusSteps DEF Outcome

(* How a call gets to work, and how it ends. *)
LEMMA CallSteps ==
    ASSUME TypeOK, [Next]_vars, NEW w \in Worker
    PROVE  \/ pc'[w] = pc[w] /\ batch'[w] = batch[w]
           \/ Claim(w) \/ CommitClaim(w) \/ RollbackClaim(w) \/ StartSend(w)
           \/ FailAfterTx(w) \/ NoBlocks(w) \/ Finish(w)
           \/ \E P \in Processes : w \in P /\ Crash(P)
<1>1. ASSUME NEW v \in Worker, v # w,
             \/ Claim(v) \/ CommitClaim(v) \/ RollbackClaim(v) \/ StartSend(v)
      PROVE  pc'[w] = pc[w] /\ batch'[w] = batch[w]
  BY <1>1 DEF Claim, CommitClaim, RollbackClaim, StartSend, TypeOK
<1>2. ASSUME NEW v \in Worker, v # w, FailAfterTx(v) \/ NoBlocks(v) \/ Finish(v)
      PROVE  pc'[w] = pc[w] /\ batch'[w] = batch[w]
  BY <1>2, EndCallsLocals DEF FailAfterTx, NoBlocks, Finish
<1>3. ASSUME NEW P \in Processes, w \notin P, Crash(P)
      PROVE  pc'[w] = pc[w] /\ batch'[w] = batch[w]
  BY <1>3, EndCallsLocals DEF Crash
<1>4. ASSUME NEW v \in Worker,
             \/ NoNewBlocks(v)
             \/ \E r \in Row : RowStep(v, r)
             \/ \E t \in Topic, r \in Row : Send(v, t, r) \/ SendFail(v, t, r)
      PROVE  UNCHANGED <<pc, batch>>
  BY <1>4 DEF NoNewBlocks, vars, locals, RowStep, FetchOk, FetchFail, ReadSlice,
              WriteSlice, Send, SendFail
<1>5. CASE CreateMany \/ UpdateFailedStatus \/ Tick \/ Settle \/ UNCHANGED vars
  BY <1>5 DEF CreateMany, UpdateFailedStatus, Tick, Settle, vars, locals
<1> QED
  BY <1>1, <1>2, <1>3, <1>4, <1>5 DEF Next, WorkerStep

LEMMA WorkedNext ==
    ASSUME TypeOK, CallInv, WorkedInv, [Next]_vars
    PROVE  WorkedInv'
<1> SUFFICES ASSUME NEW w \in Worker, pc'[w] \in {"fetch", "send"},
                    NEW r \in batch'[w]
             PROVE  status'[r] \in {"PROCESSING", "FAIL", "DONE"}
  BY DEF WorkedInv
<1>1. CASE pc[w] \in {"fetch", "send"} /\ batch'[w] = batch[w]
  BY <1>1, ClaimedStays DEF WorkedInv, TypeOK
<1>2. CASE CommitClaim(w)
  BY <1>2 DEF CommitClaim, Assign, TypeOK
<1>3. CASE Claim(w) \/ RollbackClaim(w)
  BY <1>3 DEF Claim, RollbackClaim, TypeOK
<1>4. CASE StartSend(w)
  BY <1>1, <1>4 DEF StartSend, Joined
<1>5. CASE FailAfterTx(w) \/ NoBlocks(w) \/ Finish(w)
  BY <1>5, EndCallsLocals DEF FailAfterTx, NoBlocks, Finish
<1>6. ASSUME NEW P \in Processes, w \in P, Crash(P)
      PROVE  FALSE
  BY <1>6, EndCallsLocals DEF Crash
<1> QED
  BY <1>1, <1>2, <1>3, <1>4, <1>5, <1>6, CallSteps

(* worker.go 231-258: DONE takes the place of PROCESSING, or of the FAIL of *)
(* a call that went on without its claim, and of nothing else.              *)
THEOREM DoneIfClaimed == Spec => DoneOnlyIfClaimed
<1>1. ASSUME TypeOK, ClaimInv, CallInv, WorkedInv, [Next]_vars,
             NEW r \in Row, status[r] # "DONE", status'[r] = "DONE"
      PROVE  \/ status[r] = "PROCESSING"
             \/ /\ status[r] = "FAIL"
                /\ \E w \in Worker : Owns(w, r) /\ r \in revoked[w]
  <2>1. PICK w \in Worker : Finish(w) /\ r \in batch[w]
    BY <1>1, DoneSteps
  <2>2. pc[w] = "send" /\ Owns(w, r)
    BY <2>1 DEF Finish, Owns, Owning
  <2>3. status[r] \in {"PROCESSING", "FAIL"}
    BY <1>1, <2>1, <2>2 DEF WorkedInv
  <2>4. r \notin revoked[w] => status[r] = "PROCESSING"
    BY <1>1, <2>1, <2>2 DEF ClaimInv, HeldProcessing
  <2> QED
    BY <2>2, <2>3, <2>4
<1>2. TypeOK /\ ClaimInv /\ CallInv /\ WorkedInv /\ [Next]_vars =>
        [\A r \in Row :
           status[r] # "DONE" /\ status'[r] = "DONE"
             => \/ status[r] = "PROCESSING"
                \/ /\ status[r] = "FAIL"
                   /\ \E w \in Worker : Owns(w, r) /\ r \in revoked[w]]_vars
  BY <1>1
<1>3. Init => WorkedInv
  BY DEF Init, WorkedInv
<1>4. TypeOK /\ CallInv /\ WorkedInv /\ [Next]_vars => WorkedInv'
  BY WorkedNext
<1> QED
  BY <1>2, <1>3, <1>4, TypeInit, TypeNext, ClaimInit, ClaimNext, CallInit,
     CallNext, PTL DEF Spec, DoneOnlyIfClaimed

(* A status that is written, is written to all of the batch. *)
LEMMA SettledUpdate ==
    ASSUME TypeOK, settled, NEW S, NEW st, UpdateStatus(S, st),
           NEW r \in Row, r \in S
    PROVE  status'[r] = st
BY DEF UpdateStatus, Assign

LEMMA AwaitedNext ==
    ASSUME TypeOK, CallInv, settled, [Next]_vars,
           NEW r \in Row, status'[r] = "PROCESSING", ~Awaited(r)'
    PROVE  status[r] = "PROCESSING" /\ ~Awaited(r)
<1>1. status[r] = "PROCESSING"
  <2> SUFFICES ASSUME status[r] # "PROCESSING"
               PROVE  FALSE
    OBVIOUS
  <2>1. PICK w \in Worker : r \in batch[w] /\ CommitClaim(w)
    BY StatusSteps DEF Outcome
  <2> QED
    BY <2>1 DEF CommitClaim, Awaited, TypeOK
<1>2. ASSUME NEW w \in Worker, pc[w] \in {"txerr", "fetch", "send"},
             r \in batch[w]
      PROVE  FALSE
  <2>1. ~ (pc'[w] \in {"txerr", "fetch", "send"} /\ r \in batch'[w])
    BY DEF Awaited
  <2>2. CASE StartSend(w)
    BY <1>2, <2>1, <2>2 DEF StartSend, TypeOK
  <2>3. CASE FailAfterTx(w) \/ NoBlocks(w) \/ Finish(w)
    <3>0. UpdateStatus(batch[w], "FAIL") \/ UpdateStatus(batch[w], Outcome(w))
      BY <2>3 DEF FailAfterTx, NoBlocks, Finish
    <3>1. status'[r] \in {"FAIL", Outcome(w)}
      BY <1>2, <3>0, SettledUpdate
    <3> QED
      BY <3>1 DEF Outcome
  <2>4. CASE Claim(w) \/ CommitClaim(w) \/ RollbackClaim(w)
    BY <1>2, <2>4 DEF Claim, CommitClaim, RollbackClaim
  <2> QED
    BY <1>2, <2>1, <2>2, <2>3, <2>4, CallSteps DEF Crash
<1> QED
  BY <1>1, <1>2 DEF Awaited

(* worker.go 113-258: once faults have ended, every way out of a call       *)
(* writes what came of each row it had, in any batch.                       *)
THEOREM FaultsForget == Spec => ForgottenOnlyByFaults
<1>1. TypeOK /\ CallInv /\ [Next]_vars =>
        [settled =>
           \A r \in Row :
               status'[r] = "PROCESSING" /\ ~Awaited(r)'
                 => status[r] = "PROCESSING" /\ ~Awaited(r)]_vars
  BY AwaitedNext
<1> QED
  BY <1>1, TypeInit, TypeNext, CallInit, CallNext, PTL
     DEF Spec, ForgottenOnlyByFaults

LEMMA SettledSteps ==
    ASSUME [Next]_vars, settled' # settled
    PROVE  Settle
<1>1. ASSUME NEW w \in Worker,
             \/ Claim(w) \/ NoNewBlocks(w) \/ CommitClaim(w) \/ RollbackClaim(w)
             \/ FailAfterTx(w) \/ NoBlocks(w) \/ StartSend(w) \/ Finish(w)
      PROVE  FALSE
  BY <1>1 DEF Claim, NoNewBlocks, CommitClaim, RollbackClaim, FailAfterTx,
              NoBlocks, StartSend, Finish, vars
<1>2. ASSUME NEW w \in Worker,
             \/ \E r \in Row : RowStep(w, r)
             \/ \E t \in Topic, r \in Row : Send(w, t, r) \/ SendFail(w, t, r)
      PROVE  FALSE
  BY <1>2 DEF RowStep, FetchOk, FetchFail, ReadSlice, WriteSlice, Send, SendFail
<1>3. ASSUME \/ CreateMany \/ UpdateFailedStatus \/ Tick \/ UNCHANGED vars
             \/ \E P \in Processes : Crash(P)
      PROVE  FALSE
  BY <1>3 DEF CreateMany, UpdateFailedStatus, Tick, Crash, vars
<1> QED
  BY <1>1, <1>2, <1>3 DEF Next, WorkerStep

(* worker.go 113-258: where nothing fails, a row is PROCESSING only while a *)
(* call has still to write what comes of it.                                *)
THEOREM NothingForgets == SpecNoFaults => []NothingForgotten
<1>1. Init => NothingForgotten
  BY DEF Init, NothingForgotten
<1>2. ASSUME TypeOK, CallInv, NothingForgotten, [Next /\ settled']_vars
      PROVE  NothingForgotten'
  <2>1. CASE settled
    BY <1>2, <2>1, AwaitedNext DEF NothingForgotten
  <2>2. CASE UNCHANGED <<status, pc, batch>>
    BY <1>2, <2>2 DEF NothingForgotten, Awaited
  <2>3. CASE ~settled /\ ~ UNCHANGED vars
    <3>1. settled' # settled
      BY <1>2, <2>3 DEF TypeOK
    <3>2. Settle
      BY <1>2, <2>3, <3>1, SettledSteps
    <3> QED
      BY <2>2, <3>2 DEF Settle, table, locals
  <2> QED
    BY <2>1, <2>2, <2>3 DEF vars, table, locals
<1>3. [Next /\ settled']_vars => [Next]_vars
  OBVIOUS
<1> QED
  BY <1>1, <1>2, <1>3, TypeInit, TypeNext, CallInit, CallNext, PTL
     DEF SpecNoFaults

-----------------------------------------------------------------------------
(* The appends of a batch, which no lock orders. *)

(* Rows whose fetch returned data. *)
Fetched(w) == batch[w] \ (fetching[w] \cup failed[w])

(* Another row of the batch has data for the slice r appends to. *)
Shared(w, r, t) == \E q \in Fetched(w) \ {r} : t \in ResponseData(q)

(* What a goroutine read is what the slice still holds, and what it has     *)
(* appended is there, but where rows share a slice.                         *)
AppendOK(w) ==
    /\ fetching[w] \cap failed[w] = {}
    /\ pc[w] \notin {"fetch", "send"} => failed[w] = {}
    /\ \A r \in Row : left[w][r] # {} => r \in Fetched(w)
    /\ \A r \in Row : \A S \in pend[w][r] : \A t \in Topic :
          NextTopic(w, r, t) => S = buf[w][t] \/ Shared(w, r, t)
    /\ pc[w] \in {"fetch", "send"} =>
          \A r \in Fetched(w) : \A t \in ResponseData(r) :
              t \in left[w][r] \/ r \in buf[w][t] \/ Shared(w, r, t)

AppendInv == \A w \in Worker : AppendOK(w)

LEMMA AppendFrame ==
    ASSUME NEW v \in Worker, AppendOK(v),
           pc'[v] = pc[v], batch'[v] = batch[v], fetching'[v] = fetching[v],
           failed'[v] = failed[v], left'[v] = left[v], pend'[v] = pend[v],
           buf'[v] = buf[v]
    PROVE  AppendOK(v)'
<1>1. \A r \in Row, t \in Topic : NextTopic(v, r, t)' = NextTopic(v, r, t)
  BY DEF NextTopic
<1>2. \A r \in Row, t \in Topic : Shared(v, r, t)' = Shared(v, r, t)
  BY DEF Shared, Fetched, ResponseData
<1>3. Fetched(v)' = Fetched(v) /\ \A r : ResponseData(r)' = ResponseData(r)
  BY DEF Fetched, ResponseData
<1>4. \A r \in Fetched(v)' : \A t \in ResponseData(r) : Shared(v, r, t)' = Shared(v, r, t)
  BY <1>3 DEF Shared
<1> QED
  BY <1>1, <1>2, <1>3, <1>4 DEF AppendOK

(* A call that has not started, or is over, appends nothing. *)
LEMMA AppendReset ==
    ASSUME NEW v \in Worker, failed'[v] = {},
           pc'[v] \notin {"fetch", "send"} \/ fetching'[v] = batch'[v],
           \A r \in Row : left'[v][r] = {} /\ pend'[v][r] = {}
    PROVE  AppendOK(v)'
BY DEF AppendOK, Fetched

LEMMA AppendEnd ==
    ASSUME TypeOK, AppendInv, NEW P, EndCalls(P)
    PROVE  AppendInv'
<1> SUFFICES ASSUME NEW v \in Worker
             PROVE  AppendOK(v)'
  BY DEF AppendInv
<1>1. CASE v \in P
  <2>1. pc'[v] = "idle" /\ failed'[v] = {}
    BY <1>1 DEF EndCalls
  <2> QED
    BY <1>1, <2>1, EndCallsLocals, AppendReset
<1>2. CASE v \notin P
  BY <1>2, EndCallsLocals, AppendFrame DEF AppendInv, EndCalls
<1> QED
  BY <1>1, <1>2

(* From the claim to the join of the goroutines. *)
LEMMA AppendCall ==
    ASSUME TypeOK, CallInv, AppendInv, NEW w \in Worker,
           \/ Claim(w) \/ CommitClaim(w) \/ RollbackClaim(w) \/ StartSend(w)
    PROVE  AppendInv'
<1> SUFFICES ASSUME NEW v \in Worker
             PROVE  AppendOK(v)'
  BY DEF AppendInv
<1>0. UNCHANGED <<failed, left, pend, buf>>
  BY DEF Claim, CommitClaim, RollbackClaim, StartSend, appends
<1>1. CASE v # w
  <2>1. pc'[v] = pc[v] /\ batch'[v] = batch[v] /\ fetching'[v] = fetching[v]
    BY <1>1 DEF Claim, CommitClaim, RollbackClaim, StartSend, TypeOK
  <2> QED
    BY <1>0, <2>1, AppendFrame DEF AppendInv
<1>2. CASE v = w /\ ~ StartSend(w)
  <2>1. pc[w] \in {"idle", "tx"}
    BY <1>2 DEF Claim, CommitClaim, RollbackClaim
  <2>2. failed[w] = {} /\ \A r \in Row : left[w][r] = {} /\ pend[w][r] = {}
    BY <2>1 DEF AppendInv, AppendOK, CallInv, CallOK
  <2>3. pc'[w] \notin {"fetch", "send"} \/ fetching'[w] = batch'[w]
    BY <1>2 DEF Claim, CommitClaim, RollbackClaim, TypeOK
  <2> QED
    BY <1>0, <1>2, <2>2, <2>3, AppendReset
<1>3. CASE v = w /\ StartSend(w)
  <2>1. /\ pc[w] = "fetch" /\ pc'[w] = "send"
        /\ UNCHANGED <<batch, fetching>>
    BY <1>3 DEF StartSend, Joined, TypeOK
  <2>2. \A r \in Row, t \in Topic :
            /\ NextTopic(w, r, t)' = NextTopic(w, r, t)
            /\ Shared(w, r, t)' = Shared(w, r, t)
    BY <1>0, <2>1 DEF NextTopic, Shared, Fetched, ResponseData
  <2>3. Fetched(w)' = Fetched(w) /\ \A r : ResponseData(r)' = ResponseData(r)
    BY <1>0, <2>1 DEF Fetched, ResponseData
  <2>4. \A r \in Fetched(w)' : \A t \in ResponseData(r) :
            Shared(w, r, t)' = Shared(w, r, t)
    BY <2>3 DEF Shared
  <2> QED
    BY <1>0, <1>3, <2>1, <2>2, <2>3, <2>4 DEF AppendInv, AppendOK
<1> QED
  BY <1>1, <1>2, <1>3

LEMMA AppendFetch ==
    ASSUME TypeOK, CallInv, AppendInv, NEW w \in Worker, NEW r \in Row,
           FetchOk(w, r) \/ FetchFail(w, r)
    PROVE  AppendInv'
<1> SUFFICES ASSUME NEW v \in Worker
             PROVE  AppendOK(v)'
  BY DEF AppendInv
<1>1. /\ UNCHANGED <<pc, batch, pend, buf>>
      /\ r \in fetching[w] /\ fetching'[w] = fetching[w] \ {r}
      /\ v # w => /\ fetching'[v] = fetching[v] /\ failed'[v] = failed[v]
                  /\ left'[v] = left[v]
  BY DEF FetchOk, FetchFail, TypeOK, appends
<1>2. CASE v # w
  BY <1>1, <1>2, AppendFrame DEF AppendInv
<1>3. CASE v = w
  <2>1. AppendOK(w) /\ CallOK(w)
    BY DEF AppendInv, CallInv
  <2>2. r \in batch[w] /\ pc[w] = "fetch" /\ left[w][r] = {} /\ pend[w][r] = {}
    BY <1>1, <2>1 DEF CallOK
  <2>3. r \notin failed[w] /\ r \notin Fetched(w)
    BY <1>1, <2>1 DEF AppendOK, Fetched
  <2>4. CASE FetchOk(w, r)
    <3>1. /\ failed' = failed /\ left'[w][r] = ResponseData(r)
          /\ \A q \in Row \ {r} : left'[w][q] = left[w][q]
      BY <2>4 DEF FetchOk, TypeOK
    <3>2. Fetched(w)' = Fetched(w) \cup {r}
      BY <1>1, <2>2, <2>3, <3>1 DEF Fetched
    <3>3. \A q \in Row, t \in Topic : Shared(w, q, t) => Shared(w, q, t)'
      BY <3>2 DEF Shared, ResponseData
    <3>4. \A q \in Row \ {r}, t \in Topic :
              NextTopic(w, q, t)' = NextTopic(w, q, t)
      BY <3>1 DEF NextTopic
    <3>5. ASSUME NEW q \in Row, NEW S \in pend'[w][q], NEW t \in Topic,
                 NextTopic(w, q, t)'
          PROVE  S = buf'[w][t] \/ Shared(w, q, t)'
      BY <1>1, <2>1, <2>2, <3>3, <3>4, <3>5 DEF AppendOK
    <3>6. ASSUME NEW q \in Fetched(w)', NEW t \in ResponseData(q)
          PROVE  t \in left'[w][q] \/ q \in buf'[w][t] \/ Shared(w, q, t)'
      <4>1. CASE q = r
        BY <3>1, <4>1
      <4>2. CASE q # r
        <5>1. q \in Fetched(w) /\ q \in Row /\ t \in Topic
          BY <3>2, <4>2 DEF Fetched, ResponseData, TypeOK
        <5>2. t \in left[w][q] \/ q \in buf[w][t] \/ Shared(w, q, t)
          BY <2>1, <2>2, <5>1 DEF AppendOK
        <5> QED
          BY <1>1, <3>1, <3>3, <4>2, <5>1, <5>2
      <4> QED
        BY <4>1, <4>2
    <3>7. \A q \in Row : left'[w][q] # {} => q \in Fetched(w)'
      BY <2>1, <3>1, <3>2 DEF AppendOK
    <3>8. ResponseData(r)' = ResponseData(r)
      BY DEF ResponseData
    <3> QED
      BY <1>1, <1>3, <2>1, <2>2, <3>1, <3>5, <3>6, <3>7
         DEF AppendOK, ResponseData
  <2>5. CASE FetchFail(w, r)
    <3>1. left' = left /\ failed'[w] = failed[w] \cup {r}
      BY <2>5 DEF FetchFail, TypeOK, appends
    <3>2. Fetched(w)' = Fetched(w)
      BY <1>1, <2>3, <3>1 DEF Fetched
    <3>3. \A q \in Row, t \in Topic :
              /\ NextTopic(w, q, t)' = NextTopic(w, q, t)
              /\ Shared(w, q, t)' = Shared(w, q, t)
      BY <3>1, <3>2 DEF NextTopic, Shared, ResponseData
    <3>4. Fetched(w) \subseteq Row /\ \A q : ResponseData(q) \subseteq Topic
      BY DEF Fetched, ResponseData, TypeOK
    <3>5. /\ fetching'[w] \cap failed'[w] = {}
          /\ pc'[w] = "fetch"
      BY <1>1, <2>1, <2>2, <3>1 DEF AppendOK
    <3> QED
      BY <1>1, <1>3, <2>1, <2>2, <3>1, <3>2, <3>3, <3>4, <3>5
         DEF AppendOK, ResponseData
  <2> QED
    BY <2>4, <2>5
<1> QED
  BY <1>2, <1>3

LEMMA AppendRead ==
    ASSUME TypeOK, AppendInv, NEW w \in Worker, NEW r \in Row, ReadSlice(w, r)
    PROVE  AppendInv'
<1> SUFFICES ASSUME NEW v \in Worker
             PROVE  AppendOK(v)'
  BY DEF AppendInv
<1>1. PICK t \in Topic : /\ NextTopic(w, r, t)
                         /\ pend' = [pend EXCEPT ![w][r] = {buf[w][t]}]
  BY DEF ReadSlice
<1>2. /\ UNCHANGED <<pc, batch, fetching, failed, left, buf>>
      /\ pend'[w][r] = {buf[w][t]}
      /\ \A q \in Row \ {r} : pend'[w][q] = pend[w][q]
      /\ v # w => pend'[v] = pend[v]
  BY <1>1 DEF ReadSlice, TypeOK
<1>3. CASE v # w
  BY <1>2, <1>3, AppendFrame DEF AppendInv
<1>4. CASE v = w
  <2>1. AppendOK(w)
    BY DEF AppendInv
  <2>2. \A q \in Row, u \in Topic :
            /\ NextTopic(w, q, u)' = NextTopic(w, q, u)
            /\ Shared(w, q, u)' = Shared(w, q, u)
    BY <1>2 DEF NextTopic, Shared, Fetched, ResponseData
  <2>3. \A u \in Topic : NextTopic(w, r, u) => u = t
    BY <1>1, NextTopicUnique
  <2>4. \A q \in Row : \A S \in pend'[w][q] : \A u \in Topic :
            NextTopic(w, q, u) => S = buf[w][u] \/ Shared(w, q, u)
    BY <1>2, <2>1, <2>3 DEF AppendOK
  <2>5. Fetched(w) \subseteq Row /\ \A q : ResponseData(q) \subseteq Topic
    BY DEF Fetched, ResponseData, TypeOK
  <2>6. Fetched(w)' = Fetched(w)
    BY <1>2 DEF Fetched
  <2> QED
    BY <1>2, <1>4, <2>1, <2>2, <2>4, <2>5, <2>6 DEF AppendOK, ResponseData
<1> QED
  BY <1>3, <1>4

(* Whoever writes the slice t has data for it, so that the others share it; *)
(* and who loses a race against a write, shared it before.                  *)
LEMMA AppendWrite ==
    ASSUME TypeOK, CallInv, AppendInv, NEW w \in Worker, NEW r \in Row,
           WriteSlice(w, r)
    PROVE  AppendInv'
<1> SUFFICES ASSUME NEW v \in Worker
             PROVE  AppendOK(v)'
  BY DEF AppendInv
<1>1. PICK t \in Topic, S \in pend[w][r] :
           /\ NextTopic(w, r, t)
           /\ \/ buf' = [buf EXCEPT ![w][t] = S \cup {r}]
              \/ buf[w][t] # S /\ buf' = [buf EXCEPT ![w][t] = S]
           /\ left' = [left EXCEPT ![w][r] = @ \ {t}]
  BY DEF WriteSlice
<1>2. /\ UNCHANGED <<pc, batch, fetching, failed>>
      /\ pend'[w][r] = {} /\ left'[w][r] = left[w][r] \ {t}
      /\ \A q \in Row \ {r} : pend'[w][q] = pend[w][q] /\ left'[w][q] = left[w][q]
      /\ \A u \in Topic \ {t} : buf'[w][u] = buf[w][u]
      /\ \/ buf'[w][t] = S \cup {r}
         \/ buf[w][t] # S /\ buf'[w][t] = S
      /\ v # w => pend'[v] = pend[v] /\ left'[v] = left[v] /\ buf'[v] = buf[v]
  BY <1>1 DEF WriteSlice, TypeOK
<1>3. CASE v # w
  BY <1>2, <1>3, AppendFrame DEF AppendInv
<1>4. CASE v = w
  <2>1. AppendOK(w) /\ CallOK(w)
    BY DEF AppendInv, CallInv
  <2>2. /\ t \in left[w][r] /\ t \in ResponseData(r) /\ r \in Fetched(w)
        /\ pc[w] = "fetch"
    BY <1>1, <2>1 DEF NextTopic, AppendOK, CallOK
  <2>3. \A q \in Row, u \in Topic :
            /\ Shared(w, q, u)' = Shared(w, q, u)
            /\ q # r => NextTopic(w, q, u)' = NextTopic(w, q, u)
    BY <1>2 DEF NextTopic, Shared, Fetched, ResponseData
  <2>4. \A q \in Row \ {r} : Shared(w, q, t)
    BY <2>2 DEF Shared
  <2>5. r \in buf'[w][t] \/ Shared(w, r, t)
    BY <1>1, <1>2, <2>1 DEF AppendOK
  <2>6. Fetched(w) \subseteq Row /\ \A q : ResponseData(q) \subseteq Topic
    BY DEF Fetched, ResponseData, TypeOK
  <2>7. Fetched(w)' = Fetched(w)
    BY <1>2 DEF Fetched
  <2>8. ASSUME NEW q \in Row, NEW T \in pend'[w][q], NEW u \in Topic,
               NextTopic(w, q, u)'
        PROVE  T = buf'[w][u] \/ Shared(w, q, u)
    <3>1. q # r /\ T \in pend[w][q]
      BY <1>2
    <3> QED
      BY <1>2, <2>1, <2>3, <2>4, <2>8, <3>1 DEF AppendOK
  <2>9. ASSUME NEW q \in Fetched(w), NEW u \in ResponseData(q)
        PROVE  u \in left'[w][q] \/ q \in buf'[w][u] \/ Shared(w, q, u)
    <3>1. q \in Row /\ u \in Topic
      BY <2>6
    <3>2. u \in left[w][q] \/ q \in buf[w][u] \/ Shared(w, q, u)
      BY <2>1, <2>2 DEF AppendOK
    <3> QED
      BY <1>2, <2>4, <2>5, <3>1, <3>2
  <2>10. \A q \in Row : left'[w][q] # {} => q \in Fetched(w)
    BY <1>2, <2>1 DEF AppendOK
  <2> QED
    BY <1>2, <1>4, <2>1, <2>2, <2>3, <2>6, <2>7, <2>8, <2>9, <2>10
       DEF AppendOK, ResponseData
<1> QED
  BY <1>3, <1>4

LEMMA AppendInit == Init => AppendInv
BY DEF Init, AppendInv, AppendOK

LEMMA AppendNext == TypeOK /\ CallInv /\ AppendInv /\ [Next]_vars => AppendInv'
<1> SUFFICES ASSUME TypeOK, CallInv, AppendInv, [Next]_vars
             PROVE  AppendInv'
  OBVIOUS
<1>1. ASSUME UNCHANGED <<pc, batch, fetching, failed, left, pend, buf>>
      PROVE  AppendInv'
  BY <1>1, AppendFrame DEF AppendInv
<1>2. ASSUME NEW w \in Worker, FailAfterTx(w) \/ NoBlocks(w) \/ Finish(w)
      PROVE  AppendInv'
  BY <1>2, AppendEnd DEF FailAfterTx, NoBlocks, Finish
<1>3. ASSUME NEW P \in Processes, Crash(P)
      PROVE  AppendInv'
  BY <1>3, AppendEnd DEF Crash
<1>4. ASSUME NEW w \in Worker, NEW r \in Row, RowStep(w, r)
      PROVE  AppendInv'
  BY <1>4, AppendFetch, AppendRead, AppendWrite DEF RowStep
<1>5. ASSUME NEW w \in Worker,
             \/ NoNewBlocks(w)
             \/ \E t \in Topic, r \in Row : Send(w, t, r) \/ SendFail(w, t, r)
      PROVE  AppendInv'
  BY <1>1, <1>5 DEF NoNewBlocks, Send, SendFail, vars, locals, appends
<1>6. CASE CreateMany \/ UpdateFailedStatus \/ Tick \/ Settle \/ UNCHANGED vars
  BY <1>1, <1>6 DEF CreateMany, UpdateFailedStatus, Tick, Settle, vars, locals
<1> QED
  BY <1>2, <1>3, <1>4, <1>5, <1>6, AppendCall DEF Next, WorkerStep

(* worker.go 168-203: the appends nobody locks and the fetch whose FAIL is  *)
(* overwritten are all that loses data under DONE, for batches of any size; *)
(* a window in a batch of its own loses none.                               *)
THEOREM LostTwoWays == Spec => LostInTwoWays
<1>1. ASSUME TypeOK, CallInv, AppendInv, [Next]_vars
      PROVE  [\A w \in Worker : \A r \in batch[w] : \A t \in ResponseData(r) :
                (/\ pc[w] = "send" /\ pc'[w] = "idle"
                 /\ status[r] # "DONE" /\ status'[r] = "DONE")
                  => \/ r \in kafka[t]
                     \/ batch[w] # {r} /\ (r \in failed[w] \/ Appended(w, t) # {r})]_vars
  <2> SUFFICES ASSUME NEW w \in Worker, NEW r \in batch[w],
                      NEW t \in ResponseData(r),
                      pc[w] = "send", pc'[w] = "idle",
                      status[r] # "DONE", status'[r] = "DONE"
               PROVE  \/ r \in kafka[t]
                      \/ /\ batch[w] # {r}
                         /\ r \in failed[w] \/ Appended(w, t) # {r}
    OBVIOUS
  <2>0. r \in Row /\ t \in Topic
    BY <1>1 DEF TypeOK, ResponseData
  <2>1. PICK v \in Worker : /\ Finish(v) /\ r \in batch[v]
                            /\ \A u \in Topic : buf[v][u] \subseteq kafka[u]
    BY <1>1, <2>0, DoneSteps
  <2>2. v = w
    BY <1>1, <2>1, EndCallsLocals DEF Finish
  <2>3. fetching[w] = {} /\ left[w][r] = {}
    BY <1>1, <2>0 DEF CallInv, CallOK
  <2>4. CASE batch[w] = {r}
    <3>1. r \in buf[w][t]
      BY <1>1, <2>0, <2>4 DEF CallInv, CallOK
    <3> QED
      BY <2>0, <2>1, <2>2, <3>1
  <2>5. CASE r \notin failed[w] /\ Appended(w, t) = {r}
    <3>1. r \in Fetched(w) /\ ~ Shared(w, r, t)
      BY <2>3, <2>5 DEF Fetched, Shared, Appended, ResponseData
    <3>2. r \in buf[w][t]
      BY <1>1, <2>3, <3>1 DEF AppendInv, AppendOK
    <3> QED
      BY <2>0, <2>1, <2>2, <3>2
  <2> QED
    BY <2>4, <2>5
<1> QED
  BY <1>1, TypeInit, TypeNext, CallInit, CallNext, AppendInit, AppendNext, PTL
     DEF Spec, LostInTwoWays

-----------------------------------------------------------------------------
(* DONE means published, but for the rows exposed to the two ways above. *)

LEMMA ExposedSteps ==
    ASSUME [Next]_vars
    PROVE  exposed' = exposed \/ \E S : Expose(S)
<1>1. ASSUME NEW w \in Worker, WorkerStep(w)
      PROVE  exposed' = exposed \/ \E S : Expose(S)
  BY <1>1
     DEF WorkerStep, RowStep, Claim, NoNewBlocks, CommitClaim, RollbackClaim,
         FailAfterTx, FetchOk, FetchFail, ReadSlice, WriteSlice, NoBlocks,
         StartSend, Send, SendFail, Finish, vars, sends
<1> QED
  BY <1>1
     DEF Next, CreateMany, UpdateFailedStatus, Tick, Crash, Settle, vars

(* While it is DONE a row is neither exposed nor cleared. *)
LEMMA ExposedKept ==
    ASSUME [Next]_vars, NEW r \in Row, status[r] = "DONE", status'[r] = "DONE"
    PROVE  r \in exposed' <=> r \in exposed
BY ExposedSteps DEF Expose

(* A row that becomes DONE without being exposed has its data stored: it    *)
(* was alone in its batch, or alone to append to each of its slices.        *)
LEMMA DeliveredStep ==
    ASSUME TypeOK, CallInv, AppendInv, [Next]_vars, NEW r \in Row,
           status[r] # "DONE", status'[r] = "DONE", r \notin exposed',
           NEW t \in Topic, r \in Chain[t]
    PROVE  r \in kafka[t]
<1>1. PICK w \in Worker : /\ Finish(w) /\ r \in batch[w]
                          /\ \A u \in Topic : buf[w][u] \subseteq kafka[u]
  BY DoneSteps
<1>2. r \notin AtRisk(w)
  BY <1>1 DEF Finish, Expose
<1>3. t \in ResponseData(r) /\ pc[w] = "send"
  BY <1>1 DEF ResponseData, Finish
<1>4. CASE batch[w] = {r}
  <2>1. r \in buf[w][t]
    BY <1>3, <1>4 DEF CallInv, CallOK
  <2> QED
    BY <1>1, <2>1
<1>5. CASE batch[w] # {r}
  <2>1. r \notin failed[w] /\ Appended(w, t) = {r}
    BY <1>1, <1>2, <1>3, <1>5 DEF AtRisk
  <2>2. fetching[w] = {} /\ left[w][r] = {}
    BY <1>3 DEF CallInv, CallOK
  <2>3. r \in Fetched(w) /\ ~ Shared(w, r, t)
    BY <1>1, <2>1, <2>2 DEF Fetched, Shared, Appended, ResponseData
  <2>4. r \in buf[w][t]
    BY <1>3, <2>2, <2>3 DEF AppendInv, AppendOK
  <2> QED
    BY <1>1, <2>4
<1> QED
  BY <1>4, <1>5

(* What was stored stays stored. *)
LEMMA KafkaGrows ==
    ASSUME TypeOK, [Next]_vars, NEW t \in Topic
    PROVE  kafka[t] \subseteq kafka'[t]
<1>1. ASSUME NEW w \in Worker, NEW u \in Topic, NEW r \in Row,
             Send(w, u, r) \/ SendFail(w, u, r)
      PROVE  kafka[t] \subseteq kafka'[t]
  <2>1. \/ kafka' = kafka
        \/ kafka' = [kafka EXCEPT ![u] = kafka[u] \cup {r}]
    BY <1>1 DEF Send, SendFail
  <2>2. kafka \in [Topic -> SUBSET Row]
    BY DEF TypeOK
  <2> QED
    BY <2>1, <2>2, StoreGrows
<1>2. kafka' = kafka => kafka[t] \subseteq kafka'[t]
  OBVIOUS
<1>3. ASSUME NEW w \in Worker, WorkerStep(w)
      PROVE  kafka[t] \subseteq kafka'[t]
  BY <1>1, <1>2, <1>3
     DEF WorkerStep, RowStep, Claim, NoNewBlocks, CommitClaim, RollbackClaim,
         FailAfterTx, FetchOk, FetchFail, ReadSlice, WriteSlice, NoBlocks,
         StartSend, Finish, vars, sends
<1> QED
  BY <1>2, <1>3
     DEF Next, CreateMany, UpdateFailedStatus, Tick, Crash, Settle, vars

(* worker.go 113-258: whatever the limit, a DONE row is stored on each of   *)
(* its topics, unless it came to DONE in a batch that failed to fetch it or *)
(* raced to append it.                                                      *)
THEOREM DoneDelivered == Spec => []DoneIsDelivered
<1>1. Init => DoneIsDelivered
  BY WorkerAssumption DEF Init, DoneIsDelivered
<1>2. TypeOK /\ CallInv /\ AppendInv /\ DoneIsDelivered /\ [Next]_vars
        => DoneIsDelivered'
  <2> SUFFICES ASSUME TypeOK, CallInv, AppendInv, DoneIsDelivered, [Next]_vars,
                      NEW t \in Topic, NEW r \in Chain[t], status'[r] = "DONE",
                      r \notin exposed'
               PROVE  r \in kafka'[t]
    BY DEF DoneIsDelivered
  <2>1. r \in Row
    BY WorkerAssumption
  <2>2. kafka[t] \subseteq kafka'[t]
    BY KafkaGrows
  <2>3. CASE status[r] = "DONE"
    BY <2>1, <2>2, <2>3, ExposedKept DEF DoneIsDelivered
  <2>4. CASE status[r] # "DONE"
    BY <2>1, <2>2, <2>4, DeliveredStep
  <2> QED
    BY <2>3, <2>4
<1> QED
  BY <1>1, <1>2, TypeInit, TypeNext, CallInit, CallNext, AppendInit, AppendNext,
     PTL DEF Spec

-----------------------------------------------------------------------------
(* Refinement of PublishQueue. *)

LEMMA KafkaSteps ==
    ASSUME TypeOK, CallInv, [Next]_vars, kafka' # kafka
    PROVE  /\ status' = status /\ exposed' = exposed
           /\ \E t \in Topic : \E r \in Chain[t] :
                  kafka' = [kafka EXCEPT ![t] = @ \cup {r}]
<1> DEFINE Goal == /\ status' = status /\ exposed' = exposed
                   /\ \E t \in Topic : \E r \in Chain[t] :
                          kafka' = [kafka EXCEPT ![t] = @ \cup {r}]
<1>1. ASSUME NEW w \in Worker, NEW t \in Topic, NEW r \in Row,
             Send(w, t, r) \/ SendFail(w, t, r)
      PROVE  Goal
  <2>1. buf[w][t] \subseteq Chain[t]
    BY DEF CallInv, CallOK
  <2> QED
    BY <1>1, <2>1 DEF Send, SendFail, Unsent, table
<1>2. ASSUME NEW w \in Worker, WorkerStep(w)
      PROVE  Goal
  BY <1>1, <1>2
     DEF WorkerStep, RowStep, Claim, NoNewBlocks, CommitClaim, RollbackClaim,
         FailAfterTx, FetchOk, FetchFail, ReadSlice, WriteSlice, NoBlocks,
         StartSend, Finish, vars, sends
<1> QED
  BY <1>2
     DEF Next, CreateMany, UpdateFailedStatus, Tick, Crash, Settle, vars

(* A step that makes a row DONE reopens none. *)
LEMMA DoneStays ==
    ASSUME TypeOK, CallInv, [Next]_vars, NEW r \in Row,
           status[r] # "DONE", status'[r] = "DONE",
           NEW q \in Row, status[q] = "DONE"
    PROVE  status'[q] = "DONE"
<1>1. PICK w \in Worker : Finish(w)
  BY DoneSteps
<1>2. UpdateStatus(batch[w], Outcome(w))
  BY <1>1 DEF Finish
<1> QED
  BY <1>2 DEF UpdateStatus, Assign, table

(* worker.go 113-258 with the job of cronjob.go: every step is a step of    *)
(* PublishQueue or none, whatever the limit; what a batch completes         *)
(* together is published before, but for its exposed rows.                  *)
THEOREM Refinement == Spec => ImplementsPublishQueue
<1> DEFINE Done == {r \in Row : status[r] = "DONE"} \ exposed
<1>1. Init => PQ!Init
  BY DEF Init, PQ!Init
<1>2. ASSUME TypeOK, CallInv, AppendInv, [Next]_vars
      PROVE  [PQ!Next]_PQ!vars
  <2>1. CASE kafka' # kafka
    <3>1. PICK t \in Topic : \E r \in Chain[t] :
               /\ status' = status /\ exposed' = exposed
               /\ kafka' = [kafka EXCEPT ![t] = @ \cup {r}]
      BY <1>2, <2>1, KafkaSteps
    <3>2. PICK r \in Chain[t] :
               /\ status' = status /\ exposed' = exposed
               /\ kafka' = [kafka EXCEPT ![t] = @ \cup {r}]
      BY <3>1
    <3>3. r \in Row
      BY WorkerAssumption
    <3>4. PQ!Publish(t, r)
      BY <3>2, <3>3 DEF PQ!Publish
    <3> QED
      BY <3>3, <3>4 DEF PQ!Next
  <2>2. CASE kafka' = kafka /\ Done' \subseteq Done
    <3>1. PICK S \in SUBSET Row : Done' = Done \ S
      <4>1. Done' = Done \ (Done \ Done')
        BY <2>2
      <4> QED
        BY <4>1
    <3>2. PQ!Reopen(S)
      BY <2>2, <3>1 DEF PQ!Reopen
    <3> QED
      BY <3>1, <3>2 DEF PQ!Next
  <2>3. ASSUME kafka' = kafka, NEW r \in Done', r \notin Done
        PROVE  PQ!Next
    <3>1. r \in Row /\ status[r] # "DONE" /\ status'[r] = "DONE"
      BY <1>2, <2>3, ExposedKept
    <3>2. ASSUME NEW q \in Done
          PROVE  q \in Done'
      BY <1>2, <3>1, <3>2, DoneStays, ExposedKept
    <3>3. PICK S \in SUBSET Row : S = Done' \ Done /\ Done' = Done \cup S
      <4>1. Done' = Done \cup (Done' \ Done)
        BY <3>2
      <4> QED
        BY <4>1
    <3>4. ASSUME NEW q \in S, NEW t \in Topic, q \in Chain[t]
          PROVE  q \in kafka[t]
      <4>1. q \in Row /\ status'[q] = "DONE" /\ q \notin exposed'
        BY <3>3
      <4>2. status[q] # "DONE"
        BY <1>2, <3>3, <4>1, ExposedKept
      <4> QED
        BY <1>2, <3>4, <4>1, <4>2, DeliveredStep
    <3>5. PQ!Complete(S)
      BY <2>3, <3>3, <3>4 DEF PQ!Complete
    <3> QED
      BY <3>3, <3>5 DEF PQ!Next
  <2> QED
    BY <2>1, <2>2, <2>3
<1> QED
  BY <1>1, <1>2, TypeInit, TypeNext, CallInit, CallNext, AppendInit, AppendNext,
     PTL DEF Spec, ImplementsPublishQueue, PQ!Spec
=============================================================================
