---------------------------- MODULE MasterProofs ----------------------------
(***************************************************************************)
(* Safety of Master for any length of window, any batch and any clock.     *)
(***************************************************************************)
EXTENDS Master, FiniteSetTheorems, TLAPS

LEMMA TypeInit == Init => TypeOK
BY MasterAssumption DEF Init, TypeOK

LEMMA WindowsTyped ==
    ASSUME NEW f \in Int, NEW t \in Int
    PROVE  Windows(f, t) \subseteq Window
BY DEF Windows, Window

LEMMA NewestOfTyped ==
    ASSUME NEW new
    PROVE  NewestOf(new) \subseteq new \/ NewestOf(new) = newest
BY DEF NewestOf

LEMMA TypeNext == TypeOK /\ [Next]_vars => TypeOK'
<1> SUFFICES ASSUME TypeOK, [Next]_vars
             PROVE  TypeOK'
  OBVIOUS
<1>1. CASE FetchBlockTime
  <2>1. ResumePoints \subseteq Int
    BY DEF ResumePoints, TypeOK, Window
  <2> QED
    BY <1>1, <2>1 DEF FetchBlockTime, TypeOK
<1>2. CASE CreateMany
  <2>1. Windows(from, to) \subseteq Window
    BY WindowsTyped DEF TypeOK
  <2>2. newest' \subseteq rows'
    BY <1>2, NewestOfTyped DEF CreateMany, TypeOK
  <2> QED
    BY <1>2, <2>1, <2>2 DEF CreateMany, Return, TypeOK
<1>3. CASE CreateManyFail
  BY <1>3 DEF CreateManyFail, Return, TypeOK
<1>4. CASE Tick
  BY <1>4 DEF Tick, TypeOK
<1>5. CASE NothingToDo \/ UNCHANGED vars
  BY <1>5 DEF NothingToDo, vars, TypeOK
<1> QED
  BY <1>1, <1>2, <1>3, <1>4, <1>5 DEF Next

(* The clock, the table and the locals of fetchBlockTime keep their types.  *)
THEOREM TypeCorrect == Spec => []TypeOK
BY TypeInit, TypeNext, PTL DEF Spec

-----------------------------------------------------------------------------
(* What fetchBlockTime has in hand between its read and its insert: the     *)
(* range goes on from a row created last, and nothing ends after it.        *)
PlanOK ==
    pc = "save" =>
        /\ from < to /\ to < now
        /\ rows # {} => \E v \in newest : v.to = from
        /\ \A w \in rows : w.to <= to /\ w.to - from < BatchSize

HasNewest == newest = {} => rows = {}

MasterInv == WindowsValid /\ HasNewest /\ ResumesNearEnd /\ PlanOK /\ NoGaps

LEMMA InvInit == Init => MasterInv
BY DEF Init, MasterInv, WindowsValid, HasNewest, ResumesNearEnd, PlanOK, NoGaps

(* The windows of a call are what they should be: valid, inside the range,  *)
(* and together all of it.                                                  *)
LEMMA WindowsPartition ==
    ASSUME NEW f \in Int, NEW t \in Int, f < t
    PROVE  /\ \A w \in Windows(f, t) :
                 /\ f <= w.from /\ w.from < w.to /\ w.to <= t
                 /\ w.to - w.from <= MaxSpan
           /\ \A m \in f + 1 .. t : \E w \in Windows(f, t) : Covers(w, m)
<1> USE MasterAssumption
<1>1. CASE t - f > SplitAfter
  <2>1. Windows(f, t) = {[from |-> i, to |-> i + 1] : i \in f .. t - 1}
    BY <1>1 DEF Windows
  <2>2. ASSUME NEW m \in f + 1 .. t
        PROVE  \E w \in Windows(f, t) : Covers(w, m)
    <3>1. [from |-> m - 1, to |-> m] \in Windows(f, t)
      <4>1. m - 1 \in f .. t - 1 /\ m = (m - 1) + 1
        OBVIOUS
      <4> QED
        BY <2>1, <4>1
    <3> QED
      BY <3>1 DEF Covers
  <2>3. ASSUME NEW w \in Windows(f, t)
        PROVE  /\ f <= w.from /\ w.from < w.to /\ w.to <= t
               /\ w.to - w.from <= MaxSpan
    BY <2>1, <2>3
  <2> QED
    BY <2>2, <2>3
<1>2. CASE ~ (t - f > SplitAfter)
  <2>1. Windows(f, t) = {[from |-> f, to |-> t]}
    BY <1>2 DEF Windows
  <2>2. ASSUME NEW m \in f + 1 .. t
        PROVE  Covers([from |-> f, to |-> t], m)
    BY DEF Covers
  <2>3. t - f <= MaxSpan
    BY <1>2
  <2> QED
    BY <2>1, <2>2, <2>3
<1> QED
  BY <1>1, <1>2

(* The rows of the last INSERT after a range was split: those that end less *)
(* than a batch before the range does.                                      *)
LEMMA LastBatch ==
    ASSUME TypeOK, PlanOK, pc = "save", to - from > SplitAfter
    PROVE  LET N == NewestOf(Windows(from, to) \ rows)
           IN  N # {} /\ \A v \in N : to - v.to < BatchSize
<1> USE MasterAssumption
<1> DEFINE new == Windows(from, to) \ rows
           Batch(w) == (w.from - from) \div BatchSize
           last == [from |-> to - 1, to |-> to]
<1>t. from \in Int /\ to \in Int /\ BatchSize \in Nat \ {0}
  BY DEF TypeOK
<1>1. Windows(from, to) = {[from |-> i, to |-> i + 1] : i \in from .. to - 1}
  BY DEF Windows
<1>2. last \in new
  <2>1. last \in Windows(from, to)
    <3>1. to - 1 \in from .. to - 1 /\ to = (to - 1) + 1
      BY <1>t DEF PlanOK
    <3> QED
      BY <1>1, <3>1
  <2>2. last \notin rows
    BY <1>t DEF PlanOK
  <2> QED
    BY <2>1, <2>2
<1>3. ASSUME NEW v \in new
      PROVE  /\ v.from \in from .. to - 1 /\ v.to = v.from + 1
             /\ Batch(v) <= Batch(last)
             /\ Batch(last) <= Batch(v) => to - v.to < BatchSize
  <2>1. v.from \in from .. to - 1 /\ v.to = v.from + 1
    BY <1>1
  <2>2. \A a, b \in Nat : a <= b => a \div BatchSize <= b \div BatchSize
    OBVIOUS
  <2>3. \A a, b \in Nat : a <= b /\ b \div BatchSize <= a \div BatchSize
                             => b - a < BatchSize
    OBVIOUS
  <2>4. /\ v.from - from \in Nat /\ (to - 1) - from \in Nat
        /\ v.from - from <= (to - 1) - from
    BY <1>t, <2>1
  <2> QED
    BY <1>t, <2>1, <2>2, <2>3, <2>4
<1>4. NewestOf(new) = {w \in new : \A v \in new : Batch(v) <= Batch(w)}
  BY <1>2 DEF NewestOf
<1>5. last \in NewestOf(new)
  BY <1>2, <1>3, <1>4
<1>6. ASSUME NEW v \in NewestOf(new)
      PROVE  to - v.to < BatchSize
  BY <1>2, <1>3, <1>4
<1> QED
  BY <1>5, <1>6

LEMMA InvNext == TypeOK /\ TypeOK' /\ MasterInv /\ [Next]_vars => MasterInv'
<1> SUFFICES ASSUME TypeOK, TypeOK', MasterInv, [Next]_vars
             PROVE  MasterInv'
  OBVIOUS
<1> USE MasterAssumption
<1>t. /\ now \in Int /\ from \in Int /\ to \in Int
      /\ \A w \in rows : w.from \in Int /\ w.to \in Int
      /\ newest \subseteq rows
  BY DEF TypeOK, Window
<1>i. WindowsValid /\ HasNewest /\ ResumesNearEnd /\ PlanOK /\ NoGaps
  BY DEF MasterInv
<1>fr. UNCHANGED <<rows, newest>>
         => HasNewest' /\ ResumesNearEnd' /\ NoGaps'
  BY <1>i DEF HasNewest, ResumesNearEnd, NoGaps, Covered
<1>1. CASE FetchBlockTime
  <2>1. UNCHANGED <<now, rows, newest>> /\ to' = now - 1 /\ from' < now - 1
    BY <1>1 DEF FetchBlockTime
  <2>2. rows # {} => \E v \in newest : v.to = from'
    BY <1>1, <1>i DEF FetchBlockTime, ResumePoints, HasNewest
  <2>3. \A w \in rows : w.to - from' < BatchSize
    BY <2>2, <1>i DEF ResumesNearEnd
  <2>4. \A w \in rows : w.to <= now - 1
    BY <1>t, <1>i DEF WindowsValid
  <2>5. PlanOK'
    BY <1>t, <2>1, <2>2, <2>3, <2>4 DEF PlanOK
  <2>6. WindowsValid'
    BY <1>i, <2>1 DEF WindowsValid
  <2> QED
    BY <1>fr, <2>1, <2>5, <2>6 DEF MasterInv
<1>2. CASE CreateMany
  <2> DEFINE W == Windows(from, to)
             new == W \ rows
  <2>1. /\ pc = "save" /\ rows' = rows \cup W /\ newest' = NewestOf(new)
        /\ now' = now /\ pc' = "sleep"
    BY <1>2 DEF CreateMany, Return
  <2>2. /\ from < to /\ to < now
        /\ rows # {} => \E v \in rows : v.to = from
        /\ \A w \in rows : w.to <= to /\ w.to - from < BatchSize
    BY <1>t, <1>i, <2>1 DEF PlanOK
  <2>3. \A w \in W : /\ from <= w.from /\ w.from < w.to /\ w.to <= to
                     /\ w.to - w.from <= MaxSpan
    BY <1>t, <2>2, WindowsPartition
  <2>4. \A m \in from + 1 .. to : \E w \in W : Covers(w, m)
    BY <1>t, <2>2, WindowsPartition
  <2>5. \A w \in W : w.from \in Int /\ w.to \in Int
    BY <1>t, WindowsTyped DEF Window
  <2>6. WindowsValid'
    BY <1>t, <1>i, <2>1, <2>2, <2>3, <2>5 DEF WindowsValid
  <2>7. HasNewest' /\ ResumesNearEnd'
    <3>1. CASE to - from > SplitAfter
      <4>1. newest' # {} /\ \A v \in newest' : to - v.to < BatchSize
        BY <1>i, <2>1, <3>1, LastBatch
      <4>2. \A w \in rows' : w.to <= to /\ w.to \in Int
        BY <1>t, <2>1, <2>2, <2>3, <2>5
      <4>3. \A v \in newest' : v.to \in Int
        BY DEF TypeOK, Window
      <4> QED
        BY <1>t, <4>1, <4>2, <4>3 DEF HasNewest, ResumesNearEnd
    <3>2. CASE ~ (to - from > SplitAfter)
      <4> DEFINE one == [from |-> from, to |-> to]
      <4>1. W = {one}
        BY <3>2 DEF Windows
      <4>2. CASE one \in rows
        <5>1. rows' = rows /\ newest' = newest
          BY <2>1, <4>1, <4>2 DEF NewestOf
        <5> QED
          BY <1>fr, <5>1
      <4>3. CASE one \notin rows
        <5>1. new = {one}
          BY <4>1, <4>3
        <5>2. newest' = {w \in new : \A v \in new :
                           (v.from - from) \div BatchSize
                             <= (w.from - from) \div BatchSize}
          BY <2>1, <5>1 DEF NewestOf
        <5>3. newest' = {one}
          BY <1>t, <5>1, <5>2
        <5>4. \A w \in rows' : w.to <= to /\ w.to \in Int
          BY <1>t, <2>1, <2>2, <2>3, <2>5
        <5>5. one \in newest'
          BY <5>3
        <5>6. \A v \in newest' : v.to = to
          BY <5>3
        <5>7. ResumesNearEnd'
          BY <1>t, <5>4, <5>6 DEF ResumesNearEnd
        <5>8. HasNewest'
          BY <5>5 DEF HasNewest
        <5> QED
          BY <5>7, <5>8
      <4> QED
        BY <4>2, <4>3
    <3> QED
      BY <3>1, <3>2
  <2>8. NoGaps'
    <3> SUFFICES ASSUME NEW v \in rows', NEW w \in rows',
                        NEW m \in v.to + 1 .. w.to
                 PROVE  Covered(m)'
      BY DEF NoGaps
    <3>1. v.to \in Int /\ w.to \in Int /\ m \in Int
      BY <1>t, <2>1, <2>5
    <3>2. \A k \in Int : Covered(k) => Covered(k)'
      BY <2>1 DEF Covered
    <3>3. CASE from < m /\ m <= to
      BY <1>t, <2>1, <2>4, <3>1, <3>3 DEF Covered, Covers
    <3>4. CASE to < m
      <4>1. w \in rows
        BY <1>t, <2>1, <2>3, <2>5, <3>1, <3>4
      <4> QED
        BY <1>t, <2>2, <3>1, <3>4, <4>1
    <3>5. CASE m <= from
      <4>1. v \in rows
        BY <1>t, <2>1, <2>3, <2>5, <3>1, <3>5
      <4>2. PICK x \in rows : x.to = from
        BY <2>2, <4>1
      <4>3. m \in v.to + 1 .. x.to
        BY <1>t, <3>1, <3>5, <4>2
      <4>4. Covered(m)
        BY <1>i, <4>1, <4>3 DEF NoGaps
      <4> QED
        BY <3>1, <3>2, <4>4
    <3> QED
      BY <1>t, <3>1, <3>3, <3>4, <3>5
  <2>9. PlanOK'
    BY <2>1 DEF PlanOK
  <2> QED
    BY <2>6, <2>7, <2>8, <2>9 DEF MasterInv
<1>3. CASE CreateManyFail
  BY <1>3, <1>i, <1>fr
     DEF CreateManyFail, Return, MasterInv, WindowsValid, PlanOK
<1>4. CASE Tick
  <2>1. UNCHANGED <<rows, newest, pc, from, to>> /\ now' = now + 1
    BY <1>4 DEF Tick
  <2>2. WindowsValid' /\ PlanOK'
    BY <1>t, <1>i, <2>1 DEF WindowsValid, PlanOK
  <2> QED
    BY <1>fr, <2>1, <2>2 DEF MasterInv
<1>5. CASE NothingToDo \/ UNCHANGED vars
  BY <1>5, <1>i, <1>fr DEF NothingToDo, vars, MasterInv, WindowsValid, PlanOK
<1> QED
  BY <1>1, <1>2, <1>3, <1>4, <1>5 DEF Next

(* No minute between two windows is ever left out.                          *)
THEOREM Gapless == Spec => []NoGaps
<1>1. MasterInv => NoGaps
  BY DEF MasterInv
<1> QED
  BY <1>1, TypeInit, TypeNext, InvInit, InvNext, PTL DEF Spec

(* Windows are neither empty nor too long, and confirmed.                   *)
THEOREM ValidWindows == Spec => []WindowsValid
<1>1. MasterInv => WindowsValid
  BY DEF MasterInv
<1> QED
  BY <1>1, TypeInit, TypeNext, InvInit, InvNext, PTL DEF Spec

(* Whichever of the rows created last is found, it ends near the end.       *)
THEOREM NearEnd == Spec => []ResumesNearEnd
<1>1. MasterInv => ResumesNearEnd
  BY DEF MasterInv
<1> QED
  BY <1>1, TypeInit, TypeNext, InvInit, InvNext, PTL DEF Spec

(* master.go 59-112: one CreateMany that succeeds makes up for an outage of *)
(* any length, whatever row it resumed from.                                *)
THEOREM CatchUp == Spec => OneCallCatchesUp
<1>1. ASSUME TypeOK, TypeOK', MasterInv, MasterInv', CreateMany,
             NEW v \in rows', NEW m \in v.to + 1 .. to
      PROVE  Covered(m)'
  <2>1. /\ from \in Int /\ to \in Int /\ from < to
        /\ rows' = rows \cup Windows(from, to)
    BY <1>1 DEF TypeOK, MasterInv, PlanOK, CreateMany
  <2>2. PICK w \in Windows(from, to) : Covers(w, to) /\ w.to <= to
    BY <2>1, WindowsPartition
  <2>3. w \in rows' /\ w.to = to /\ v.to \in Int
    BY <1>1, <2>1, <2>2, WindowsTyped DEF Covers, Window, TypeOK
  <2> QED
    BY <1>1, <2>3 DEF MasterInv, NoGaps
<1>2. TypeOK /\ TypeOK' /\ MasterInv /\ MasterInv' /\ [Next]_vars =>
        [CreateMany =>
           \A v \in rows' : \A m \in v.to + 1 .. to : Covered(m)']_vars
  BY <1>1
<1> QED
  BY <1>2, TypeInit, TypeNext, InvInit, InvNext, PTL DEF Spec, OneCallCatchesUp

-----------------------------------------------------------------------------
(* How often a minute is in a window. *)

(* What ends after the row the next call resumes from is one minute long:   *)
(* several rows are newest only when a call cut its range into minutes.     *)
(* Cut again, they are the rows the table has.                              *)
OneMinute(w) == w.from = w.to - 1
TailSingle == \A v \in newest, w \in rows : w.to > v.to => OneMinute(w)
PlanSingle == pc = "save" => \A w \in rows : w.to > from => OneMinute(w)

Covering(m) == {w \in rows : Covers(w, m)}
OverlapInv == TailSingle /\ PlanSingle /\ AtMostTwice

LEMMA TwoAtMost ==
    ASSUME NEW a, NEW b, NEW S, S \subseteq {a, b}
    PROVE  Cardinality(S) <= 2
<1>1. IsFiniteSet({b}) /\ Cardinality({b}) = 1
  BY FS_Singleton
<1>2. IsFiniteSet({b} \cup {a}) /\ Cardinality({b} \cup {a}) \in {1, 2}
  BY <1>1, FS_AddElement
<1>3. {b} \cup {a} = {a, b}
  OBVIOUS
<1>4. Cardinality(S) \in Nat /\ Cardinality(S) <= Cardinality({a, b})
  BY <1>2, <1>3, FS_Subset, FS_CardinalityType
<1> QED
  BY <1>2, <1>3, <1>4

LEMMA OverlapInit == Init => OverlapInv
<1> SUFFICES ASSUME Init
             PROVE  OverlapInv
  OBVIOUS
<1>1. \A m : Cardinality({w \in rows : Covers(w, m)}) = 0
  BY FS_EmptySet DEF Init
<1> QED
  BY <1>1 DEF Init, OverlapInv, TailSingle, PlanSingle, AtMostTwice

LEMMA OverlapCreate ==
    ASSUME TypeOK, MasterInv, OverlapInv, CreateMany
    PROVE  TailSingle' /\ AtMostTwice'
<1> USE MasterAssumption
<1> DEFINE W == Windows(from, to)
           new == W \ rows
           one == [from |-> from, to |-> to]
<1>t. /\ from \in Int /\ to \in Int
      /\ \A w \in rows : w \in Window /\ w.from \in Int /\ w.to \in Int
      /\ newest \subseteq rows
  BY DEF TypeOK, Window
<1>1. /\ pc = "save" /\ from < to
      /\ rows' = rows \cup W /\ newest' = NewestOf(new)
  BY DEF CreateMany, MasterInv, PlanOK
<1>2. \A w \in rows : w.to <= to /\ (w.to > from => OneMinute(w))
  BY <1>1 DEF MasterInv, PlanOK, OverlapInv, PlanSingle
<1>3. ASSUME NEW m \in Int, m > from
      PROVE  \A w \in rows : Covers(w, m) => w = [from |-> m - 1, to |-> m]
  BY <1>t, <1>2, <1>3 DEF Covers, OneMinute, Window
<1>4. ASSUME NEW m \in 0 .. MaxNow, m <= from
      PROVE  Covering(m)' = Covering(m)
  <2>1. \A w \in W : from <= w.from /\ w.from \in Int
    BY <1>t, <1>1, WindowsPartition, WindowsTyped DEF Window
  <2> QED
    BY <1>t, <1>1, <1>4, <2>1 DEF Covering, Covers
<1>5. CASE to - from > SplitAfter
  <2>1. W = {[from |-> i, to |-> i + 1] : i \in from .. to - 1}
    BY <1>5 DEF Windows
  <2>2. \A w \in W : /\ w.from \in Int /\ w.to \in Int /\ w.to > from
                     /\ OneMinute(w) /\ w \in Window
    BY <1>t, <2>1 DEF OneMinute, Window
  <2>3. newest' \subseteq W
    <3>1. NewestOf(new) # {} /\ (new # {} => NewestOf(new) \subseteq new)
      BY <1>1, <1>5, LastBatch DEF MasterInv, NewestOf
    <3>2. new # {}
      <4>1. [from |-> to - 1, to |-> to] \in W
        <5>1. to - 1 \in from .. to - 1 /\ to = (to - 1) + 1
          BY <1>t, <1>1
        <5> QED
          BY <2>1, <5>1
      <4>2. [from |-> to - 1, to |-> to] \notin rows
        BY <1>t, <1>1, <1>5 DEF MasterInv, PlanOK
      <4> QED
        BY <4>1, <4>2
    <3> QED
      BY <1>1, <3>1, <3>2
  <2>4. TailSingle'
    <3> SUFFICES ASSUME NEW v \in newest', NEW w \in rows', w.to > v.to
                 PROVE  OneMinute(w)
      BY DEF TailSingle, OneMinute
    <3>1. v.to \in Int /\ v.to > from
      BY <2>2, <2>3
    <3>2. CASE w \in rows
      BY <1>t, <1>2, <3>1, <3>2
    <3>3. CASE w \in W
      BY <2>2, <3>3
    <3> QED
      BY <1>1, <3>2, <3>3
  <2>5. ASSUME NEW m \in 0 .. MaxNow, m > from
        PROVE  Covering(m)' \subseteq {[from |-> m - 1, to |-> m]}
    <3>1. \A w \in W : Covers(w, m) => w = [from |-> m - 1, to |-> m]
      BY <1>t, <2>2 DEF Covers, OneMinute, Window
    <3> QED
      BY <1>1, <1>3, <2>5, <3>1 DEF Covering, Covers
  <2>6. \A m \in 0 .. MaxNow : Cardinality(Covering(m)') <= 2
    <3> SUFFICES ASSUME NEW m \in 0 .. MaxNow
                 PROVE  Cardinality(Covering(m)') <= 2
      OBVIOUS
    <3>1. CASE m <= from
      BY <1>4, <3>1 DEF OverlapInv, AtMostTwice, Covering
    <3>2. CASE m > from
      <4> DEFINE s == [from |-> m - 1, to |-> m]
      <4>1. Covering(m)' \subseteq {s, s}
        BY <2>5, <3>2
      <4> QED
        BY <4>1, TwoAtMost
    <3> QED
      BY <1>t, <3>1, <3>2
  <2> QED
    BY <2>4, <2>6 DEF AtMostTwice, Covering
<1>6. CASE ~ (to - from > SplitAfter)
  <2>1. W = {one}
    BY <1>6 DEF Windows
  <2>2. CASE one \in rows
    <3>1. rows' = rows /\ newest' = newest
      BY <1>1, <2>1, <2>2 DEF NewestOf
    <3> QED
      BY <3>1 DEF OverlapInv, TailSingle, AtMostTwice
  <2>3. CASE one \notin rows
    <3>1. newest' \subseteq {one}
      BY <1>1, <2>1, <2>3 DEF NewestOf
    <3>2. TailSingle'
      <4>1. \A w \in rows' : w.to <= to /\ w.to \in Int
        BY <1>t, <1>1, <1>2, <2>1
      <4>2. \A v \in newest' : v.to = to
        BY <3>1
      <4> QED
        BY <1>t, <4>1, <4>2 DEF TailSingle
    <3>3. ASSUME NEW m \in 0 .. MaxNow, m > from
          PROVE  Covering(m)' \subseteq {[from |-> m - 1, to |-> m], one}
      BY <1>1, <1>3, <2>1, <3>3 DEF Covering, Covers
    <3>4. \A m \in 0 .. MaxNow : Cardinality(Covering(m)') <= 2
      <4> SUFFICES ASSUME NEW m \in 0 .. MaxNow
                   PROVE  Cardinality(Covering(m)') <= 2
        OBVIOUS
      <4>1. CASE m <= from
        BY <1>4, <4>1 DEF OverlapInv, AtMostTwice, Covering
      <4>2. CASE m > from
        <5>1. Covering(m)' \subseteq {[from |-> m - 1, to |-> m], one}
          BY <3>3, <4>2
        <5> QED
          BY <5>1, TwoAtMost
      <4> QED
        BY <1>t, <4>1, <4>2
    <3> QED
      BY <3>2, <3>4 DEF AtMostTwice, Covering
  <2> QED
    BY <2>2, <2>3
<1> QED
  BY <1>5, <1>6

LEMMA OverlapNext ==
    ASSUME TypeOK, MasterInv, OverlapInv, [Next]_vars
    PROVE  OverlapInv'
<1>1. CASE FetchBlockTime
  <2>1. UNCHANGED <<rows, newest>>
    BY <1>1 DEF FetchBlockTime
  <2>2. PlanSingle'
    BY <1>1 DEF FetchBlockTime, ResumePoints, OverlapInv, TailSingle,
                PlanSingle, OneMinute, MasterInv, HasNewest
  <2> QED
    BY <2>1, <2>2 DEF OverlapInv, TailSingle, AtMostTwice
<1>2. CASE CreateMany
  BY <1>2, OverlapCreate DEF OverlapInv, PlanSingle, CreateMany, Return
<1>3. CASE CreateManyFail \/ Tick \/ NothingToDo \/ UNCHANGED vars
  BY <1>3 DEF OverlapInv, TailSingle, PlanSingle, AtMostTwice,
              CreateManyFail, Return, Tick, NothingToDo, vars
<1> QED
  BY <1>1, <1>2, <1>3 DEF Next

(* master.go 64-104: however often a call resumed from a row before the     *)
(* last, no minute is in more than two windows.                             *)
THEOREM TwiceAtMost == Spec => []AtMostTwice
<1>1. OverlapInv => AtMostTwice
  BY DEF OverlapInv
<1>2. TypeOK /\ TypeOK' /\ MasterInv /\ [Next]_vars => MasterInv'
  BY InvNext
<1>3. TypeOK /\ MasterInv /\ OverlapInv /\ [Next]_vars => OverlapInv'
  BY OverlapNext
<1> QED
  BY <1>1, <1>2, <1>3, TypeInit, TypeNext, InvInit, OverlapInit, PTL DEF Spec
=============================================================================
