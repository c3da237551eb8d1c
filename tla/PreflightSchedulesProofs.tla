----------------------- MODULE PreflightSchedulesProofs -----------------------
(***************************************************************************)
(* Theorems about PreflightSchedules, for every set of schedules and       *)
(* runners, every limit and every interval.                                *)
(*                                                                         *)
(* The claim moves next_run_at an interval ahead, and time brings it back  *)
(* while the runner works.  As long as the call is shorter than the        *)
(* interval and no operator interferes, next_run_at is where the claim     *)
(* would put it now, in the future, so nobody else claims the schedule;    *)
(* and recording the run, which writes that very value, changes nothing.   *)
(***************************************************************************)
EXTENDS PreflightSchedules, FiniteSetTheorems, TLAPS

\* What a runner holds in time is not due before its interval is over.
HeldAhead ==
  \A r \in Runners : \A i \in DOMAIN batch[r] :
    batch[r][i].name \notin late \union edited =>
      /\ row[batch[r][i].name].due = batch[r][i].interval - age[r]
      /\ age[r] < batch[r][i].interval

Inv == TypeOK /\ HeldAhead /\ OneRunnerPerSchedule

Entry == [name : Schedules, interval : 1..MaxInterval]

-------------------------------------------------------------------------------
(* Rows *)

LEMMA Numbers ==
  /\ Limit \in Nat /\ 1 <= Limit
  /\ MaxInterval \in Nat /\ 1 <= MaxInterval /\ MaxAge \in Nat /\ MaxLate \in Nat
  /\ MaxAge + Cardinality(Schedules) <= MaxLate /\ Cardinality(Schedules) \in Nat
  /\ MaxAge <= MaxLate /\ MaxEdits \in Nat
  /\ \A n \in Int : n # Null
<1>1. Cardinality(Schedules) \in Nat
  BY SchedulesAssumption, FS_CardinalityType
<1> QED
  BY <1>1, LimitAssumption, BoundsAssumption, NullAssumption

LEMMA AdvancedType ==
  ASSUME NEW o \in Row
  PROVE  Advanced(o) \in Row /\ Advanced(o).due = o.interval /\ o.interval \in 1..MaxInterval
  BY Numbers DEF Row, Due, Advanced

LEMMA RecordedType ==
  ASSUME NEW o \in Row, NEW interval \in 1..MaxInterval, NEW elapsed \in 0..MaxAge
  PROVE  /\ Recorded(o, interval, elapsed) \in Row
         /\ Recorded(o, interval, elapsed).due = interval - elapsed
<1>1. interval - elapsed \in Due
  BY Numbers DEF Due
<1> QED
  BY <1>1 DEF Row, Recorded

\* The entries of a batch.
LEMMA BatchEntry ==
  ASSUME TypeOK, NEW r \in Runners, NEW i \in DOMAIN batch[r]
  PROVE  /\ batch[r] \in Seq(Entry) /\ batch[r][i] \in Entry
         /\ batch[r][i].name \in Schedules /\ batch[r][i].interval \in 1..MaxInterval
         /\ batch[r][i].name \in Held(r)
<1>1. batch[r] \in Seq(Entry)
  BY DEF TypeOK, Entry
<1>2. batch[r][i] \in Entry
  BY <1>1
<1> QED
  BY <1>1, <1>2 DEF Entry, Held

\* What is left of a batch was in it.
LEMMA TailEntry ==
  ASSUME TypeOK, NEW r \in Runners, batch[r] # <<>>
  PROVE  /\ Head(batch[r]) = batch[r][1] /\ 1 \in DOMAIN batch[r]
         /\ Tail(batch[r]) \in Seq(Entry)
         /\ \A i \in DOMAIN Tail(batch[r]) :
              i + 1 \in DOMAIN batch[r] /\ Tail(batch[r])[i] = batch[r][i + 1]
<1>1. batch[r] \in Seq(Entry)
  BY DEF TypeOK, Entry
<1> QED
  BY <1>1

\* There is always room for an overdue schedule: fewer due times than that are taken.
LEMMA RoomBefore ==
  ASSUME TypeOK, NEW s \in Schedules, row[s].due # Null, Passes(row[s].due)
  PROVE  row[s].due - 1 \in Due
<1> DEFINE V == {row[t].due : t \in Schedules}
           S == (-MaxLate)..(-MaxAge)
<1>1. row[s].due \in Due
  BY DEF TypeOK, Row
<1>2. row[s].due # -MaxLate
  <2> SUFFICES ASSUME row[s].due = -MaxLate PROVE FALSE
    OBVIOUS
  <2>1. \A e \in S : e \in V
    BY Numbers DEF Passes
  <2>2. IsFiniteSet(V) /\ Cardinality(V) <= Cardinality(Schedules)
    <3> DEFINE f == [t \in Schedules |-> row[t].due]
    <3>1. f \in Surjection(Schedules, V)
      BY DEF Surjection
    <3> QED
      BY <3>1, SchedulesAssumption, FS_Surjection
  <2> HIDE DEF V
  <2>3. IsFiniteSet(S) /\ Cardinality(S) = (-MaxAge) - (-MaxLate) + 1
    <3>1. -MaxLate \in Int /\ -MaxAge \in Int /\ ~(-MaxLate > -MaxAge)
      BY Numbers
    <3> QED
      BY <3>1, FS_Interval
  <2>4. Cardinality(S) <= Cardinality(V)
    BY <2>1, <2>2, FS_Subset
  <2>5. Cardinality(V) \in Nat
    BY <2>2, FS_CardinalityType
  <2> HIDE DEF S
  <2> QED
    BY <2>2, <2>3, <2>4, <2>5, Numbers
<1> QED
  BY <1>1, <1>2, Numbers DEF Due

-------------------------------------------------------------------------------
(* The claim *)

\* r takes b, a sequence of schedules that were due, with their intervals.
Batched(r, b) ==
  /\ batch' = [batch EXCEPT ![r] = b]
  /\ \A i \in DOMAIN b : /\ IsDue(row[b[i].name])
                         /\ b[i].interval = row[b[i].name].interval
  /\ \A s \in Schedules :
       row'[s] = IF \E i \in DOMAIN b : b[i].name = s THEN Advanced(row[s]) ELSE row[s]

LEMMA ClaimBatch ==
  ASSUME TypeOK, NEW r \in Runners, NEW wanted \in SUBSET Schedules, Claim(r, wanted)
  PROVE  \E b \in Seq(Entry) : Batched(r, b)
<1> DEFINE ready == {s \in wanted : IsDue(row[s])}
           n == Min({Limit, Cardinality(ready)})
<1>1. PICK c \in [1..n -> ready] :
        /\ batch' = [batch EXCEPT ![r] =
             [i \in DOMAIN c |-> [name |-> c[i], interval |-> row[c[i]].interval]]]
        /\ row' = [s \in Schedules |->
             IF \E i \in DOMAIN c : c[i] = s THEN Advanced(row[s]) ELSE row[s]]
  BY DEF Claim
<1>2. n \in Nat
  <2>1. IsFiniteSet(ready)
    BY SchedulesAssumption, FS_Subset
  <2>2. Cardinality(ready) \in Nat
    BY <2>1, FS_CardinalityType
  <2> HIDE DEF ready
  <2>3. \E x \in {Limit, Cardinality(ready)} : \A y \in {Limit, Cardinality(ready)} : x <= y
    BY <2>2, Numbers
  <2>4. n \in {Limit, Cardinality(ready)}
    BY <2>3 DEF Min
  <2> QED
    BY <2>2, <2>4, Numbers
<1>b. PICK b : b = [i \in 1..n |-> [name |-> c[i], interval |-> row[c[i]].interval]]
  OBVIOUS
<1>3. \A i \in 1..n : c[i] \in Schedules /\ IsDue(row[c[i]]) /\ row[c[i]] \in Row
  BY DEF TypeOK
<1> HIDE DEF n, ready
<1>4. \A i \in 1..n : row[c[i]].interval \in 1..MaxInterval
  BY <1>3 DEF Row
<1>5. b \in Seq(Entry)
  <2>1. b \in [1..n -> Entry]
    BY <1>3, <1>4, <1>b DEF Entry
  <2> QED
    BY <1>2, <2>1
<1>6. /\ DOMAIN c = 1..n /\ DOMAIN b = 1..n
      /\ \A i \in 1..n : b[i].name = c[i] /\ b[i].interval = row[c[i]].interval
  BY <1>b
<1>7. batch' = [batch EXCEPT ![r] = b]
  BY <1>1, <1>6, <1>b
<1>8. \A s \in Schedules :
        row'[s] = IF \E i \in DOMAIN b : b[i].name = s THEN Advanced(row[s]) ELSE row[s]
  BY <1>1, <1>6
<1>9. \A i \in DOMAIN b : /\ IsDue(row[b[i].name])
                          /\ b[i].interval = row[b[i].name].interval
  BY <1>3, <1>6
<1>10. Batched(r, b)
  BY <1>7, <1>8, <1>9 DEF Batched
<1> QED
  BY <1>5, <1>10

\* A schedule somebody holds in time is not due.
LEMMA HeldIsNotDue ==
  ASSUME Inv, NEW r \in Runners, NEW i \in DOMAIN batch[r],
         batch[r][i].name \notin late \union edited
  PROVE  ~IsDue(row[batch[r][i].name])
<1>1. /\ row[batch[r][i].name].due = batch[r][i].interval - age[r]
      /\ age[r] < batch[r][i].interval
  BY DEF Inv, HeldAhead
<1>2. TypeOK
  BY DEF Inv
<1>3. batch[r][i].interval \in Int
  BY <1>2, BatchEntry
<1>4. age[r] \in Int
  BY <1>2 DEF TypeOK
<1> QED
  BY <1>1, <1>3, <1>4, Numbers DEF IsDue

-------------------------------------------------------------------------------
(* The inductive invariant *)

LEMMA InitInv == Init => Inv
<1> SUFFICES ASSUME Init PROVE Inv
  OBVIOUS
<1>1. TypeOK
  BY Numbers DEF Init, TypeOK, Row, Due
<1>2. \A r \in Runners : DOMAIN batch[r] = {}
  BY DEF Init
<1> QED
  BY <1>1, <1>2 DEF Inv, HeldAhead, OneRunnerPerSchedule, Held

LEMMA NextTypeOK == Inv /\ [Next]_vars => TypeOK'
<1> SUFFICES ASSUME Inv, [Next]_vars PROVE TypeOK'
  OBVIOUS
<1>0. TypeOK
  BY DEF Inv
<1>t. /\ row \in [Schedules -> Row] /\ batch \in [Runners -> Seq(Entry)]
      /\ age \in [Runners -> 0..MaxAge] /\ edits \in 0..MaxEdits
      /\ late \in SUBSET Schedules /\ edited \in SUBSET Schedules
  BY <1>0 DEF TypeOK, Entry
<1>z. 0 \in 0..MaxAge
  BY Numbers
<1>d. ASSUME /\ row' \in [Schedules -> Row] /\ batch' \in [Runners -> Seq(Entry)]
             /\ age' \in [Runners -> 0..MaxAge] /\ edits' \in 0..MaxEdits
             /\ late' \in SUBSET Schedules /\ edited' \in SUBSET Schedules
      PROVE  TypeOK'
  BY <1>d DEF TypeOK, Entry
<1>1. ASSUME NEW s \in Schedules, Upsert(s) PROVE TypeOK'
  <2>1. edits' \in 0..MaxEdits
    BY <1>1, <1>t, Numbers DEF Upsert
  <2>2. row' \in [Schedules -> Row]
    BY <1>1, <1>t DEF Upsert
  <2>3. edited' \in SUBSET Schedules
    BY <1>1, <1>t DEF Upsert
  <2>4. batch' = batch /\ age' = age /\ late' = late
    BY <1>1 DEF Upsert
  <2> QED
    BY <1>t, <1>d, <2>1, <2>2, <2>3, <2>4
<1>2. ASSUME NEW r \in Runners, NEW wanted \in SUBSET Schedules, Claim(r, wanted)
      PROVE  TypeOK'
  <2>1. PICK b \in Seq(Entry) : Batched(r, b)
    BY <1>0, <1>2, ClaimBatch
  <2>2. \A s \in Schedules : row'[s] \in Row
    <3> SUFFICES ASSUME NEW s \in Schedules PROVE row'[s] \in Row
      OBVIOUS
    <3>1. row[s] \in Row
      BY <1>t
    <3>2. Advanced(row[s]) \in Row
      BY <3>1, AdvancedType
    <3> QED
      BY <2>1, <3>1, <3>2 DEF Batched
  <2>3. \E f : row' = [s \in Schedules |-> f[s]]
    <3> DEFINE f == row'
    <3>1. DOMAIN row' = Schedules /\ row' = [s \in DOMAIN row' |-> row'[s]]
      BY <1>2 DEF Claim
    <3>2. row' = [s \in Schedules |-> f[s]]
      BY <3>1
    <3> QED
      BY <3>2
  <2>4. row' \in [Schedules -> Row]
    BY <2>2, <2>3
  <2>5. batch' \in [Runners -> Seq(Entry)]
    BY <1>t, <2>1 DEF Batched
  <2>6. /\ age' = [age EXCEPT ![r] = 0]
        /\ edits' = edits /\ late' = late /\ edited' = edited
    BY <1>2 DEF Claim
  <2>7. age' \in [Runners -> 0..MaxAge]
    BY <1>t, <1>z, <2>6
  <2> QED
    BY <1>t, <1>d, <2>4, <2>5, <2>6, <2>7
<1>3. ASSUME NEW r \in Runners, Record(r) PROVE TypeOK'
  <2>1. batch[r] # <<>>
    BY <1>3 DEF Record
  <2>2. /\ 1 \in DOMAIN batch[r] /\ Head(batch[r]) = batch[r][1]
        /\ Tail(batch[r]) \in Seq(Entry)
    BY <1>0, <2>1, TailEntry
  <2> DEFINE e == batch[r][1]
  <2>3. e.name \in Schedules /\ e.interval \in 1..MaxInterval
    BY <1>0, <2>2, BatchEntry
  <2>4. /\ row' = [row EXCEPT ![e.name] = Recorded(row[e.name], e.interval, age[r])]
        /\ batch' = [batch EXCEPT ![r] = Tail(batch[r])]
        /\ age' = [age EXCEPT ![r] = IF Tail(batch[r]) = <<>> THEN 0 ELSE age[r]]
        /\ edits' = edits /\ late' = late /\ edited' = edited
    BY <1>3, <2>2 DEF Record
  <2> HIDE DEF e
  <2>5. Recorded(row[e.name], e.interval, age[r]) \in Row
    BY <1>t, <2>3, RecordedType
  <2>6. row' \in [Schedules -> Row]
    BY <1>t, <2>4, <2>5
  <2>7. batch' \in [Runners -> Seq(Entry)]
    BY <1>t, <2>2, <2>4
  <2>8. age' \in [Runners -> 0..MaxAge]
    BY <1>t, <1>z, <2>4
  <2> QED
    BY <1>t, <1>d, <2>4, <2>6, <2>7, <2>8
<1>4. ASSUME NEW r \in Runners, Crash(r) PROVE TypeOK'
  <2>1. /\ batch' = [batch EXCEPT ![r] = <<>>] /\ age' = [age EXCEPT ![r] = 0]
        /\ row' = row /\ edits' = edits /\ late' = late /\ edited' = edited
    BY <1>4 DEF Crash
  <2>2. <<>> \in Seq(Entry)
    OBVIOUS
  <2>3. batch' \in [Runners -> Seq(Entry)]
    BY <1>t, <2>1, <2>2
  <2>4. age' \in [Runners -> 0..MaxAge]
    BY <1>t, <1>z, <2>1
  <2> QED
    BY <1>t, <1>d, <2>1, <2>3, <2>4
<1>5. ASSUME Tick PROVE TypeOK'
  <2>1. row' = [s \in Schedules |->
          IF row[s].due # Null /\ Passes(row[s].due)
          THEN [row[s] EXCEPT !.due = row[s].due - 1] ELSE row[s]]
    BY <1>5 DEF Tick
  <2>2. ASSUME NEW s \in Schedules, row[s].due # Null, Passes(row[s].due)
        PROVE  [row[s] EXCEPT !.due = row[s].due - 1] \in Row
    <3>1. row[s] \in Row
      BY <1>t
    <3>2. row[s].due - 1 \in Due
      BY <1>0, <2>2, RoomBefore
    <3> QED
      BY <3>1, <3>2 DEF Row
  <2>3. row' \in [Schedules -> Row]
    BY <1>t, <2>1, <2>2
  <2>4. age' = [r \in Runners |-> IF batch[r] = <<>> THEN 0 ELSE age[r] + 1]
    BY <1>5 DEF Tick
  <2>5. ASSUME NEW r \in Runners, batch[r] # <<>> PROVE age[r] + 1 \in 0..MaxAge
    <3>1. age[r] < MaxAge
      BY <1>5, <2>5 DEF Tick
    <3> QED
      BY <1>t, <3>1, Numbers
  <2>6. age' \in [Runners -> 0..MaxAge]
    BY <1>z, <2>4, <2>5
  <2>7. late' \in SUBSET Schedules
    BY <1>5, <1>t DEF Tick
  <2>8. batch' = batch /\ edits' = edits /\ edited' = edited
    BY <1>5 DEF Tick
  <2> QED
    BY <1>t, <1>d, <2>3, <2>6, <2>7, <2>8
<1>6. CASE UNCHANGED vars
  BY <1>0, <1>6 DEF vars, TypeOK
<1> QED
  BY <1>1, <1>2, <1>3, <1>4, <1>5, <1>6 DEF Next, ClaimAny

LEMMA NextHeldAhead == Inv /\ [Next]_vars => HeldAhead'
<1> SUFFICES ASSUME Inv, [Next]_vars, NEW q \in Runners, NEW i \in DOMAIN batch'[q],
                    batch'[q][i].name \notin late' \union edited'
             PROVE  /\ row'[batch'[q][i].name].due = batch'[q][i].interval - age'[q]
                    /\ age'[q] < batch'[q][i].interval
  BY DEF HeldAhead
<1> DEFINE Goal == /\ row'[batch'[q][i].name].due = batch'[q][i].interval - age'[q]
                   /\ age'[q] < batch'[q][i].interval
<1>0. /\ TypeOK /\ late \subseteq late' /\ edited \subseteq edited'
      /\ batch'[q][i].name \notin late \union edited
      /\ row \in [Schedules -> Row] /\ age \in [Runners -> 0..MaxAge]
  BY DEF Inv, TypeOK, Next, vars, Upsert, ClaimAny, Claim, Record, Crash, Tick
\* An entry that stays, of a row that stays.
<1>1. ASSUME NEW k \in DOMAIN batch[q], batch'[q][i] = batch[q][k], age'[q] = age[q],
             row'[batch[q][k].name].due = row[batch[q][k].name].due
      PROVE  Goal
  BY <1>0, <1>1 DEF Inv, HeldAhead
<1>2. ASSUME NEW s \in Schedules, Upsert(s) PROVE Goal
  <2>1. batch' = batch /\ age' = age
    BY <1>2 DEF Upsert
  <2>2. batch[q][i].name # s
    <3>1. batch[q][i].name \in Held(q)
      BY <1>0, <2>1, BatchEntry
    <3> QED
      BY <1>0, <1>2, <2>1, <3>1 DEF Upsert
  <2>3. row'[batch[q][i].name] = row[batch[q][i].name]
    BY <1>0, <1>2, <2>1, <2>2, BatchEntry DEF Upsert
  <2> QED
    BY <1>1, <2>1, <2>3
<1>3. ASSUME NEW r \in Runners, NEW wanted \in SUBSET Schedules, Claim(r, wanted)
      PROVE  Goal
  <2>1. PICK b \in Seq(Entry) : Batched(r, b)
    BY <1>0, <1>3, ClaimBatch
  <2>2. age' = [age EXCEPT ![r] = 0]
    BY <1>3 DEF Claim
  <2>3. CASE q = r
    <3>1. batch'[q] = b /\ age'[q] = 0
      BY <1>0, <2>1, <2>2, <2>3 DEF TypeOK, Batched
    <3>2. b[i] \in Entry
      BY <2>1, <3>1
    <3>3. b[i].name \in Schedules /\ b[i].interval \in 1..MaxInterval
      BY <3>2 DEF Entry
    <3>4. row'[b[i].name] = Advanced(row[b[i].name])
      BY <2>1, <3>1, <3>3 DEF Batched
    <3>5. row'[b[i].name].due = b[i].interval
      BY <1>0, <2>1, <3>1, <3>3, <3>4, AdvancedType DEF Batched
    <3> QED
      BY <3>1, <3>3, <3>5, Numbers
  <2>4. CASE q # r
    <3>1. batch'[q] = batch[q] /\ age'[q] = age[q]
      BY <1>0, <2>1, <2>2, <2>4 DEF TypeOK, Batched
    <3>2. ~IsDue(row[batch[q][i].name]) /\ batch[q][i].name \in Schedules
      BY <1>0, <3>1, HeldIsNotDue, BatchEntry
    <3>3. row'[batch[q][i].name] = row[batch[q][i].name]
      BY <2>1, <3>2 DEF Batched
    <3> QED
      BY <1>1, <3>1, <3>3
  <2> QED
    BY <2>3, <2>4
<1>4. ASSUME NEW r \in Runners, Record(r) PROVE Goal
  <2>1. /\ Head(batch[r]) = batch[r][1] /\ 1 \in DOMAIN batch[r]
        /\ \A k \in DOMAIN Tail(batch[r]) :
             k + 1 \in DOMAIN batch[r] /\ Tail(batch[r])[k] = batch[r][k + 1]
    BY <1>0, <1>4, TailEntry DEF Record
  <2> DEFINE e == batch[r][1]
  <2>2. e.name \in Schedules /\ e.interval \in 1..MaxInterval /\ e.name \in Held(r)
    BY <1>0, <2>1, BatchEntry
  <2>3. row' = [row EXCEPT ![e.name] = Recorded(row[e.name], e.interval, age[r])]
    BY <1>4, <2>1 DEF Record
  <2>4. e.name \notin late \union edited =>
          row'[e.name].due = row[e.name].due
    <3>1. row'[e.name].due = e.interval - age[r]
      BY <1>0, <2>2, <2>3, RecordedType
    <3> QED
      BY <2>1, <3>1 DEF Inv, HeldAhead
  <2>5. /\ batch' = [batch EXCEPT ![r] = Tail(batch[r])]
        /\ age' = [age EXCEPT ![r] = IF Tail(batch[r]) = <<>> THEN 0 ELSE age[r]]
    BY <1>4 DEF Record
  <2> HIDE DEF e
  <2>6. \E k \in DOMAIN batch[q] : batch'[q][i] = batch[q][k] /\ age'[q] = age[q]
    <3>1. CASE q = r
      <4>1. batch'[q] = Tail(batch[r])
        BY <1>0, <2>5, <3>1 DEF TypeOK
      <4>2. i + 1 \in DOMAIN batch[q] /\ batch'[q][i] = batch[q][i + 1]
        BY <2>1, <3>1, <4>1
      <4>3. Tail(batch[r]) # <<>>
        BY <4>1
      <4>4. age'[q] = age[q]
        BY <1>0, <2>5, <3>1, <4>3
      <4> QED
        BY <4>2, <4>4
    <3>2. CASE q # r
      BY <1>0, <2>5, <3>2 DEF TypeOK
    <3> QED
      BY <3>1, <3>2
  <2>7. PICK k \in DOMAIN batch[q] : batch'[q][i] = batch[q][k] /\ age'[q] = age[q]
    BY <2>6
  <2>8. row'[batch[q][k].name].due = row[batch[q][k].name].due
    <3>1. CASE batch[q][k].name = e.name
      BY <1>0, <2>4, <2>7, <3>1
    <3>2. CASE batch[q][k].name # e.name
      BY <1>0, <2>2, <2>3, <3>2, BatchEntry
    <3> QED
      BY <3>1, <3>2
  <2> QED
    BY <1>1, <2>7, <2>8
<1>5. ASSUME NEW r \in Runners, Crash(r) PROVE Goal
  <2>1. /\ batch' = [batch EXCEPT ![r] = <<>>] /\ age' = [age EXCEPT ![r] = 0]
        /\ row' = row
    BY <1>5 DEF Crash
  <2>2. q # r
    BY <1>0, <2>1 DEF TypeOK
  <2>3. batch'[q] = batch[q] /\ age'[q] = age[q]
    BY <1>0, <2>1, <2>2 DEF TypeOK
  <2> QED
    BY <1>1, <2>1, <2>3
<1>6. ASSUME Tick PROVE Goal
  <2>1. batch' = batch
    BY <1>6 DEF Tick
  <2> DEFINE e == batch[q][i]
  <2>2. e.name \in Schedules /\ e.interval \in 1..MaxInterval /\ age[q] \in 0..MaxAge
    BY <1>0, <2>1, BatchEntry
  <2>3. row[e.name].due = e.interval - age[q] /\ age[q] < e.interval
    BY <1>0, <2>1 DEF Inv, HeldAhead
  <2>4. batch[q] # <<>>
    BY <2>1, <1>0, BatchEntry
  <2>5. age'[q] = age[q] + 1
    BY <1>6, <2>4 DEF Tick
  <2>6. age[q] + 1 < e.interval
    <3>1. ~(e.interval <= age[q] + 1)
      BY <1>6, <1>0, <2>1, <2>2 DEF Tick
    <3> QED
      BY <2>2, <3>1, Numbers
  <2>7. row'[e.name].due = row[e.name].due - 1
    <3>1. row[e.name].due \in Int /\ row[e.name].due > 0
      BY <2>2, <2>3, Numbers
    <3>2. row[e.name].due # Null /\ Passes(row[e.name].due)
      BY <3>1, Numbers DEF Passes
    <3>3. row'[e.name] = [row[e.name] EXCEPT !.due = row[e.name].due - 1]
      BY <1>6, <2>2, <3>2 DEF Tick
    <3>4. row[e.name] \in Row
      BY <1>0, <2>2
    <3> QED
      BY <3>3, <3>4 DEF Row
  <2> QED
    BY <2>1, <2>2, <2>3, <2>5, <2>6, <2>7, Numbers
<1>7. CASE UNCHANGED vars
  BY <1>1, <1>7 DEF vars
<1> QED
  BY <1>2, <1>3, <1>4, <1>5, <1>6, <1>7 DEF Next, ClaimAny

\* Who holds a schedule held it before, or claims it.
LEMMA NextOneRunner == Inv /\ [Next]_vars => OneRunnerPerSchedule'
<1> SUFFICES ASSUME Inv, [Next]_vars, NEW p \in Runners, NEW q \in Runners, p # q,
                    NEW s \in Held(p)' \cap Held(q)'
             PROVE  s \in late' \union edited'
  BY DEF OneRunnerPerSchedule
<1>0. /\ TypeOK /\ late \subseteq late' /\ edited \subseteq edited'
      /\ batch \in [Runners -> Seq(Entry)]
  BY DEF Inv, TypeOK, Entry, Next, vars, Upsert, ClaimAny, Claim, Record, Crash, Tick
<1>1. ASSUME s \in Held(p), s \in Held(q) PROVE s \in late' \union edited'
  BY <1>0, <1>1 DEF Inv, OneRunnerPerSchedule
<1>2. ASSUME batch' = batch PROVE s \in late' \union edited'
  BY <1>1, <1>2 DEF Held
<1>3. ASSUME NEW r \in Runners, NEW wanted \in SUBSET Schedules, Claim(r, wanted)
      PROVE  s \in late' \union edited'
  <2>1. PICK b \in Seq(Entry) : Batched(r, b)
    BY <1>0, <1>3, ClaimBatch
  <2>2. ASSUME NEW u \in Runners, u # r, s \in Held(u)', s \in Held(r)'
        PROVE  s \in late' \union edited'
    <3>1. batch'[u] = batch[u] /\ batch'[r] = b
      BY <1>0, <2>1, <2>2 DEF Batched
    <3>2. PICK k \in DOMAIN b : b[k].name = s
      BY <2>2, <3>1 DEF Held
    <3>3. IsDue(row[s])
      BY <2>1, <3>2 DEF Batched
    <3>4. PICK i \in DOMAIN batch[u] : batch[u][i].name = s
      BY <2>2, <3>1 DEF Held
    <3> QED
      BY <1>0, <3>3, <3>4, HeldIsNotDue
  <2>3. CASE p = r \/ q = r
    BY <2>2, <2>3
  <2>4. CASE p # r /\ q # r
    <3>1. batch'[p] = batch[p] /\ batch'[q] = batch[q]
      BY <1>0, <2>1, <2>4 DEF Batched
    <3> QED
      BY <1>1, <3>1 DEF Held
  <2> QED
    BY <2>3, <2>4
<1>4. ASSUME NEW r \in Runners, Record(r) PROVE s \in late' \union edited'
  <2>1. /\ batch' = [batch EXCEPT ![r] = Tail(batch[r])]
        /\ \A k \in DOMAIN Tail(batch[r]) :
             k + 1 \in DOMAIN batch[r] /\ Tail(batch[r])[k] = batch[r][k + 1]
    BY <1>0, <1>4, TailEntry DEF Record
  <2>2. ASSUME NEW u \in Runners, s \in Held(u)' PROVE s \in Held(u)
    <3>1. CASE u = r
      <4>1. batch'[u] = Tail(batch[r])
        BY <1>0, <2>1, <3>1
      <4>2. PICK k \in DOMAIN Tail(batch[r]) : Tail(batch[r])[k].name = s
        BY <2>2, <4>1 DEF Held
      <4> QED
        BY <2>1, <3>1, <4>2 DEF Held
    <3>2. CASE u # r
      BY <1>0, <2>1, <2>2, <3>2 DEF Held
    <3> QED
      BY <3>1, <3>2
  <2> QED
    BY <1>1, <2>2
<1>5. ASSUME NEW r \in Runners, Crash(r) PROVE s \in late' \union edited'
  <2>1. batch' = [batch EXCEPT ![r] = <<>>]
    BY <1>5 DEF Crash
  <2>2. ASSUME NEW u \in Runners, s \in Held(u)' PROVE s \in Held(u)
    <3>1. CASE u = r
      BY <1>0, <2>1, <2>2, <3>1 DEF Held
    <3>2. CASE u # r
      BY <1>0, <2>1, <2>2, <3>2 DEF Held
    <3> QED
      BY <3>1, <3>2
  <2> QED
    BY <1>1, <2>2
<1>6. ASSUME NEW t \in Schedules, Upsert(t) PROVE s \in late' \union edited'
  BY <1>2, <1>6 DEF Upsert
<1>7. ASSUME Tick PROVE s \in late' \union edited'
  BY <1>2, <1>7 DEF Tick
<1>8. CASE UNCHANGED vars
  BY <1>2, <1>8 DEF vars
<1> QED
  BY <1>3, <1>4, <1>5, <1>6, <1>7, <1>8 DEF Next, ClaimAny

LEMMA InvHolds == Spec => []Inv
<1>1. Inv /\ [Next]_vars => Inv'
  BY NextTypeOK, NextHeldAhead, NextOneRunner DEF Inv
<1> QED
  BY <1>1, InitInv, PTL DEF Spec

\* The due times stay within the table's type, also those recorded by a runner whose
\* call took as long as one may.
THEOREM TypeCorrect == Spec => []TypeOK
<1>1. Inv => TypeOK
  BY DEF Inv
<1> QED
  BY <1>1, InvHolds, PTL

\* However many runners claim, with whatever limit, a schedule runs once at a time,
\* unless its run outlasts its interval or an operator edits it meanwhile.
THEOREM OneRunnerPerScheduleHolds == Spec => []OneRunnerPerSchedule
<1>1. Inv => OneRunnerPerSchedule
  BY DEF Inv
<1> QED
  BY <1>1, InvHolds, PTL

\* A claim or a recorded result never moves next_run_at back.
THEOREM NeverMovedBack == Spec => OnlyOperatorsMoveBack
<1> DEFINE Forward == \A r \in Runners : batch'[r] # batch[r] =>
             \A s \in Schedules \ (late \union edited) :
               row[s].due # Null => row'[s].due >= row[s].due
<1>1. Inv /\ [Next]_vars => [Forward]_vars
  <2> SUFFICES ASSUME Inv, [Next]_vars, NEW q \in Runners, batch'[q] # batch[q],
                      NEW s \in Schedules \ (late \union edited), row[s].due # Null
               PROVE  row'[s].due >= row[s].due
    OBVIOUS
  <2>0. /\ TypeOK /\ row \in [Schedules -> Row] /\ age \in [Runners -> 0..MaxAge]
        /\ row[s].due \in Int
    <3>1. TypeOK /\ row \in [Schedules -> Row] /\ age \in [Runners -> 0..MaxAge]
      BY DEF Inv, TypeOK
    <3>2. row[s] \in Row
      BY <3>1
    <3>3. row[s].due \in Due
      BY <3>2 DEF Row
    <3> QED
      BY <3>1, <3>3, Numbers DEF Due
  <2>1. ASSUME NEW r \in Runners, NEW wanted \in SUBSET Schedules, Claim(r, wanted)
        PROVE  row'[s].due >= row[s].due
    <3>1. PICK b \in Seq(Entry) : Batched(r, b)
      BY <2>0, <2>1, ClaimBatch
    <3>2. CASE \E k \in DOMAIN b : b[k].name = s
      <4>1. IsDue(row[s]) /\ row'[s].due = row[s].interval /\ row[s].interval \in 1..MaxInterval
        BY <2>0, <3>1, <3>2, AdvancedType DEF Batched
      <4> QED
        BY <2>0, <4>1 DEF IsDue
    <3>3. CASE ~\E k \in DOMAIN b : b[k].name = s
      BY <2>0, <3>1, <3>3 DEF Batched
    <3> QED
      BY <3>2, <3>3
  <2>2. ASSUME NEW r \in Runners, Record(r) PROVE row'[s].due >= row[s].due
    <3> DEFINE e == batch[r][1]
    <3>1. 1 \in DOMAIN batch[r] /\ Head(batch[r]) = e
      BY <2>0, <2>2, TailEntry DEF Record
    <3>2. e.name \in Schedules /\ e.interval \in 1..MaxInterval
      BY <2>0, <3>1, BatchEntry
    <3>3. row' = [row EXCEPT ![e.name] = Recorded(row[e.name], e.interval, age[r])]
      BY <2>2, <3>1 DEF Record
    <3>4. CASE s = e.name
      <4>1. row'[s].due = e.interval - age[r]
        BY <2>0, <3>2, <3>3, <3>4, RecordedType
      <4>2. row[s].due = e.interval - age[r]
        BY <3>1, <3>4 DEF Inv, HeldAhead
      <4> QED
        BY <2>0, <4>1, <4>2
    <3>5. CASE s # e.name
      BY <2>0, <3>3, <3>5
    <3> QED
      BY <3>4, <3>5
  <2>3. ASSUME NEW r \in Runners, Crash(r) PROVE row'[s].due >= row[s].due
    BY <2>0, <2>3 DEF Crash
  <2>4. ASSUME NEW t \in Schedules, Upsert(t) PROVE FALSE
    BY <2>4 DEF Upsert
  <2>5. ASSUME Tick PROVE FALSE
    BY <2>5 DEF Tick
  <2>6. CASE UNCHANGED vars
    BY <2>6 DEF vars
  <2> QED
    BY <2>1, <2>2, <2>3, <2>4, <2>5, <2>6 DEF Next, ClaimAny
<1> QED
  BY <1>1, InvHolds, PTL DEF Spec, OnlyOperatorsMoveBack

\* Time keeps every due time in reach of Record at its distance and the others in their
\* order; it does not matter how long a schedule has been overdue.
TimeKeepsOrder ==
  Tick => \A s, t \in Schedules :
    /\ row'[s].due = Null <=> row[s].due = Null
    /\ row[s].due # Null /\ row[s].due >= -MaxAge => row'[s].due = row[s].due - 1
    /\ row[s].due # Null /\ row[s].due < -MaxAge => row'[s].due < -MaxAge
    /\ row[s].due # Null /\ row[t].due # Null =>
         (row[s].due < row[t].due <=> row'[s].due < row'[t].due)

\* Times before now are kept apart only as far as claim_due_... compares them: the
\* bound on the states is none on how long a schedule may wait.
THEOREM TimeKeepsOrderHolds == Spec => [][TimeKeepsOrder]_vars
<1>1. Inv => TimeKeepsOrder
  <2> SUFFICES ASSUME TypeOK, Tick, NEW s \in Schedules, NEW t \in Schedules
               PROVE  /\ row'[s].due = Null <=> row[s].due = Null
                      /\ row[s].due # Null /\ row[s].due >= -MaxAge =>
                           row'[s].due = row[s].due - 1
                      /\ row[s].due # Null /\ row[s].due < -MaxAge => row'[s].due < -MaxAge
                      /\ row[s].due # Null /\ row[t].due # Null =>
                           (row[s].due < row[t].due <=> row'[s].due < row'[t].due)
    BY DEF Inv, TimeKeepsOrder
  <2>1. \A u \in Schedules :
          /\ row[u] \in Row /\ row[u].due \in Due \union {Null}
          /\ row[u].due # Null => row[u].due \in Int
    BY Numbers DEF TypeOK, Row, Due
  <2>2. \A u \in Schedules :
          row'[u] = IF row[u].due # Null /\ Passes(row[u].due)
                    THEN [row[u] EXCEPT !.due = row[u].due - 1] ELSE row[u]
    BY DEF Tick
  <2>3. \A u \in Schedules :
          row'[u].due = IF row[u].due # Null /\ Passes(row[u].due)
                        THEN row[u].due - 1 ELSE row[u].due
    BY <2>1, <2>2 DEF Row
  <2>4. \A u \in Schedules : row[u].due # Null /\ row[u].due >= -MaxAge => Passes(row[u].due)
    BY <2>1, Numbers DEF Passes
  <2>5. ASSUME NEW u \in Schedules, NEW v \in Schedules, row[u].due # Null,
               row[v].due # Null, row[u].due < row[v].due
        PROVE  row'[u].due < row'[v].due
    <3>1. CASE row[u].due < row[v].due - 1
      BY <2>1, <2>3, <2>5, <3>1
    <3>2. CASE row[u].due = row[v].due - 1 /\ Passes(row[v].due)
      <4>1. ASSUME NEW e \in (row[u].due + 1)..(-MaxAge)
            PROVE  \E x \in Schedules : row[x].due = e
        <5>1. e = row[v].due \/ e \in (row[v].due + 1)..(-MaxAge)
          BY <2>1, <2>5, <3>2, <4>1, Numbers
        <5> QED
          BY <3>2, <5>1 DEF Passes
      <4>2. Passes(row[u].due)
        BY <4>1 DEF Passes
      <4> QED
        BY <2>1, <2>3, <2>5, <3>2, <4>2
    <3>3. CASE ~Passes(row[v].due)
      BY <2>1, <2>3, <2>5, <3>3
    <3> QED
      BY <2>1, <2>5, <3>1, <3>2, <3>3
  <2>6. \A u, v \in Schedules : row[u].due = row[v].due => row'[u].due = row'[v].due
    BY <2>3
  <2>7. \A u \in Schedules : row[u].due # Null => row'[u].due \in Int
    BY <2>1, <2>3
  <2>8. row[s].due # Null /\ row[t].due # Null =>
          (row[s].due < row[t].due <=> row'[s].due < row'[t].due)
    BY <2>1, <2>5, <2>6, <2>7
  <2>9. row'[s].due = Null <=> row[s].due = Null
    BY <2>3, <2>7, Numbers
  <2>10. row[s].due # Null /\ row[s].due >= -MaxAge => row'[s].due = row[s].due - 1
    BY <2>3, <2>4
  <2>11. row[s].due # Null /\ row[s].due < -MaxAge => row'[s].due < -MaxAge
    BY <2>1, <2>3, Numbers
  <2> QED
    BY <2>8, <2>9, <2>10, <2>11
<1> QED
  BY <1>1, InvHolds, PTL

===============================================================================
