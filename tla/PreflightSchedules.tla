--------------------------- MODULE PreflightSchedules ---------------------------
(***************************************************************************)
(* Scheduled preflights of the provider routes,                            *)
(* app/core/embedding_provider_preflight_schedules.py: operators edit the  *)
(* schedules, runners (cron, the run-due endpoint) claim the due ones in   *)
(* one transaction and then run and record them one after another.         *)
(*                                                                         *)
(* Times are relative to now, in minutes: due is next_run_at - now, age    *)
(* what passed since a runner's run_at, the time it claims with and later  *)
(* records with.  A minute that passes is the action Tick.  A schedule may *)
(* stay overdue for ever: due times earlier than any that Record writes    *)
(* are only compared with each other, so of them Tick keeps the order and  *)
(* not the distance (Passes).                                              *)
(*                                                                         *)
(* A claim is atomic: of two at the same time the second one skips or      *)
(* rechecks the rows the first one has locked, so they act one after the   *)
(* other.  Counters, results and the log of runs are append-only and left  *)
(* out.                                                                    *)
(*                                                                         *)
(* The history variables late and edited, which no step depends on, name   *)
(* the schedules whose run outlasted their interval or that an operator    *)
(* edited during a run; some properties are about the other ones.          *)
(***************************************************************************)
EXTENDS Integers, Sequences, FiniteSets, Functions, FiniteSetsExt

CONSTANTS Schedules,   \* schedule_name values
          Runners,     \* processes and requests that run due schedules
          Cron,        \* the runners among them that cron starts, for all schedules
          Limit,       \* schedules one call claims, 20 by default
          MaxInterval, \* interval_minutes, at most
          MaxAge,      \* bound: minutes a call takes, at most
          MaxLate,     \* as many due times before now are told apart
          MaxEdits,    \* bound: how often operators edit
          DueChoices,     \* the due times operators choose from
          Null         \* next_run_at IS NULL

ASSUME CronAssumption == Cron \subseteq Runners
ASSUME SchedulesAssumption == IsFiniteSet(Schedules)
ASSUME LimitAssumption == Limit \in Nat \ {0}
ASSUME BoundsAssumption ==
  /\ MaxInterval \in Nat \ {0} /\ MaxAge \in Nat /\ MaxLate \in Nat /\ MaxEdits \in Nat
  /\ MaxAge + Cardinality(Schedules) <= MaxLate
ASSUME NullAssumption == Null \notin Int

VARIABLES row,    \* the table: [Schedules -> Row]
          batch,  \* what each runner claimed and has not recorded, in order
          age,    \* now - run_at of each runner's call
          edits,  \* how often operators edited
          late,   \* history: a call took as long as the interval or longer
          edited  \* history: an operator edited it during a run

vars == <<row, batch, age, edits, late, edited>>

Due == (-MaxLate)..MaxInterval

Row == [due: Due \union {Null}, interval: 1..MaxInterval, enabled: BOOLEAN]

TypeOK ==
  /\ row \in [Schedules -> Row]
  /\ batch \in [Runners -> Seq([name: Schedules, interval: 1..MaxInterval])]
  /\ age \in [Runners -> 0..MaxAge]
  /\ edits \in 0..MaxEdits
  /\ late \in SUBSET Schedules
  /\ edited \in SUBSET Schedules

\* Installed disabled; a schedule that was not created yet is like a disabled one.
Init ==
  /\ row = [s \in Schedules |-> [due |-> 0, interval |-> 1, enabled |-> FALSE]]
  /\ batch = [r \in Runners |-> <<>>]
  /\ age = [r \in Runners |-> 0]
  /\ edits = 0
  /\ late = {}
  /\ edited = {}

Held(r) == {batch[r][i].name : i \in DOMAIN batch[r]}

IsDue(r) == r.enabled /\ (r.due = Null \/ r.due <= 0)

\* Mutant: no ORDER BY.
Earlier_Never(a, b) == FALSE

\* ORDER BY next_run_at ASC NULLS FIRST; the name, which breaks ties, is left open.
Earlier(a, b) ==
  \/ a.due = Null /\ b.due # Null
  \/ a.due # Null /\ b.due # Null /\ a.due < b.due

Advanced_Not(r) == r

\* next_run_at = claim time + interval.
Advanced(r) == [r EXCEPT !.due = r.interval]

Recorded_Added(r, interval, elapsed) == [r EXCEPT !.due = interval + elapsed]

Recorded_AtRun(r, interval, elapsed) == [r EXCEPT !.due = -elapsed]

\* next_run_at = run_at + the interval the claimed record had, whatever the row
\* says by now.
Recorded(r, interval, elapsed) == [r EXCEPT !.due = interval - elapsed]

-------------------------------------------------------------------------------

\* upsert_embedding_provider_preflight_schedule overwrites every setting.
Upsert(s) ==
  /\ edits < MaxEdits
  /\ \E new \in Row : new.due \in DueChoices /\ row' = [row EXCEPT ![s] = new]
  /\ edits' = edits + 1
  /\ edited' = IF \E r \in Runners : s \in Held(r) THEN edited \union {s} ELSE edited
  /\ UNCHANGED <<batch, age, late>>

\* claim_due_...: the first Limit due schedules, all of them or the one named.
Claim(r, wanted) ==
  LET ready == {s \in wanted : IsDue(row[s])}
      Rest(b, i) == {s \in ready : \A k \in 1..i : b[k] # s} IN
  /\ batch[r] = <<>>
  /\ ready # {}
  /\ \E b \in [1..Min({Limit, Cardinality(ready)}) -> ready] :
       /\ IsInjective(b)
       /\ \A i \in DOMAIN b : \A s \in Rest(b, i) : ~Earlier(row[s], row[b[i]])
       /\ batch' = [batch EXCEPT ![r] =
            [i \in DOMAIN b |-> [name |-> b[i], interval |-> row[b[i]].interval]]]
       /\ row' = [s \in Schedules |->
            IF \E i \in DOMAIN b : b[i] = s THEN Advanced(row[s]) ELSE row[s]]
  /\ age' = [age EXCEPT ![r] = 0]
  /\ UNCHANGED <<edits, late, edited>>

\* The preflight of the first claimed schedule ends, with whatever status, and is
\* recorded; after the last one the call returns.
Record(r) ==
  /\ batch[r] # <<>>
  /\ LET run == Head(batch[r]) IN
       row' = [row EXCEPT ![run.name] = Recorded(@, run.interval, age[r])]
  /\ batch' = [batch EXCEPT ![r] = Tail(@)]
  /\ age' = [age EXCEPT ![r] = IF Tail(batch[r]) = <<>> THEN 0 ELSE @]
  /\ UNCHANGED <<edits, late, edited>>

\* The process ends, or recording raises: the rest of the batch is not run.
Crash(r) ==
  /\ batch[r] # <<>>
  /\ batch' = [batch EXCEPT ![r] = <<>>]
  /\ age' = [age EXCEPT ![r] = 0]
  /\ UNCHANGED <<row, edits, late, edited>>

\* A due time in reach of Record moves exactly; an earlier one makes room for those that
\* come after it.
Passes(d) == \A e \in (d + 1)..(-MaxAge) : \E s \in Schedules : row[s].due = e

\* A minute passes, however long the schedules have been due.
Tick ==
  /\ \A r \in Runners : batch[r] # <<>> => age[r] < MaxAge
  /\ row' = [s \in Schedules |->
       IF row[s].due # Null /\ Passes(row[s].due) THEN [row[s] EXCEPT !.due = @ - 1]
       ELSE row[s]]
  /\ age' = [r \in Runners |-> IF batch[r] = <<>> THEN 0 ELSE age[r] + 1]
  /\ late' = late \union
       {s \in Schedules : \E r \in Runners : \E i \in DOMAIN batch[r] :
          batch[r][i].name = s /\ batch[r][i].interval <= age[r] + 1}
  /\ UNCHANGED <<batch, edits, edited>>

ClaimAny(r) == Claim(r, Schedules)

Next ==
  \/ \E s \in Schedules : Upsert(s)
  \/ \E r \in Runners : \/ ClaimAny(r)
                        \/ Record(r)
                        \/ Crash(r)
  \/ \E r \in Runners \ Cron, s \in Schedules : Claim(r, {s})
  \/ Tick

Spec == Init /\ [][Next]_vars

\* cron runs again and again, and every provider call ends.
FairSpec ==
  /\ Spec
  /\ \A r \in Cron : WF_vars(ClaimAny(r))
  /\ \A r \in Runners : WF_vars(Record(r))

-------------------------------------------------------------------------------
(* Properties *)

\* No two runners run the same schedule at the same time, unless an operator or a
\* call that outlasts the interval interferes with it.
OneRunnerPerSchedule ==
  \A q, r \in Runners :
    q # r => Held(q) \cap Held(r) \subseteq late \union edited

\* Only an operator moves next_run_at back: neither a claim nor the result of an
\* older call makes a schedule due again at a time that was already handed out,
\* unless that call outlasted the interval.
OnlyOperatorsMoveBack ==
  [][\A r \in Runners : batch'[r] # batch[r] =>
       \A s \in Schedules \ (late \union edited) :
         row[s].due # Null => row'[s].due >= row[s].due]_vars

\* A schedule that is due is claimed, however long it has been waiting: also when it
\* stands behind others in a limited batch, these become due again before it has its
\* turn, every runner that claims them crashes, calls take long and operators edit it.
DueIsRun ==
  \A s \in Schedules : IsDue(row[s]) ~> ~IsDue(row[s])

\* "This keeps overlapping cron, API, or UI executions from running the same due
\* schedule twice" (docs/provider_operations_playbook.md, line 41): runs of one
\* schedule that overlap were claimed an interval apart.
SameDueTimeOnce ==
  \A q, r \in Runners : \A i \in DOMAIN batch[q], k \in DOMAIN batch[r] :
    /\ q # r
    /\ batch[q][i].name = batch[r][k].name
    /\ batch[q][i].name \notin edited
    => age[q] # age[r]

===============================================================================
