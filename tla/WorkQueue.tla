------------------------------- MODULE WorkQueue -------------------------------
(***************************************************************************)
(* What the two job queues of the platform promise to the rest of it:      *)
(* items are worked on by one worker at a time, at most Budget times, and  *)
(* an item whose worker disappeared is handed to another one while its     *)
(* budget lasts.  Rows, leases, transactions and stages are not visible    *)
(* here.  PipelineWorker and EmbeddingWorker implement this module.        *)
(***************************************************************************)
EXTENDS Naturals

CONSTANTS Items, Workers, Budget, NoOne

VARIABLES place,   \* where each item is
          worker,  \* who works on it
          tries    \* how often it was handed out

vars == <<place, worker, tries>>

Place == {"absent", "waiting", "working", "lost", "done", "failed", "dropped"}

TypeOK ==
  /\ place \in [Items -> Place]
  /\ worker \in [Items -> Workers \union {NoOne}]
  /\ tries \in [Items -> 0..Budget]

Init ==
  /\ place = [i \in Items |-> "absent"]
  /\ worker = [i \in Items |-> NoOne]
  /\ tries = [i \in Items |-> 0]

Idle(w) == \A i \in Items : worker[i] # w

Moved(i, from, to) == /\ place[i] = from
                      /\ place' = [place EXCEPT ![i] = to]

\* Several items may be submitted, and items they replace dropped, in one step.
Submit(new, dropped) ==
  /\ \A i \in new : place[i] = "absent"
  /\ place' = [i \in Items |-> IF i \in new THEN "waiting"
                               ELSE IF i \in dropped THEN "dropped" ELSE place[i]]
  /\ worker' = [i \in Items |-> IF i \in dropped THEN NoOne ELSE worker[i]]
  /\ tries' = [i \in Items |-> IF i \in dropped THEN 0 ELSE tries[i]]

Assign(i, w) ==
  /\ Idle(w)
  /\ place[i] \in {"waiting", "lost"}
  /\ tries[i] < Budget
  /\ place' = [place EXCEPT ![i] = "working"]
  /\ worker' = [worker EXCEPT ![i] = w]
  /\ tries' = [tries EXCEPT ![i] = @ + 1]

Finish(i) == /\ \E to \in {"done", "failed", "lost"} : Moved(i, "working", to)
             /\ worker' = [worker EXCEPT ![i] = NoOne]
             /\ UNCHANGED tries

\* By hand: only what has a try left goes back.
Resubmit(i) == /\ Moved(i, "failed", "waiting") \/ Moved(i, "lost", "waiting")
               /\ tries[i] < Budget
               /\ UNCHANGED <<worker, tries>>

Next ==
  \/ \E new, dropped \in SUBSET Items : Submit(new, dropped)
  \/ \E i \in Items, w \in Workers : Assign(i, w)
  \/ \E i \in Items : Finish(i) \/ Resubmit(i)

Spec == Init /\ [][Next]_vars

===============================================================================
