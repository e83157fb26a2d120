-------------------------- MODULE CollectionLedger --------------------------
(***************************************************************************)
(* What price collection promises, whatever requests and runs overlap: a   *)
(* ledger whose entries are made by atomic steps.  A job is created once   *)
(* per key; a run either fails, leaving the offers as they were, or        *)
(* succeeds, replacing the job's offers and deciding its status and its    *)
(* notification in the same step.  PriceCollection implements it with      *)
(* transactions of several statements.                                     *)
(***************************************************************************)
EXTENDS Integers, Sequences

CONSTANT CompletedOrders

VARIABLES
  jobs,        \* id -> [order, key, status]
  attemptLog,  \* id -> its runs, in order
  results,     \* offers on show
  events       \* notifications owed

ledger == <<jobs, attemptLog, results, events>>

RowsOf(j) == {r \in results : r.job = j}

Init == DOMAIN jobs = {} /\ DOMAIN attemptLog = {} /\ results = {} /\ events = {}

CreateJob(id) ==
  /\ id \notin DOMAIN jobs
  /\ DOMAIN jobs' = DOMAIN jobs \cup {id}
  /\ DOMAIN attemptLog' = DOMAIN jobs'
  /\ jobs'[id].status = "pending" /\ attemptLog'[id] = <<>>
  /\ \A j \in DOMAIN jobs : /\ jobs'[j] = jobs[j]
                            /\ attemptLog'[j] = attemptLog[j]
                            /\ jobs'[j].key # jobs'[id].key
  /\ UNCHANGED <<results, events>>

\* since says how many runs were logged when this one began: those after it overlapped.
LogRun(j, status, verdict, offers) ==
  /\ jobs' = [jobs EXCEPT ![j].status = verdict]
  /\ \E since \in 0 .. Len(attemptLog[j]) :
       attemptLog' = [attemptLog EXCEPT ![j] =
                        Append(@, [status |-> status, offers |-> offers, since |-> since])]

FailRun(j) ==
  /\ LogRun(j, "retryable_failure", "pending", {})
  /\ UNCHANGED <<results, events>>

\* The job's offers are replaced by new ones with ids never seen before.  Of the
\* other jobs of the order, all the offers go or all of them stay: a run that
\* overlaps a run of another job may miss what that one is adding.
SucceedRun(j) ==
  LET new      == results' \ results
      gone     == results \ results'
      eligible == {r \in new : r.eligible}
  IN /\ RowsOf(j) \subseteq gone
     /\ \A r \in gone : r.order = jobs[j].order /\ RowsOf(r.job) \subseteq gone
     /\ \A r \in new : /\ r.job = j /\ r.order = jobs[j].order
                       /\ \A k \in DOMAIN jobs : \A i \in DOMAIN attemptLog[k] :
                            \A s \in attemptLog[k][i].offers : s.id # r.id
     /\ LogRun(j, "success", IF eligible = {} THEN "partial_failed" ELSE "succeeded", new)
     /\ IF eligible = {} \/ jobs[j].order \notin CompletedOrders
        THEN UNCHANGED events
        ELSE \E best \in eligible :
               /\ \A r \in eligible : best.price <= r.price
               /\ events' = events \cup {[order |-> jobs[j].order, job |-> j,
                                          result |-> best.id, price |-> best.price]}

Next ==
  \/ \E id \in DOMAIN jobs' : CreateJob(id)
  \/ \E j \in DOMAIN jobs : FailRun(j) \/ SucceedRun(j)

Spec == Init /\ [][Next]_ledger
=============================================================================
