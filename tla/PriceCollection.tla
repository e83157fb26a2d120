-------------------------- MODULE PriceCollection --------------------------
(***************************************************************************)
(* Lowest-price collection jobs (app/price_collection): HTTP clients that  *)
(* create jobs under an idempotency key, and workers that run them.        *)
(*                                                                         *)
(* Every request and every run is one READ COMMITTED transaction of an     *)
(* ORM session opened with autoflush and expire_on_commit off.  The tables *)
(* jobs, attemptLog, results and events hold committed rows only; what a   *)
(* session has loaded, flushed or queued is in its own record, request[c]  *)
(* or run[w], and reaches the tables when that session commits.            *)
(***************************************************************************)
EXTENDS Integers, Sequences, FiniteSets

CONSTANTS
  Clients,          \* create_job calls; each is made once
  Workers,          \* concurrent run_job callers
  Orders,           \* procurement orders of the tenant
  CompletedOrders,  \* those whose status is "completed" (no operation changes it)
  Requests,         \* what a client may ask: records [order, key]
  Responses,        \* normalised search answers: sequences of Offer
  MaxRuns           \* bound on the runs started

(***************************************************************************)
(* A normalised search item: the part of CanonicalCollectedResult that     *)
(* ranking depends on.  An item without a unit price is not eligible and   *)
(* is stored with price 0 (per_unit_price or Decimal("0.00")).             *)
(***************************************************************************)
Offer == [eligible : BOOLEAN, price : Nat]

ASSUME OrdersAssumption    == CompletedOrders \subseteq Orders
ASSUME ResponsesAssumption == Responses \subseteq Seq(Offer)
ASSUME MaxRunsAssumption   == MaxRuns \in Nat

VARIABLES
  jobs,        \* price_collection_jobs: id -> row
  attemptLog,  \* price_collection_attempts: job id -> entries in commit order
  results,     \* procurement_results whose source_method is "naver_openapi"
  events,      \* notification_outbox_events of collection runs
  jobSeq,      \* the id sequences, which a rollback does not wind back
  resultSeq,
  request,     \* per client: its create_job call
  run,         \* per worker: its run_job call
  started      \* runs started so far

vars == <<jobs, attemptLog, results, events, jobSeq, resultSeq, request, run, started>>

-----------------------------------------------------------------------------
(* Rows *)

\* "running" and "failed" are legal values; no committed row ever has them.
Status == {"pending", "running", "succeeded", "partial_failed", "failed"}

\* What a run may update.  retry stands for last_error_code, last_error_message
\* and next_retry_at, which the code sets and clears together.
Progress == [status : Status, attempts : Nat, retry : BOOLEAN]

Fresh == [status |-> "pending", attempts |-> 0, retry |-> FALSE]

Columns == {"status", "attempts", "retry"}

Job == [order : Orders, key : {q.key : q \in Requests}, progress : Progress]

Row == [id : Nat, order : Orders, job : Nat, eligible : BOOLEAN, price : Nat]

Event == [order : Orders, job : Nat, result : Nat, price : Nat]

\* An attempt row.  As history, the rows its run stored are kept beside it, and
\* how many attempts of its job there were when its run loaded the job.
Entry == [status : {"success", "retryable_failure"}, offers : SUBSET Row, since : Nat]

JobsWithKey(k) == {j \in DOMAIN jobs : jobs[j].key = k}

RowsOf(j) == {r \in results : r.job = j}

Eligible(rows) == {r \in rows : r.eligible}

\* Wrong: the query loses its ORDER BY per_unit_price.
BestByIdOnly(rows) == CHOOSE r \in rows : \A s \in rows : r.id <= s.id

\* ORDER BY per_unit_price ASC, id ASC LIMIT 1
Best(rows) == CHOOSE r \in rows : \A s \in rows :
                r.price < s.price \/ (r.price = s.price /\ r.id <= s.id)

BestEvent(o, j, rows) ==
  [order |-> o, job |-> j, result |-> Best(rows).id, price |-> Best(rows).price]

-----------------------------------------------------------------------------
(* Sessions *)

RequestState ==
  [pc : {"idle", "missed", "inserted", "conflict", "found",
         "created", "reused", "not_found", "aborted"},
   q : Requests, id : Nat]

\* row is the job as this session's identity map has it, dirty the columns
\* it has put in an UPDATE, existing the rows it is replacing, and inserted,
\* entry and event the rows it adds; since is history.
RunState ==
  [pc : {"idle", "loaded", "searching", "replacing", "finishing", "flushed"},
   job : Nat, row : Progress, dirty : SUBSET Columns,
   existing : SUBSET Row, inserted : SUBSET Row,
   entry : {"none", "success", "retryable_failure"}, event : SUBSET Event, since : Nat]

NoRun == [pc |-> "idle", job |-> 0, row |-> Fresh, dirty |-> {}, existing |-> {},
          inserted |-> {}, entry |-> "none", event |-> {}, since |-> 0]

\* The columns a flush writes: those whose value is not the one the session
\* loaded or last flushed.
Changed(old, new) == {c \in Columns : new[c] # old[c]}

\* Wrong: the row is locked from the first read on, by every reader.
LocksOnLoad(w, j) == run[w].job = j /\ run[w].pc # "idle"

\* The UPDATE of "running" locks the job's row until the session ends.
Locks(w, j) == run[w].job = j /\ run[w].pc \notin {"idle", "loaded"}

\* DELETE locks the rows it removes until the session ends.
Deletes(w) == IF run[w].pc \in {"finishing", "flushed"} THEN run[w].existing ELSE {}

\* The result rows session w sees: the committed ones and its own changes.
View(w) == (results \ Deletes(w)) \cup run[w].inserted

TypeOK ==
  /\ DOMAIN jobs \subseteq 1..jobSeq
  /\ jobs \in [DOMAIN jobs -> Job]
  /\ attemptLog \in [DOMAIN jobs -> Seq(Entry)]
  /\ results \subseteq Row
  /\ events \subseteq Event
  /\ jobSeq \in Nat
  /\ resultSeq \in Nat
  /\ request \in [Clients -> RequestState]
  /\ run \in [Workers -> RunState]
  /\ started \in 0..MaxRuns

Init ==
  /\ jobs = <<>>
  /\ attemptLog = <<>>
  /\ results = {}
  /\ events = {}
  /\ jobSeq = 0
  /\ resultSeq = 0
  /\ request \in [Clients -> [pc : {"idle"}, q : Requests, id : {0}]]
  /\ run = [w \in Workers |-> NoRun]
  /\ started = 0

-----------------------------------------------------------------------------
(* POST /orders/{id}/collect: look up, insert, recover, commit, answer *)

RequestStep(c, from, to, id) ==
  /\ request[c].pc = from
  /\ request' = [request EXCEPT ![c].pc = to, ![c].id = id]
  /\ UNCHANGED <<attemptLog, results, events, resultSeq, run, started>>

OrderMissing(c) ==
  /\ request[c].q.order \notin Orders
  /\ RequestStep(c, "idle", "not_found", 0)
  /\ UNCHANGED <<jobs, jobSeq>>

\* The first SELECT by idempotency key, which names neither tenant nor order.
LookUpJob(c) ==
  /\ request[c].q.order \in Orders
  /\ \/ /\ JobsWithKey(request[c].q.key) = {}
        /\ RequestStep(c, "idle", "missed", 0)
     \/ \E j \in JobsWithKey(request[c].q.key) : RequestStep(c, "idle", "found", j)
  /\ UNCHANGED <<jobs, jobSeq>>

\* An INSERT waits for every uncommitted row with the same unique key.
KeyInFlight(c) ==
  \E d \in Clients \ {c} :
    request[d].pc = "inserted" /\ request[d].q.key = request[c].q.key

\* Wrong: idempotency_key without its unique constraint.
InsertWithoutConstraint(c) ==
  /\ jobSeq' = jobSeq + 1
  /\ RequestStep(c, "missed", "inserted", jobSeq')
  /\ UNCHANGED jobs

InsertJob(c) ==
  /\ ~KeyInFlight(c)
  /\ JobsWithKey(request[c].q.key) = {}
  /\ jobSeq' = jobSeq + 1
  /\ RequestStep(c, "missed", "inserted", jobSeq')
  /\ UNCHANGED jobs

\* IntegrityError: the session is rolled back and looks the key up again.
InsertConflicts(c) ==
  /\ ~KeyInFlight(c)
  /\ JobsWithKey(request[c].q.key) # {}
  /\ RequestStep(c, "missed", "conflict", 0)
  /\ UNCHANGED <<jobs, jobSeq>>

\* The handler would re-raise if the second lookup missed, which cannot happen:
\* the row that caused the conflict is committed, and jobs are never deleted.
RecoverJob(c) ==
  /\ \E j \in JobsWithKey(request[c].q.key) : RequestStep(c, "conflict", "found", j)
  /\ UNCHANGED <<jobs, jobSeq>>

\* 201 for the caller that created the job, 200 for every other one.
AnswerFound(c) ==
  /\ RequestStep(c, "found", "reused", request[c].id)
  /\ UNCHANGED <<jobs, jobSeq>>

CommitJob(c) ==
  LET id == request[c].id
      job == [order |-> request[c].q.order, key |-> request[c].q.key, progress |-> Fresh]
  IN /\ request[c].pc = "inserted"
     /\ jobs' = [j \in DOMAIN jobs \cup {id} |-> IF j = id THEN job ELSE jobs[j]]
     /\ attemptLog' = [j \in DOMAIN jobs \cup {id} |-> IF j = id THEN <<>> ELSE attemptLog[j]]
     /\ request' = [request EXCEPT ![c].pc = "created"]
     /\ UNCHANGED <<results, events, jobSeq, resultSeq, run, started>>

\* The client disconnects or the process dies: the session is closed, which
\* rolls back whatever it had inserted.
AbortRequest(c) ==
  /\ request[c].pc \in {"missed", "inserted", "conflict", "found"}
  /\ RequestStep(c, request[c].pc, "aborted", 0)
  /\ UNCHANGED <<jobs, jobSeq>>

-----------------------------------------------------------------------------
(* run_job *)

SetRun(w, r) ==
  /\ run' = [run EXCEPT ![w] = r]
  /\ UNCHANGED <<jobs, attemptLog, jobSeq, request>>

\* Flushing the job after setting its columns to new.
Flushed(w, new) ==
  [run[w] EXCEPT !.row = new, !.dirty = @ \cup Changed(run[w].row, new)]

\* SELECT takes no lock: two workers may load the same job.
LoadJob(w, j) ==
  /\ run[w].pc = "idle"
  /\ started < MaxRuns
  /\ started' = started + 1
  /\ SetRun(w, [NoRun EXCEPT !.pc = "loaded", !.job = j, !.row = jobs[j].progress,
                         !.since = Len(attemptLog[j])])
  /\ UNCHANGED <<results, events, resultSeq>>

\* Wrong: the attempt is counted when the run starts, and again when it ends.
MarkRunningCounts(w) ==
  /\ run[w].pc = "loaded"
  /\ \A v \in Workers : ~Locks(v, run[w].job)
  /\ SetRun(w, [Flushed(w, [status |-> "running", attempts |-> run[w].row.attempts + 1,
                            retry |-> FALSE]) EXCEPT !.pc = "searching"])
  /\ UNCHANGED <<results, events, resultSeq, started>>

\* Wrong: the error columns are left to the end of the run, which sets them if
\* it fails and does not touch them if it succeeds.
MarkRunningOnly(w) ==
  /\ run[w].pc = "loaded"
  /\ \A v \in Workers : ~Locks(v, run[w].job)
  /\ SetRun(w, [Flushed(w, [run[w].row EXCEPT !.status = "running"]) EXCEPT !.pc = "searching"])
  /\ UNCHANGED <<results, events, resultSeq, started>>

\* status = "running", errors and next_retry_at cleared, attempts left alone.
MarkRunning(w) ==
  /\ run[w].pc = "loaded"
  /\ \A v \in Workers : ~Locks(v, run[w].job)
  /\ SetRun(w, [Flushed(w, [run[w].row EXCEPT !.status = "running", !.retry = FALSE])
                  EXCEPT !.pc = "searching"])
  /\ UNCHANGED <<results, events, resultSeq, started>>

\* NaverClientTimeoutError or NaverClientRateLimitError.
SearchFails(w) ==
  /\ run[w].pc = "searching"
  /\ SetRun(w, [Flushed(w, [status |-> "pending", attempts |-> run[w].row.attempts + 1,
                            retry |-> TRUE])
                  EXCEPT !.pc = "flushed", !.entry = "retryable_failure"])
  /\ UNCHANGED <<results, events, resultSeq, started>>

\* Wrong: only the rows of this job are replaced, not those of its order.
SelectOwnRows(w) ==
  /\ run[w].pc = "searching"
  /\ SetRun(w, [run[w] EXCEPT !.pc = "replacing", !.existing = RowsOf(run[w].job)])
  /\ UNCHANGED <<results, events, resultSeq, started>>

\* The search answers; the order's canonical rows, of whichever job, are
\* selected for replacement.
SelectExisting(w) ==
  /\ run[w].pc = "searching"
  /\ SetRun(w, [run[w] EXCEPT !.pc = "replacing",
                              !.existing = {r \in results : r.order = jobs[run[w].job].order}])
  /\ UNCHANGED <<results, events, resultSeq, started>>

NewRows(j, offers) ==
  {[id |-> resultSeq + i, order |-> jobs[j].order, job |-> j,
    eligible |-> offers[i].eligible, price |-> offers[i].price] : i \in DOMAIN offers}

\* DELETE the selected rows, waiting for a session that is deleting one of
\* them (a row that is gone by then is passed over), and INSERT the offers.
ReplaceRows(w) ==
  /\ run[w].pc = "replacing"
  /\ \A v \in Workers \ {w} : Deletes(v) \cap run[w].existing = {}
  /\ \E offers \in Responses :
       /\ SetRun(w, [run[w] EXCEPT !.pc = "finishing",
                                   !.inserted = NewRows(run[w].job, offers)])
       /\ resultSeq' = resultSeq + Len(offers)
  /\ UNCHANGED <<results, events, started>>

Verdict(rows) == IF Eligible(rows) # {} THEN "succeeded" ELSE "partial_failed"

\* Wrong: eligible results are looked up by order instead of by job.
FinishByOrder(w) ==
  LET mine == {r \in View(w) : r.order = jobs[run[w].job].order}
  IN /\ run[w].pc = "finishing"
     /\ SetRun(w, [Flushed(w, [run[w].row EXCEPT !.status = Verdict(mine), !.attempts = @ + 1])
                     EXCEPT !.pc = "flushed", !.entry = "success"])
     /\ UNCHANGED <<results, events, resultSeq, started>>

\* Wrong: the outbox event is committed by a session of its own.
FinishOutsideTransaction(w) ==
  LET mine == {r \in View(w) : r.job = run[w].job}
  IN /\ run[w].pc = "finishing"
     /\ SetRun(w, [Flushed(w, [run[w].row EXCEPT !.status = Verdict(mine), !.attempts = @ + 1])
                     EXCEPT !.pc = "flushed", !.entry = "success"])
     /\ events' = IF Eligible(mine) = {} THEN events
                  ELSE events \cup {BestEvent(jobs[run[w].job].order, run[w].job, Eligible(mine))}
     /\ UNCHANGED <<results, resultSeq, started>>

\* Final status, attempt row, and the outbox event of a completed order.
FinishRun(w) ==
  LET j    == run[w].job
      o    == jobs[j].order
      mine == {r \in View(w) : r.job = j}
  IN /\ run[w].pc = "finishing"
     /\ SetRun(w, [Flushed(w, [run[w].row EXCEPT !.status = Verdict(mine), !.attempts = @ + 1])
                     EXCEPT !.pc = "flushed", !.entry = "success",
                            !.event = IF o \in CompletedOrders /\ Eligible(mine) # {}
                                      THEN {BestEvent(o, j, Eligible(mine))} ELSE {}])
     /\ UNCHANGED <<results, events, resultSeq, started>>

\* The committed row keeps every column the session did not write.
Overlay(old, r) ==
  [status   |-> IF "status" \in r.dirty THEN r.row.status ELSE old.status,
   attempts |-> IF "attempts" \in r.dirty THEN r.row.attempts ELSE old.attempts,
   retry    |-> IF "retry" \in r.dirty THEN r.row.retry ELSE old.retry]

CommitRun(w) ==
  LET r == run[w] IN
  /\ r.pc = "flushed"
  /\ jobs' = [jobs EXCEPT ![r.job].progress = Overlay(@, r)]
  /\ attemptLog' = [attemptLog EXCEPT ![r.job] =
                      Append(@, [status |-> r.entry, offers |-> r.inserted, since |-> r.since])]
  /\ results' = View(w)
  /\ events' = events \cup r.event
  /\ run' = [run EXCEPT ![w] = NoRun]
  /\ UNCHANGED <<jobSeq, resultSeq, request, started>>

\* Any other exception (a 4xx or malformed answer, a template that does not
\* render), a lost connection or a crash: the transaction is rolled back.
AbortRun(w) ==
  /\ run[w].pc # "idle"
  /\ SetRun(w, NoRun)
  /\ UNCHANGED <<results, events, resultSeq, started>>

-----------------------------------------------------------------------------

ClientStep(c) ==
  \/ OrderMissing(c) \/ LookUpJob(c) \/ InsertJob(c) \/ InsertConflicts(c)
  \/ RecoverJob(c) \/ AnswerFound(c) \/ CommitJob(c)

WorkerStep(w) ==
  \/ MarkRunning(w) \/ SearchFails(w) \/ SelectExisting(w) \/ ReplaceRows(w)
  \/ FinishRun(w) \/ CommitRun(w)

Next ==
  \/ \E c \in Clients : ClientStep(c) \/ AbortRequest(c)
  \/ \E w \in Workers : WorkerStep(w) \/ AbortRun(w) \/ \E j \in DOMAIN jobs : LoadJob(w, j)

Spec == Init /\ [][Next]_vars

\* A call that has begun and can take its next step takes it: the event loop runs
\* every ready task, the search has a timeout, and a lock is granted once released.
\* Nothing obliges anybody to send a request, to call run_job or to abort.
FairSpec == Spec /\ (\A c \in Clients : WF_vars(request[c].pc # "idle" /\ ClientStep(c)))
                 /\ (\A w \in Workers : WF_vars(WorkerStep(w)))

-----------------------------------------------------------------------------
(* Properties *)

\* An idempotency key names one job for ever: whoever used it was answered with
\* that job, and at most one caller was told it created it, however the
\* lookups, inserts and rollbacks of concurrent requests interleave.
IdempotentCreation ==
  /\ \A i, j \in DOMAIN jobs : jobs[i].key = jobs[j].key => i = j
  /\ \A c \in Clients : request[c].pc \in {"created", "reused"} =>
       request[c].id \in JobsWithKey(request[c].q.key)
  /\ \A c, d \in Clients :
       request[c].pc = "created" /\ request[d].pc = "created"
         /\ request[c].q.key = request[d].q.key => c = d

LastEntry(j) == attemptLog[j][Len(attemptLog[j])]

\* A committed status is the outcome of the job's last committed run, also when
\* runs of one job overlap, and no committed row is left "running".
StatusIsLastOutcome ==
  \A j \in DOMAIN jobs :
    jobs[j].progress.status =
      IF attemptLog[j] = <<>> \/ LastEntry(j).status = "retryable_failure"
      THEN "pending" ELSE Verdict(LastEntry(j).offers)

Successes(j) == {i \in DOMAIN attemptLog[j] : attemptLog[j][i].status = "success"}

\* Transactional outbox: the committed events are exactly one per successful run
\* with an eligible offer on a completed order, and each names the cheapest
\* eligible offer of its own run.
EventsOfSuccesses ==
  LET Owed == {x \in UNION {{j} \X Successes(j) : j \in DOMAIN jobs} :
                 /\ jobs[x[1]].order \in CompletedOrders
                 /\ Eligible(attemptLog[x[1]][x[2]].offers) # {}}
      Answers(e, x) == LET offers == Eligible(attemptLog[x[1]][x[2]].offers) IN
        /\ e.job = x[1]
        /\ e.order = jobs[x[1]].order
        /\ \E r \in offers : r.id = e.result /\ r.price = e.price
        /\ \A r \in offers : e.price <= r.price
  IN /\ \A x \in Owed : Cardinality({e \in events : Answers(e, x)}) = 1
     /\ \A e \in events : \E x \in Owed : Answers(e, x)

\* attempts is written from a value read before the row lock: overlapping runs
\* lose increments, but it never exceeds the runs logged and, once a run is
\* logged, never falls back to zero.
AttemptsWithinLog ==
  \A j \in DOMAIN jobs :
    /\ jobs[j].progress.attempts <= Len(attemptLog[j])
    /\ attemptLog[j] # <<>> => jobs[j].progress.attempts >= 1

\* The error and the retry time of a job are there if its last run failed, and
\* otherwise only because of a failure that every run which succeeded after it had
\* overlapped: a success clears the failures logged before it loaded the job, though
\* it writes these columns only if it had loaded them set.
ErrorsAreRecent ==
  \A j \in DOMAIN jobs : LET log == attemptLog[j] IN
    /\ log # <<>> /\ LastEntry(j).status = "retryable_failure" => jobs[j].progress.retry
    /\ jobs[j].progress.retry =>
         \E i \in DOMAIN log :
           /\ log[i].status = "retryable_failure"
           /\ \A k \in DOMAIN log : k > i => log[k].since < i

\* The canonical rows of an order are those of one job.
OneJobPerOrderRows ==
  \A r, s \in results : r.order = s.order => r.job = s.job

\* Every commit of a request or a run is one step of the ledger, and every
\* other step of a session is invisible to it.
Ledger == INSTANCE CollectionLedger WITH
  jobs <- [j \in DOMAIN jobs |-> [order  |-> jobs[j].order, key |-> jobs[j].key,
                                  status |-> jobs[j].progress.status]]
ImplementsLedger == Ledger!Spec

\* Every create_job call that began ends and so does every run: waiting for a
\* unique key, a job row or rows being deleted is never waiting for ever.
CallsEnd ==
  /\ \A c \in Clients :
       request[c].pc # "idle" ~> request[c].pc \in {"created", "reused", "not_found", "aborted"}
  /\ \A w \in Workers : run[w].pc # "idle" ~> run[w].pc = "idle"
=============================================================================
