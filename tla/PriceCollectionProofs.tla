----------------------- MODULE PriceCollectionProofs -----------------------
(***************************************************************************)
(* Machine-checked theorems about PriceCollection, for every set of        *)
(* clients and workers, every set of responses and every bound: one job a  *)
(* key; what overlapping, failing and crashing runs leave in the tables is *)
(* what the log of committed runs says, errors included; the whole         *)
(* implements CollectionLedger; and runs one after another leave one job's *)
(* rows.                                                                   *)
(***************************************************************************)
EXTENDS PriceCollection, FiniteSetTheorems, WellFoundedInduction, SequenceTheorems, TLAPS

-----------------------------------------------------------------------------
(* The cheapest row *)

\* A nonempty set of naturals has a least element.
LEMMA LeastNat ==
  ASSUME NEW T, T \subseteq Nat, T # {}
  PROVE  \E x \in T : \A y \in T : x <= y
<1> DEFINE R == {ss \in Nat \X Nat : ss[1] < ss[2]}
<1>1. IsWellFoundedOn(R, Nat)
  BY NatLessThanWellFounded DEF OpToRel
<1> HIDE DEF R
<1>2. PICK x \in T : \A y \in T : ~ (<<y, x>> \in R)
  BY <1>1, WFMin
<1>3. \A y \in T : ~(y < x)
  BY <1>2 DEF R
<1>4. QED
  BY <1>3

\* The CHOOSE of Best is never vacuous: ORDER BY ... LIMIT 1 over a nonempty
\* set of rows returns one of them, and none of them is cheaper.
LEMMA BestIsCheapest ==
  ASSUME NEW rows, rows \subseteq Row, rows # {}
  PROVE  /\ Best(rows) \in rows
         /\ \A r \in rows : Best(rows).price <= r.price
<1>1. PICK p \in {r.price : r \in rows} : \A q \in {r.price : r \in rows} : p <= q
  <2>1. {r.price : r \in rows} \subseteq Nat /\ {r.price : r \in rows} # {}
    BY DEF Row
  <2>2. QED
    BY <2>1, LeastNat
<1> DEFINE cheap == {r \in rows : r.price = p}
<1>2. PICK i \in {r.id : r \in cheap} : \A k \in {r.id : r \in cheap} : i <= k
  <2>1. {r.id : r \in cheap} \subseteq Nat /\ {r.id : r \in cheap} # {}
    BY DEF Row
  <2>2. QED
    BY <2>1, LeastNat
<1>3. PICK b \in cheap : b.id = i
  BY <1>2
<1>4. \A s \in rows : b.price < s.price \/ (b.price = s.price /\ b.id <= s.id)
  <2> SUFFICES ASSUME NEW s \in rows
               PROVE  b.price < s.price \/ (b.price = s.price /\ b.id <= s.id)
    OBVIOUS
  <2>1. b.price = p /\ p <= s.price /\ p \in Nat /\ s.price \in Nat
    BY <1>1, <1>3 DEF Row
  <2>2. CASE s.price = p
    BY <1>2, <1>3, <2>1, <2>2
  <2>3. CASE s.price # p
    BY <2>1, <2>3
  <2>4. QED
    BY <2>2, <2>3
<1>5. /\ Best(rows) \in rows
      /\ \A s \in rows : \/ Best(rows).price < s.price
                         \/ Best(rows).price = s.price /\ Best(rows).id <= s.id
  BY <1>3, <1>4 DEF Best
<1>6. QED
  BY <1>5 DEF Row

-----------------------------------------------------------------------------
(* Types *)

\* What the types alone do not say: sessions refer to jobs that exist, and a
\* session that is about to commit a run has an outcome to log.
RefsOK ==
  /\ \A c \in Clients : request[c].pc = "inserted" =>
       request[c].id \in 1..jobSeq /\ request[c].q.order \in Orders
  /\ \A c \in Clients : request[c].pc = "missed" => request[c].q.order \in Orders
  /\ \A w \in Workers : run[w].pc # "idle" => run[w].job \in DOMAIN jobs
  /\ \A w \in Workers : run[w].pc = "flushed" => run[w].entry # "none"

TypeInv == TypeOK /\ RefsOK

USE DEF Columns

LEMMA InitTypeInv == Init => TypeInv
BY MaxRunsAssumption DEF Init, TypeInv, TypeOK, RefsOK, RequestState, RunState, NoRun, Fresh, Progress, Status

\* A step of create_job that commits nothing and inserts nothing.
LEMMA RequestStepTypes ==
  ASSUME TypeInv, NEW c \in Clients, NEW from, NEW to, NEW id \in Nat,
         RequestStep(c, from, to, id), UNCHANGED <<jobs, jobSeq>>,
         to \in {"missed", "conflict", "found", "reused", "not_found", "aborted"},
         to = "missed" => request[c].q.order \in Orders
  PROVE  TypeInv'
<1>1. /\ request' \in [Clients -> RequestState]
      /\ request'[c].pc = to /\ request'[c].q = request[c].q
      /\ \A d \in Clients \ {c} : request'[d] = request[d]
      /\ UNCHANGED <<attemptLog, results, events, resultSeq, run, started>>
  BY DEF TypeInv, TypeOK, RequestStep, RequestState
<1>2. TypeOK'
  BY <1>1 DEF TypeInv, TypeOK
<1>3. RefsOK'
  <2>1. ASSUME NEW d \in Clients
        PROVE  /\ request'[d].pc = "inserted" => request'[d].id \in 1..jobSeq'
                                                /\ request'[d].q.order \in Orders
               /\ request'[d].pc = "missed" => request'[d].q.order \in Orders
    BY <1>1 DEF TypeInv, RefsOK
  <2>2. ASSUME NEW w \in Workers
        PROVE  /\ run'[w].pc # "idle" => run'[w].job \in DOMAIN jobs'
               /\ run'[w].pc = "flushed" => run'[w].entry # "none"
    BY <1>1 DEF TypeInv, RefsOK
  <2>3. QED
    BY <2>1, <2>2 DEF RefsOK
<1>4. QED
  BY <1>2, <1>3 DEF TypeInv

\* A step of run_job that commits nothing.
LEMMA RunStepTypes ==
  ASSUME TypeInv, NEW w \in Workers, NEW r \in RunState, SetRun(w, r),
         r.pc # "idle" => r.job \in DOMAIN jobs,
         r.pc = "flushed" => r.entry # "none",
         UNCHANGED <<results, events>>, resultSeq' \in Nat, started' \in 0..MaxRuns
  PROVE  TypeInv'
<1>1. /\ run' \in [Workers -> RunState]
      /\ run'[w] = r
      /\ \A v \in Workers \ {w} : run'[v] = run[v]
      /\ UNCHANGED <<jobs, attemptLog, jobSeq, request>>
  BY DEF TypeInv, TypeOK, SetRun
<1>2. TypeOK'
  BY <1>1 DEF TypeInv, TypeOK
<1>3. RefsOK'
  BY <1>1 DEF TypeInv, RefsOK
<1>4. QED
  BY <1>2, <1>3 DEF TypeInv

\* Flushing well-typed progress leaves the session well-typed.
LEMMA FlushedTyped ==
  ASSUME TypeOK, NEW w \in Workers, NEW new \in Progress
  PROVE  /\ Flushed(w, new) \in RunState
         /\ Flushed(w, new).row = new
         /\ Flushed(w, new).job = run[w].job
         /\ Flushed(w, new).pc = run[w].pc
<1>1. run[w] \in RunState /\ Changed(run[w].row, new) \subseteq Columns
  BY DEF TypeOK, Changed
<1>2. QED
  BY <1>1 DEF Flushed, RunState

\* Closing a session's flush with an outcome leaves it well-typed.
LEMMA OutcomeTyped ==
  ASSUME NEW f \in RunState, NEW e \in {"success", "retryable_failure"},
         NEW ev \in SUBSET Event
  PROVE  /\ [f EXCEPT !.pc = "flushed", !.entry = e] \in RunState
         /\ [f EXCEPT !.pc = "flushed", !.entry = e].job = f.job
         /\ [f EXCEPT !.pc = "flushed", !.entry = e].entry = e
         /\ [f EXCEPT !.pc = "flushed", !.entry = e, !.event = ev] \in RunState
         /\ [f EXCEPT !.pc = "flushed", !.entry = e, !.event = ev].job = f.job
         /\ [f EXCEPT !.pc = "flushed", !.entry = e, !.event = ev].entry = e
BY DEF RunState

\* The effect of RequestStep on the requests.
LEMMA RequestMoves ==
  ASSUME TypeOK, NEW c \in Clients, NEW from, NEW id \in Nat,
         NEW to \in {"missed", "inserted", "conflict", "found", "created",
                     "reused", "not_found", "aborted"},
         RequestStep(c, from, to, id)
  PROVE  /\ request' \in [Clients -> RequestState]
         /\ request[c].pc = from
         /\ request'[c].pc = to /\ request'[c].q = request[c].q /\ request'[c].id = id
         /\ \A d \in Clients \ {c} : request'[d] = request[d]
         /\ UNCHANGED <<attemptLog, results, events, resultSeq, run, started>>
BY DEF TypeOK, RequestStep, RequestState

LEMMA StepTypeInv == TypeInv /\ [Next]_vars => TypeInv'
<1> SUFFICES ASSUME TypeInv, [Next]_vars
             PROVE  TypeInv'
  OBVIOUS
<1>a. ASSUME NEW c \in Clients
      PROVE  request[c] \in RequestState /\ request[c].id \in Nat
  BY DEF TypeInv, TypeOK, RequestState
<1>b. \A j \in DOMAIN jobs : j \in Nat /\ jobs[j] \in Job /\ jobs[j].progress \in Progress
  BY DEF TypeInv, TypeOK, Job
<1>c. ASSUME NEW w \in Workers
      PROVE  /\ run[w] \in RunState
             /\ run[w].pc # "idle" => run[w].job \in DOMAIN jobs
  BY DEF TypeInv, TypeOK, RefsOK
<1>d. /\ resultSeq \in Nat /\ started \in 0..MaxRuns
      /\ UNCHANGED <<resultSeq, started>> => resultSeq' \in Nat /\ started' \in 0..MaxRuns
  BY DEF TypeInv, TypeOK
<1>1. ASSUME NEW c \in Clients, OrderMissing(c) PROVE TypeInv'
  BY <1>1, RequestStepTypes DEF OrderMissing
<1>2. ASSUME NEW c \in Clients, LookUpJob(c) PROVE TypeInv'
  <2>1. CASE RequestStep(c, "idle", "missed", 0)
    BY <1>2, <2>1, RequestStepTypes DEF LookUpJob
  <2>2. ASSUME NEW j \in DOMAIN jobs, RequestStep(c, "idle", "found", j) PROVE TypeInv'
    BY <1>2, <1>b, <2>2, RequestStepTypes DEF LookUpJob
  <2>3. QED
    BY <1>2, <2>1, <2>2 DEF LookUpJob, JobsWithKey
<1>3. ASSUME NEW c \in Clients, InsertJob(c) PROVE TypeInv'
  <2>1. /\ request' \in [Clients -> RequestState]
        /\ request'[c].id = jobSeq + 1 /\ request'[c].q = request[c].q
        /\ request'[c].pc = "inserted" /\ request[c].pc = "missed"
        /\ \A d \in Clients \ {c} : request'[d] = request[d]
        /\ jobSeq' = jobSeq + 1 /\ jobSeq \in Nat
        /\ UNCHANGED <<jobs, attemptLog, results, events, resultSeq, run, started>>
    <3>1. jobSeq \in Nat /\ TypeOK
      BY DEF TypeInv, TypeOK
    <3>2. /\ jobSeq' = jobSeq + 1 /\ UNCHANGED jobs
          /\ RequestStep(c, "missed", "inserted", jobSeq + 1)
      BY <1>3 DEF InsertJob
    <3>3. QED
      BY <3>1, <3>2, RequestMoves
  <2>2. TypeOK'
    BY <2>1 DEF TypeInv, TypeOK
  <2>3. RefsOK'
    BY <2>1 DEF TypeInv, RefsOK
  <2>4. QED
    BY <2>2, <2>3 DEF TypeInv
<1>4. ASSUME NEW c \in Clients, InsertConflicts(c) PROVE TypeInv'
  BY <1>4, RequestStepTypes DEF InsertConflicts
<1>5. ASSUME NEW c \in Clients, RecoverJob(c) PROVE TypeInv'
  <2>1. PICK j \in DOMAIN jobs : RequestStep(c, "conflict", "found", j)
    BY <1>5 DEF RecoverJob, JobsWithKey
  <2>2. QED
    BY <1>5, <1>b, <2>1, RequestStepTypes DEF RecoverJob
<1>6. ASSUME NEW c \in Clients, AnswerFound(c) PROVE TypeInv'
  BY <1>6, <1>a, RequestStepTypes DEF AnswerFound
<1>7. ASSUME NEW c \in Clients, CommitJob(c) PROVE TypeInv'
  <2> DEFINE id  == request[c].id
             job == [order |-> request[c].q.order, key |-> request[c].q.key,
                     progress |-> Fresh]
  <2>1. job \in Job /\ id \in 1..jobSeq
    BY <1>7, <1>a DEF CommitJob, TypeInv, RefsOK, RequestState, Job, Progress, Fresh, Status
  <2>2. /\ jobs' = [j \in DOMAIN jobs \cup {id} |-> IF j = id THEN job ELSE jobs[j]]
        /\ attemptLog' = [j \in DOMAIN jobs \cup {id} |-> IF j = id THEN <<>> ELSE attemptLog[j]]
        /\ request' = [request EXCEPT ![c].pc = "created"]
        /\ UNCHANGED <<results, events, jobSeq, resultSeq, run, started>>
    BY <1>7 DEF CommitJob
  <2>3. /\ jobs' \in [DOMAIN jobs' -> Job] /\ DOMAIN jobs' = DOMAIN jobs \cup {id}
        /\ DOMAIN jobs' \subseteq 1..jobSeq'
    BY <2>1, <2>2 DEF TypeInv, TypeOK
  <2>4. attemptLog' \in [DOMAIN jobs' -> Seq(Entry)]
    BY <2>2, <2>3 DEF TypeInv, TypeOK
  <2>5. /\ request' \in [Clients -> RequestState]
        /\ request'[c].pc = "created"
        /\ \A d \in Clients \ {c} : request'[d] = request[d]
    BY <2>2 DEF TypeInv, TypeOK, RequestState
  <2>6. TypeOK'
    BY <2>2, <2>3, <2>4, <2>5 DEF TypeInv, TypeOK
  <2>7. RefsOK'
    BY <2>2, <2>3, <2>5 DEF TypeInv, RefsOK
  <2>8. QED
    BY <2>6, <2>7 DEF TypeInv
<1>8. ASSUME NEW c \in Clients, AbortRequest(c) PROVE TypeInv'
  BY <1>8, RequestStepTypes DEF AbortRequest
<1>9. ASSUME NEW w \in Workers, NEW j \in DOMAIN jobs, LoadJob(w, j) PROVE TypeInv'
  <2> DEFINE r == [NoRun EXCEPT !.pc = "loaded", !.job = j, !.row = jobs[j].progress,
                                !.since = Len(attemptLog[j])]
  <2>0. Len(attemptLog[j]) \in Nat
    BY DEF TypeInv, TypeOK
  <2>1. r \in RunState /\ r.job = j /\ r.pc = "loaded"
    BY <1>b, <2>0 DEF RunState, NoRun
  <2>2. started' \in 0..MaxRuns
    BY <1>9, <1>d, MaxRunsAssumption DEF LoadJob
  <2>3. QED
    BY <1>9, <1>d, <2>1, <2>2, RunStepTypes DEF LoadJob
<1>10. ASSUME NEW w \in Workers, MarkRunning(w) PROVE TypeInv'
  <2> DEFINE new == [run[w].row EXCEPT !.status = "running", !.retry = FALSE]
             r   == [Flushed(w, new) EXCEPT !.pc = "searching"]
  <2>1. new \in Progress
    BY ZenonT(60), <1>c DEF RunState, Progress, Status
  <2>2. r \in RunState /\ r.job = run[w].job /\ r.pc = "searching"
    BY <2>1, FlushedTyped DEF TypeInv, RunState
  <2>3. QED
    BY <1>10, <1>c, <1>d, <2>2, RunStepTypes DEF MarkRunning
<1>11. ASSUME NEW w \in Workers, SearchFails(w) PROVE TypeInv'
  <2> DEFINE new == [status |-> "pending", attempts |-> run[w].row.attempts + 1, retry |-> TRUE]
             r   == [Flushed(w, new) EXCEPT !.pc = "flushed", !.entry = "retryable_failure"]
  <2>1. new \in Progress
    BY <1>c DEF RunState, Progress, Status
  <2>2. r \in RunState /\ r.job = run[w].job /\ r.entry # "none"
    <3> HIDE DEF new
    <3>1. Flushed(w, new) \in RunState /\ Flushed(w, new).job = run[w].job
      BY <2>1, FlushedTyped DEF TypeInv
    <3> DEFINE f == Flushed(w, new)
    <3>2. f \in RunState /\ f.job = run[w].job
      BY <3>1
    <3> HIDE DEF f
    <3>3. [f EXCEPT !.pc = "flushed", !.entry = "retryable_failure"] \in RunState
          /\ [f EXCEPT !.pc = "flushed", !.entry = "retryable_failure"].job = f.job
          /\ [f EXCEPT !.pc = "flushed", !.entry = "retryable_failure"].entry # "none"
      BY <3>2, OutcomeTyped
    <3>4. QED
      BY <3>2, <3>3 DEF f
  <2>3. QED
    BY <1>11, <1>c, <1>d, <2>2, RunStepTypes DEF SearchFails
<1>12. ASSUME NEW w \in Workers, SelectExisting(w) PROVE TypeInv'
  <2> DEFINE old == {r \in results : r.order = jobs[run[w].job].order}
             r   == [run[w] EXCEPT !.pc = "replacing", !.existing = old]
  <2>1. r \in RunState /\ r.job = run[w].job /\ r.pc = "replacing"
    BY <1>c DEF TypeInv, TypeOK, RunState
  <2>2. QED
    BY <1>12, <1>c, <1>d, <2>1, RunStepTypes DEF SelectExisting
<1>13. ASSUME NEW w \in Workers, ReplaceRows(w) PROVE TypeInv'
  <2>1. PICK offers \in Responses :
           /\ SetRun(w, [run[w] EXCEPT !.pc = "finishing",
                                       !.inserted = NewRows(run[w].job, offers)])
           /\ resultSeq' = resultSeq + Len(offers)
    BY <1>13 DEF ReplaceRows
  <2> DEFINE r == [run[w] EXCEPT !.pc = "finishing", !.inserted = NewRows(run[w].job, offers)]
  <2>2. offers \in Seq(Offer) /\ Len(offers) \in Nat
    BY ResponsesAssumption
  <2>3. NewRows(run[w].job, offers) \subseteq Row
    <3>1. ASSUME NEW i \in DOMAIN offers
          PROVE  offers[i] \in Offer /\ i \in Nat
      BY <2>2
    <3>2. run[w].job \in Nat /\ jobs[run[w].job].order \in Orders
      BY <1>b, <1>c, <1>13 DEF ReplaceRows, Job
    <3>3. QED
      BY <1>d, <3>1, <3>2 DEF NewRows, Row, Offer
  <2>4. r \in RunState /\ r.job = run[w].job /\ r.pc = "finishing"
    BY <1>c, <2>3 DEF RunState
  <2>5. /\ resultSeq' \in Nat /\ started' \in 0..MaxRuns
        /\ SetRun(w, r) /\ run[w].pc = "replacing" /\ UNCHANGED <<results, events>>
    BY <1>13, <1>d, <2>1, <2>2 DEF ReplaceRows
  <2>6. run[w].job \in DOMAIN jobs
    BY <1>c, <2>5
  <2> HIDE DEF r
  <2>7. QED
    BY <2>4, <2>5, <2>6, RunStepTypes
<1>14. ASSUME NEW w \in Workers, FinishRun(w) PROVE TypeInv'
  <2> DEFINE j    == run[w].job
             o    == jobs[j].order
             mine == {r \in View(w) : r.job = j}
             new  == [run[w].row EXCEPT !.status = Verdict(mine), !.attempts = @ + 1]
             ev   == IF o \in CompletedOrders /\ Eligible(mine) # {}
                     THEN {BestEvent(o, j, Eligible(mine))} ELSE {}
             r    == [Flushed(w, new) EXCEPT !.pc = "flushed", !.entry = "success", !.event = ev]
  <2>1. new \in Progress
    <3>1. run[w].row \in Progress /\ run[w].row.attempts + 1 \in Nat
      BY <1>c DEF RunState, Progress
    <3>2. Verdict(mine) \in Status
      BY DEF Verdict, Status
    <3>3. new = [run[w].row EXCEPT !.status = Verdict(mine),
                                   !.attempts = run[w].row.attempts + 1]
      BY <3>1 DEF Progress
    <3> HIDE DEF mine
    <3>4. QED
      BY <3>1, <3>2, <3>3 DEF Progress
  <2>2. j \in Nat /\ o \in Orders /\ mine \subseteq Row
    BY <1>14, <1>b, <1>c DEF FinishRun, Job, View, Deletes, TypeInv, TypeOK, RunState
  <2>3. ev \subseteq Event
    <3>1. ASSUME Eligible(mine) # {}
          PROVE  BestEvent(o, j, Eligible(mine)) \in Event
      <4>1. Best(Eligible(mine)) \in Row
        BY <2>2, <3>1, BestIsCheapest DEF Eligible
      <4>2. QED
        BY <2>2, <4>1 DEF BestEvent, Event, Row
    <3>2. QED
      BY <3>1
  <2>4. r \in RunState /\ r.job = run[w].job /\ r.entry = "success"
    <3> HIDE DEF new, ev
    <3>1. Flushed(w, new) \in RunState /\ Flushed(w, new).job = run[w].job
      BY <2>1, FlushedTyped DEF TypeInv
    <3> DEFINE f == Flushed(w, new)
    <3>2. f \in RunState /\ f.job = run[w].job
      BY <3>1
    <3> HIDE DEF f
    <3>3. [f EXCEPT !.pc = "flushed", !.entry = "success", !.event = ev] \in RunState
          /\ [f EXCEPT !.pc = "flushed", !.entry = "success", !.event = ev].job = f.job
          /\ [f EXCEPT !.pc = "flushed", !.entry = "success", !.event = ev].entry = "success"
      <4> HIDE DEF r
      <4>1. ev \in SUBSET Event /\ f \in RunState
        BY <2>3, <3>2
      <4>2. QED
        BY <4>1 DEF RunState
    <3>4. QED
      BY <3>2, <3>3 DEF f
  <2>5. SetRun(w, r) /\ run[w].pc = "finishing" /\ UNCHANGED <<results, events, resultSeq, started>>
    BY <1>14 DEF FinishRun
  <2>6. QED
    BY <1>c, <1>d, <2>4, <2>5, RunStepTypes
<1>15. ASSUME NEW w \in Workers, CommitRun(w) PROVE TypeInv'
  <2> DEFINE r == run[w]
             j == run[w].job
  <2>1. /\ r.pc = "flushed" /\ r \in RunState /\ j \in DOMAIN jobs /\ r.entry # "none"
        /\ jobs' = [jobs EXCEPT ![j].progress = Overlay(jobs[j].progress, r)]
        /\ attemptLog' = [attemptLog EXCEPT ![j] =
                            Append(attemptLog[j],
                                   [status |-> r.entry, offers |-> r.inserted, since |-> r.since])]
        /\ results' = View(w)
        /\ events' = events \cup r.event
        /\ run' = [run EXCEPT ![w] = NoRun]
        /\ UNCHANGED <<jobSeq, resultSeq, request, started>>
    BY <1>15, <1>c DEF CommitRun, TypeInv, TypeOK, RefsOK
  <2>2. Overlay(jobs[j].progress, r) \in Progress
    BY <2>1, <1>b DEF Overlay, RunState, Progress
  <2>3. jobs' \in [DOMAIN jobs -> Job] /\ DOMAIN jobs' = DOMAIN jobs
    BY <2>1, <2>2, <1>b DEF TypeInv, TypeOK, Job
  <2>4. [status |-> r.entry, offers |-> r.inserted, since |-> r.since] \in Entry
    BY <2>1 DEF RunState, Entry
  <2>5. attemptLog' \in [DOMAIN jobs -> Seq(Entry)]
    BY <2>1, <2>4 DEF TypeInv, TypeOK
  <2>6. results' \subseteq Row /\ events' \subseteq Event
    BY <2>1 DEF View, RunState, TypeInv, TypeOK
  <2>7. /\ run' \in [Workers -> RunState] /\ run'[w].pc = "idle"
        /\ \A v \in Workers \ {w} : run'[v] = run[v]
    BY <2>1 DEF TypeInv, TypeOK, RunState, NoRun, Progress, Fresh, Status
  <2>8. TypeOK'
    BY <2>1, <2>3, <2>5, <2>6, <2>7 DEF TypeInv, TypeOK
  <2>9. RefsOK'
    BY <2>1, <2>3, <2>7 DEF TypeInv, RefsOK
  <2>10. QED
    BY <2>8, <2>9 DEF TypeInv
<1>16. ASSUME NEW w \in Workers, AbortRun(w) PROVE TypeInv'
  <2>1. NoRun \in RunState /\ NoRun.pc = "idle"
    BY DEF NoRun, RunState, Progress, Fresh, Status
  <2>2. QED
    BY <1>16, <1>d, <2>1, RunStepTypes DEF AbortRun
<1>17. CASE UNCHANGED vars
  <2>1. TypeOK'
    BY <1>17 DEF vars, TypeInv, TypeOK
  <2>2. RefsOK'
    BY <1>17 DEF vars, TypeInv, RefsOK
  <2>3. QED
    BY <2>1, <2>2 DEF TypeInv
<1>18. QED
  BY <1>1, <1>2, <1>3, <1>4, <1>5, <1>6, <1>7, <1>8, <1>9, <1>10, <1>11, <1>12, <1>13,
     <1>14, <1>15, <1>16, <1>17 DEF Next, ClientStep, WorkerStep

\* The type invariant holds in every reachable state.
THEOREM TypeCorrect == Spec => []TypeOK
<1>1. Spec => []TypeInv
  BY InitTypeInv, StepTypeInv, PTL DEF Spec
<1>2. TypeInv => TypeOK
  BY DEF TypeInv
<1>3. QED
  BY <1>1, <1>2, PTL
-----------------------------------------------------------------------------
(* One job per idempotency key *)

\* IdempotentCreation is not inductive: it rests on what the unique constraint
\* makes true of the rows not committed yet.
KeyInv ==
  /\ \A i, j \in DOMAIN jobs : jobs[i].key = jobs[j].key => i = j
  /\ \A c \in Clients : request[c].pc = "inserted" =>
       /\ request[c].id \notin DOMAIN jobs
       /\ JobsWithKey(request[c].q.key) = {}
  /\ \A c, d \in Clients :
       request[c].pc = "inserted" /\ request[d].pc = "inserted" /\ c # d =>
         request[c].q.key # request[d].q.key /\ request[c].id # request[d].id
  /\ \A c \in Clients : request[c].pc \in {"found", "created", "reused"} =>
       request[c].id \in JobsWithKey(request[c].q.key)
  /\ \A c, d \in Clients :
       request[c].pc = "created" /\ request[d].pc = "created"
         /\ request[c].q.key = request[d].q.key => c = d

CreationInv == TypeInv /\ KeyInv

\* A step of create_job that commits nothing and inserts nothing.
LEMMA RequestStepKeys ==
  ASSUME CreationInv, NEW c \in Clients, NEW from, NEW id \in Nat,
         NEW to \in {"missed", "conflict", "found", "reused", "not_found", "aborted"},
         RequestStep(c, from, to, id), UNCHANGED jobs,
         to \in {"found", "reused"} => id \in JobsWithKey(request[c].q.key)
  PROVE  KeyInv'
<1>1. /\ request'[c].pc = to /\ request'[c].q = request[c].q /\ request'[c].id = id
      /\ \A d \in Clients \ {c} : request'[d] = request[d]
  BY RequestMoves DEF CreationInv, TypeInv
<1>2. \A k : JobsWithKey(k)' = JobsWithKey(k)
  BY DEF JobsWithKey
<1>3. KeyInv
  BY DEF CreationInv
<1>4. QED
  BY SMTT(40), <1>1, <1>2, <1>3 DEF KeyInv

\* A step of run_job: jobs keep their ids and their keys.
LEMMA RunStepKeys ==
  ASSUME KeyInv, UNCHANGED request, DOMAIN jobs' = DOMAIN jobs,
         \A j \in DOMAIN jobs : jobs'[j].key = jobs[j].key
  PROVE  KeyInv'
<1>1. \A k : JobsWithKey(k)' = JobsWithKey(k)
  BY DEF JobsWithKey
<1>2. QED
  BY <1>1 DEF KeyInv

LEMMA WorkerKeys ==
  ASSUME CreationInv, NEW w \in Workers,
         WorkerStep(w) \/ AbortRun(w) \/ \E j \in DOMAIN jobs : LoadJob(w, j)
  PROVE  KeyInv'
<1>1. CASE CommitRun(w)
  <2>1. /\ UNCHANGED request
        /\ jobs' = [jobs EXCEPT ![run[w].job].progress =
                                  Overlay(jobs[run[w].job].progress, run[w])]
    BY <1>1 DEF CommitRun
  <2>2. DOMAIN jobs' = DOMAIN jobs /\ \A j \in DOMAIN jobs : jobs'[j].key = jobs[j].key
    <3>1. jobs \in [DOMAIN jobs -> Job]
      BY DEF CreationInv, TypeInv, TypeOK
    <3>2. QED
      BY <2>1, <3>1 DEF Job
  <2>3. QED
    BY <2>1, <2>2, RunStepKeys DEF CreationInv
<1>2. CASE ~CommitRun(w)
  <2>1. UNCHANGED <<jobs, request>>
    BY <1>2 DEF WorkerStep, AbortRun, LoadJob, MarkRunning, SearchFails, SelectExisting,
                ReplaceRows, FinishRun, SetRun
  <2>2. QED
    BY <2>1, RunStepKeys DEF CreationInv
<1>3. QED
  BY <1>1, <1>2

\* The insert: the unique constraint let it through, so neither a committed row
\* nor an uncommitted one has its key; its id is new.
LEMMA InsertKeys ==
  ASSUME CreationInv, NEW c \in Clients, InsertJob(c)
  PROVE  KeyInv'
<1>1. /\ TypeOK /\ jobSeq \in Nat /\ DOMAIN jobs \subseteq 1..jobSeq
      /\ \A d \in Clients : request[d].pc = "inserted" => request[d].id \in 1..jobSeq
  BY DEF CreationInv, TypeInv, TypeOK, RefsOK
<1>2. /\ RequestStep(c, "missed", "inserted", jobSeq + 1) /\ UNCHANGED jobs
      /\ JobsWithKey(request[c].q.key) = {}
      /\ \A d \in Clients \ {c} :
           request[d].pc = "inserted" => request[d].q.key # request[c].q.key
  BY DEF InsertJob, KeyInFlight
<1>3. /\ request'[c].pc = "inserted" /\ request'[c].q = request[c].q
      /\ request'[c].id = jobSeq + 1
      /\ \A d \in Clients \ {c} : request'[d] = request[d]
  BY <1>1, <1>2, RequestMoves
<1>4. \A k : JobsWithKey(k)' = JobsWithKey(k)
  BY <1>2 DEF JobsWithKey
<1>5. jobSeq + 1 \notin DOMAIN jobs /\ jobSeq + 1 \notin 1..jobSeq
  BY <1>1
<1>6. KeyInv
  BY DEF CreationInv
<1>7. QED
  BY <1>1, <1>2, <1>3, <1>4, <1>5, <1>6 DEF KeyInv

\* The commit: the row gets the only job with its key.
LEMMA CommitKeys ==
  ASSUME CreationInv, NEW c \in Clients, CommitJob(c)
  PROVE  KeyInv'
<1> DEFINE id == request[c].id
           k  == request[c].q.key
<1>1. KeyInv /\ request[c].pc = "inserted" /\ id \notin DOMAIN jobs /\ JobsWithKey(k) = {}
  BY DEF CreationInv, KeyInv, CommitJob
<1>2. /\ DOMAIN jobs' = DOMAIN jobs \cup {id}
      /\ jobs'[id].key = k
      /\ \A j \in DOMAIN jobs : jobs'[j] = jobs[j]
  BY <1>1 DEF CommitJob
<1>3. \A l : JobsWithKey(l)' = IF l = k THEN {id} ELSE JobsWithKey(l)
  BY <1>1, <1>2 DEF JobsWithKey
<1>4. /\ request'[c].pc = "created" /\ request'[c].q = request[c].q /\ request'[c].id = id
      /\ \A d \in Clients \ {c} : request'[d] = request[d]
  BY DEF CommitJob, CreationInv, TypeInv, TypeOK, RequestState
<1>5. \A l : JobsWithKey(l) # {} => l # k
  BY <1>1
<1>6. \A i, j \in DOMAIN jobs' : jobs'[i].key = jobs'[j].key => i = j
  BY <1>1, <1>2 DEF KeyInv, JobsWithKey
<1>7. ASSUME NEW d \in Clients
      PROVE  (request[d].pc = "inserted" =>
                request[d].id \notin DOMAIN jobs /\ JobsWithKey(request[d].q.key) = {})'
  BY <1>1, <1>2, <1>3, <1>4 DEF KeyInv
<1>8. ASSUME NEW d \in Clients
      PROVE  (request[d].pc \in {"found", "created", "reused"} =>
                request[d].id \in JobsWithKey(request[d].q.key))'
  BY <1>1, <1>3, <1>4, <1>5 DEF KeyInv
<1>9. ASSUME NEW d \in Clients, NEW e \in Clients, d # e
      PROVE  /\ request'[d].pc = "inserted" /\ request'[e].pc = "inserted" =>
                  request'[d].q.key # request'[e].q.key /\ request'[d].id # request'[e].id
             /\ request'[d].pc = "created" /\ request'[e].pc = "created" =>
                  request'[d].q.key # request'[e].q.key
  BY <1>1, <1>4, <1>5, <1>9 DEF KeyInv
<1>10. QED
  BY <1>6, <1>7, <1>8, <1>9 DEF KeyInv

LEMMA StepKeyInv == CreationInv /\ [Next]_vars => KeyInv'
<1> SUFFICES ASSUME CreationInv, [Next]_vars
             PROVE  KeyInv'
  OBVIOUS
<1>a. \A k : JobsWithKey(k) \subseteq Nat
  BY DEF CreationInv, TypeInv, TypeOK, JobsWithKey
<1>1. ASSUME NEW c \in Clients, OrderMissing(c) PROVE KeyInv'
  BY <1>1, RequestStepKeys DEF OrderMissing
<1>2. ASSUME NEW c \in Clients, LookUpJob(c) PROVE KeyInv'
  <2>1. CASE RequestStep(c, "idle", "missed", 0)
    BY <1>2, <2>1, RequestStepKeys DEF LookUpJob
  <2>2. ASSUME NEW j \in JobsWithKey(request[c].q.key), RequestStep(c, "idle", "found", j)
        PROVE  KeyInv'
    BY <1>2, <1>a, <2>2, RequestStepKeys DEF LookUpJob
  <2>3. QED
    BY <1>2, <2>1, <2>2 DEF LookUpJob
<1>3. ASSUME NEW c \in Clients, InsertConflicts(c) PROVE KeyInv'
  BY <1>3, RequestStepKeys DEF InsertConflicts
<1>4. ASSUME NEW c \in Clients, RecoverJob(c) PROVE KeyInv'
  <2>1. PICK j \in JobsWithKey(request[c].q.key) : RequestStep(c, "conflict", "found", j)
    BY <1>4 DEF RecoverJob
  <2>2. QED
    BY <1>4, <1>a, <2>1, RequestStepKeys DEF RecoverJob
<1>5. ASSUME NEW c \in Clients, AnswerFound(c) PROVE KeyInv'
  <2>1. request[c].pc = "found" /\ request[c].id \in JobsWithKey(request[c].q.key)
    BY <1>5 DEF AnswerFound, RequestStep, CreationInv, KeyInv
  <2>2. QED
    BY <1>5, <1>a, <2>1, RequestStepKeys DEF AnswerFound
<1>6. ASSUME NEW c \in Clients, AbortRequest(c) PROVE KeyInv'
  BY <1>6, RequestStepKeys DEF AbortRequest
<1>7. CASE UNCHANGED vars
  BY <1>7, RunStepKeys DEF vars, CreationInv
<1>8. QED
  BY <1>1, <1>2, <1>3, <1>4, <1>5, <1>6, <1>7, InsertKeys, CommitKeys, WorkerKeys
     DEF Next, ClientStep

LEMMA CreationInvariant == Spec => []CreationInv
<1>1. Init => CreationInv
  BY InitTypeInv DEF Init, CreationInv, KeyInv, JobsWithKey
<1>2. CreationInv /\ [Next]_vars => CreationInv'
  BY StepTypeInv, StepKeyInv DEF CreationInv
<1>3. QED
  BY <1>1, <1>2, PTL DEF Spec

\* A key names one job, which is what every user of the key was answered with,
\* for any number of concurrent create_job calls.
THEOREM OneJobPerKey == Spec => []IdempotentCreation
<1>1. CreationInv => IdempotentCreation
  BY DEF CreationInv, KeyInv, IdempotentCreation
<1>2. QED
  BY <1>1, CreationInvariant, PTL
-----------------------------------------------------------------------------
(* What runs leave in the tables *)

\* A run that holds its job's row.  The update of "running" lets one in at a time.
Holding(w) == run[w].pc \notin {"idle", "loaded"}

OneHolder ==
  \A v, w \in Workers : Holding(v) /\ Holding(w) /\ run[v].job = run[w].job => v = w

\* The ids of rows come from one sequence: no logged run and no session has
\* the id of another one's row.
IdsApart ==
  /\ \A j, k \in DOMAIN jobs : \A i \in DOMAIN attemptLog[j], n \in DOMAIN attemptLog[k] :
       \A r \in attemptLog[j][i].offers, s \in attemptLog[k][n].offers :
         r.id = s.id => j = k /\ i = n
  /\ \A j \in DOMAIN jobs : \A i \in DOMAIN attemptLog[j] : \A r \in attemptLog[j][i].offers :
       /\ r.id <= resultSeq
       /\ \A w \in Workers : \A s \in run[w].inserted : r.id # s.id
  /\ \A w \in Workers : \A r \in run[w].inserted :
       /\ r.id <= resultSeq
       /\ \A v \in Workers \ {w} : \A s \in run[v].inserted : r.id # s.id

\* The log: a run's offers are those of its job, and a failed run has none.
LogFits ==
  \A j \in DOMAIN jobs : \A i \in DOMAIN attemptLog[j] :
    /\ \A r \in attemptLog[j][i].offers : r.job = j /\ r.order = jobs[j].order
    /\ attemptLog[j][i].status = "retryable_failure" => attemptLog[j][i].offers = {}

\* A row of the table was added by a logged run.
Logged(r) ==
  \E j \in DOMAIN jobs : \E i \in DOMAIN attemptLog[j] : r \in attemptLog[j][i].offers

RowsLogged == \A r \in results : Logged(r)

\* The event that a run with these offers owes.
Notice(j, offers) ==
  IF jobs[j].order \in CompletedOrders /\ Eligible(offers) # {}
  THEN {BestEvent(jobs[j].order, j, Eligible(offers))} ELSE {}

EventsLogged ==
  /\ \A j \in DOMAIN jobs : \A i \in DOMAIN attemptLog[j] :
       Notice(j, attemptLog[j][i].offers) \subseteq events
  /\ \A e \in events : \E j \in DOMAIN jobs : \E i \in DOMAIN attemptLog[j] :
       e \in Notice(j, attemptLog[j][i].offers)

\* What a session in state r may hold.  From the selection of the rows to be
\* replaced on, they are all of its job's and, of any other job, all or none.
SessionFits(r) ==
  /\ r.pc \in {"idle", "loaded", "searching"} => r.existing = {} /\ r.inserted = {} /\ r.event = {}
  /\ r.pc = "replacing" => r.inserted = {}
  /\ r.pc \in {"loaded", "searching", "replacing", "finishing"} =>
       r.row.attempts <= Len(attemptLog[r.job])
  /\ r.pc = "loaded" => r.row.status # "running"
  /\ r.pc \in {"searching", "replacing", "finishing"} => "status" \in r.dirty
  /\ r.pc \in {"replacing", "finishing"} \/ (r.pc = "flushed" /\ r.entry = "success") =>
       /\ RowsOf(r.job) \subseteq r.existing
       /\ \A x \in r.existing : /\ x.order = jobs[r.job].order /\ Logged(x)
                                /\ x \in results => RowsOf(x.job) \subseteq r.existing
  /\ \A x \in r.inserted : x.job = r.job /\ x.order = jobs[r.job].order
  /\ r.pc = "flushed" =>
       /\ {"status", "attempts"} \subseteq r.dirty
       /\ r.row.attempts \in 1..(Len(attemptLog[r.job]) + 1)
       /\ r.entry = "retryable_failure" =>
            r.existing = {} /\ r.inserted = {} /\ r.event = {} /\ r.row.status = "pending"
       /\ r.entry = "success" =>
            r.row.status = Verdict(r.inserted) /\ r.event = Notice(r.job, r.inserted)

SessionsFit == \A w \in Workers : SessionFits(run[w])

RunInv == /\ CreationInv /\ OneHolder /\ IdsApart /\ LogFits /\ RowsLogged /\ EventsLogged
          /\ SessionsFit /\ StatusIsLastOutcome /\ AttemptsWithinLog

\* The types a step needs to know.
LEMMA RunTypes ==
  ASSUME TypeInv
  PROVE  /\ \A w \in Workers :
              /\ run[w] \in RunState /\ run[w].row \in Progress /\ run[w].row.attempts \in Nat
              /\ run[w].since \in Nat
              /\ run[w].existing \subseteq Row /\ run[w].inserted \subseteq Row
              /\ run[w].pc # "idle" => run[w].job \in DOMAIN jobs
         /\ \A j \in DOMAIN jobs :
              /\ attemptLog[j] \in Seq(Entry) /\ Len(attemptLog[j]) \in Nat
              /\ DOMAIN attemptLog[j] = 1..Len(attemptLog[j])
              /\ \A i \in DOMAIN attemptLog[j] :
                   attemptLog[j][i].offers \subseteq Row /\ attemptLog[j][i].since \in Nat
              /\ jobs[j] \in Job /\ jobs[j].progress \in Progress
              /\ jobs[j].progress.attempts \in Nat
         /\ results \subseteq Row /\ resultSeq \in Nat
<1>1. \A w \in Workers :
        /\ run[w] \in RunState /\ run[w].row \in Progress /\ run[w].since \in Nat
        /\ run[w].existing \subseteq Row /\ run[w].inserted \subseteq Row
        /\ run[w].pc # "idle" => run[w].job \in DOMAIN jobs
  BY DEF TypeInv, TypeOK, RefsOK, RunState
<1>2. \A j \in DOMAIN jobs :
        /\ attemptLog[j] \in Seq(Entry) /\ jobs[j] \in Job /\ jobs[j].progress \in Progress
  BY DEF TypeInv, TypeOK, Job
<1>3. ASSUME NEW j \in DOMAIN jobs
      PROVE  /\ Len(attemptLog[j]) \in Nat /\ DOMAIN attemptLog[j] = 1..Len(attemptLog[j])
             /\ \A i \in DOMAIN attemptLog[j] :
                  attemptLog[j][i].offers \subseteq Row /\ attemptLog[j][i].since \in Nat
  <2>1. attemptLog[j] \in Seq(Entry)
    BY <1>2
  <2>2. \A i \in DOMAIN attemptLog[j] : attemptLog[j][i] \in Entry
    BY <2>1
  <2> QED BY <2>1, <2>2 DEF Entry
<1>4. \A p \in Progress : p.attempts \in Nat
  BY DEF Progress
<1> QED BY <1>1, <1>2, <1>3, <1>4 DEF TypeInv, TypeOK

LEMMA InitRunInv == Init => RunInv
<1> SUFFICES ASSUME Init PROVE RunInv
  OBVIOUS
<1>1. CreationInv
  BY InitTypeInv DEF Init, CreationInv, KeyInv, JobsWithKey
<1>2. DOMAIN jobs = {} /\ results = {} /\ events = {} /\ \A w \in Workers : run[w] = NoRun
  BY DEF Init
<1>3. OneHolder /\ IdsApart /\ LogFits /\ RowsLogged /\ EventsLogged /\ SessionsFit
  BY <1>2 DEF OneHolder, Holding, IdsApart, LogFits, RowsLogged, EventsLogged,
              SessionsFit, SessionFits, NoRun
<1>4. StatusIsLastOutcome /\ AttemptsWithinLog
  BY <1>2 DEF StatusIsLastOutcome, AttemptsWithinLog
<1> QED BY <1>1, <1>3, <1>4 DEF RunInv

\* What a run must leave in its own session when it commits nothing.
LEMMA RunMoves ==
  ASSUME RunInv, CreationInv', NEW w \in Workers, NEW r \in RunState, SetRun(w, r),
         UNCHANGED <<results, events>>, resultSeq' \in Nat, resultSeq <= resultSeq',
         SessionFits(r),
         r.pc \notin {"idle", "loaded"} =>
           /\ r.job = run[w].job
           /\ Holding(w) \/ \A v \in Workers : ~Locks(v, run[w].job),
         \/ r.inserted \subseteq run[w].inserted
         \/ \A x \in r.inserted : resultSeq < x.id /\ x.id <= resultSeq'
  PROVE  RunInv'
<1>1. /\ run'[w] = r
      /\ \A v \in Workers \ {w} : run'[v] = run[v]
      /\ UNCHANGED <<jobs, attemptLog>>
  BY DEF RunInv, CreationInv, TypeInv, TypeOK, SetRun
<1>2. TypeInv
  BY DEF RunInv, CreationInv
<1>3. OneHolder'
  BY <1>1 DEF RunInv, OneHolder, Holding, Locks
<1>4. LogFits' /\ RowsLogged' /\ EventsLogged' /\ StatusIsLastOutcome' /\ AttemptsWithinLog'
  BY <1>1 DEF RunInv, LogFits, RowsLogged, Logged, EventsLogged, Notice, Eligible, BestEvent,
              Best, StatusIsLastOutcome, LastEntry, Verdict, AttemptsWithinLog
<1>5. SessionsFit'
  <2>1. \A x \in RunState : SessionFits(x)' <=> SessionFits(x)
    BY <1>1 DEF SessionFits, RowsOf, Logged, Notice
  <2>2. \A v \in Workers : run[v] \in RunState /\ SessionFits(run[v])
    BY <1>2, RunTypes DEF RunInv, SessionsFit
  <2> QED BY <1>1, <2>1, <2>2 DEF SessionsFit
<1>6. IdsApart'
  <2>1. \A v \in Workers : /\ \A x \in run[v].inserted : x.id \in Nat /\ x.id <= resultSeq
                           /\ \A x \in run'[v].inserted : x.id \in Nat
    <3>1. r.inserted \subseteq Row
      BY DEF RunState
    <3> QED BY <1>1, <1>2, <3>1, RunTypes DEF RunInv, IdsApart, Row
  <2>2. \A j \in DOMAIN jobs : \A i \in DOMAIN attemptLog[j] :
          \A x \in attemptLog[j][i].offers : x.id \in Nat /\ x.id <= resultSeq
    BY <1>2, RunTypes DEF RunInv, IdsApart, Row
  <2>3. \A x \in r.inserted : x.id <= resultSeq'
    BY <1>2, <2>1, RunTypes
  <2>4. \A x \in r.inserted : \/ x \in run[w].inserted
                              \/ resultSeq < x.id
    OBVIOUS
  <2>5. resultSeq \in Nat
    BY <1>2, RunTypes
  <2>6. \A j \in DOMAIN jobs : \A i \in DOMAIN attemptLog[j] : \A x \in attemptLog[j][i].offers :
          /\ x.id <= resultSeq'
          /\ \A v \in Workers : \A s \in run'[v].inserted : x.id # s.id
    BY <1>1, <2>1, <2>2, <2>4, <2>5 DEF RunInv, IdsApart
  <2>7. \A v \in Workers : \A x \in run'[v].inserted :
          /\ x.id <= resultSeq'
          /\ \A u \in Workers \ {v} : \A s \in run'[u].inserted : x.id # s.id
    BY <1>1, <2>1, <2>3, <2>4, <2>5 DEF RunInv, IdsApart
  <2> QED BY <1>1, <2>6, <2>7 DEF RunInv, IdsApart
<1> QED BY <1>3, <1>4, <1>5, <1>6 DEF RunInv


\* The steps of a run before its commit.
LEMMA LoadJobKeeps ==
  ASSUME RunInv, CreationInv', NEW w \in Workers, NEW j \in DOMAIN jobs, LoadJob(w, j)
  PROVE  RunInv'
<1> DEFINE r == [NoRun EXCEPT !.pc = "loaded", !.job = j, !.row = jobs[j].progress,
                              !.since = Len(attemptLog[j])]
<1>1. TypeInv /\ j \in Nat /\ jobs[j].progress \in Progress /\ Len(attemptLog[j]) \in Nat
  BY DEF RunInv, CreationInv, TypeInv, TypeOK, Job
<1>2. SetRun(w, r) /\ UNCHANGED <<results, events, resultSeq>> /\ resultSeq \in Nat
  BY <1>1, RunTypes DEF LoadJob
<1>3. /\ r \in RunState /\ r.pc = "loaded" /\ r.job = j /\ r.row = jobs[j].progress
      /\ r.existing = {} /\ r.inserted = {} /\ r.event = {}
  BY <1>1 DEF RunState, NoRun
<1>4. /\ jobs[j].progress.attempts <= Len(attemptLog[j])
      /\ jobs[j].progress.status # "running"
  BY DEF RunInv, AttemptsWithinLog, StatusIsLastOutcome, Verdict
<1> HIDE DEF r
<1>5. SessionFits(r)
  BY <1>3, <1>4 DEF SessionFits
<1> QED BY <1>2, <1>3, <1>5, RunMoves

\* A flush of the job's columns and what else the step sets.
LEMMA FlushedHas ==
  ASSUME TypeInv, NEW w \in Workers, NEW new \in Progress
  PROVE  LET f == Flushed(w, new) IN
         /\ f \in RunState /\ f.row = new /\ f.dirty = run[w].dirty \cup Changed(run[w].row, new)
         /\ f.pc = run[w].pc /\ f.job = run[w].job /\ f.existing = run[w].existing
         /\ f.inserted = run[w].inserted /\ f.entry = run[w].entry /\ f.event = run[w].event
<1>1. run[w] \in RunState /\ Changed(run[w].row, new) \subseteq Columns
  BY RunTypes DEF Changed
<1> QED BY <1>1 DEF Flushed, RunState

LEMMA MarkRunningKeeps ==
  ASSUME RunInv, CreationInv', NEW w \in Workers, MarkRunning(w)
  PROVE  RunInv'
<1> DEFINE new == [run[w].row EXCEPT !.status = "running", !.retry = FALSE]
           f   == Flushed(w, new)
           r   == [f EXCEPT !.pc = "searching"]
<1>1. TypeInv /\ run[w].pc = "loaded" /\ run[w].row \in Progress /\ SessionFits(run[w])
      /\ run[w].job \in DOMAIN jobs
  BY RunTypes DEF RunInv, CreationInv, MarkRunning, SessionsFit
<1>2. /\ SetRun(w, r) /\ UNCHANGED <<results, events, resultSeq>> /\ resultSeq \in Nat
      /\ \A v \in Workers : ~Locks(v, run[w].job)
  BY <1>1, RunTypes DEF MarkRunning
<1>3. new \in Progress /\ new.status = "running" /\ new.attempts = run[w].row.attempts
  <2>1. \A p \in Progress : LET q == [p EXCEPT !.status = "running", !.retry = FALSE] IN
          q \in Progress /\ q.status = "running" /\ q.attempts = p.attempts
    BY DEF Progress, Status
  <2> QED BY <1>1, <2>1
<1> HIDE DEF new
<1>4. /\ f \in RunState /\ f.row = new /\ f.dirty = run[w].dirty \cup Changed(run[w].row, new)
      /\ f.job = run[w].job /\ f.existing = run[w].existing
      /\ f.inserted = run[w].inserted /\ f.event = run[w].event
  BY <1>1, <1>3, FlushedHas
<1> HIDE DEF f
<1>5. /\ r \in RunState /\ r.pc = "searching" /\ r.row = new /\ r.dirty = f.dirty /\ r.job = f.job
      /\ r.existing = f.existing /\ r.inserted = f.inserted /\ r.event = f.event
  BY <1>4 DEF RunState
<1> HIDE DEF r
<1>6. "status" \in Changed(run[w].row, new)
  <2>1. run[w].row.status # "running"
    BY <1>1 DEF SessionFits
  <2>2. run[w].row["status"] # new["status"]
    BY <1>3, <2>1
  <2> QED BY <2>2 DEF Changed
<1>7. SessionFits(r)
  BY <1>1, <1>3, <1>4, <1>5, <1>6 DEF SessionFits
<1> QED BY <1>2, <1>4, <1>5, <1>7, RunMoves

\* Counting an attempt writes the attempts.
LEMMA CountedIsDirty ==
  ASSUME NEW old \in Progress, NEW new \in Progress, new.attempts = old.attempts + 1
  PROVE  "attempts" \in Changed(old, new)
<1>1. old["attempts"] \in Nat
  BY DEF Progress
<1>2. new["attempts"] # old["attempts"]
  BY <1>1
<1> QED BY <1>2 DEF Changed

LEMMA SearchFailsKeeps ==
  ASSUME RunInv, CreationInv', NEW w \in Workers, SearchFails(w)
  PROVE  RunInv'
<1> DEFINE new == [status |-> "pending", attempts |-> run[w].row.attempts + 1, retry |-> TRUE]
           f   == Flushed(w, new)
           r   == [f EXCEPT !.pc = "flushed", !.entry = "retryable_failure"]
<1>1. TypeInv /\ run[w].pc = "searching" /\ run[w].row \in Progress /\ SessionFits(run[w])
      /\ run[w].job \in DOMAIN jobs /\ run[w].row.attempts \in Nat
      /\ Len(attemptLog[run[w].job]) \in Nat
  <2>1. TypeInv /\ run[w].pc = "searching" /\ SessionFits(run[w])
    BY DEF RunInv, CreationInv, SearchFails, SessionsFit
  <2> QED BY <2>1, RunTypes
<1>2. SetRun(w, r) /\ UNCHANGED <<results, events, resultSeq>> /\ resultSeq \in Nat
  BY <1>1, RunTypes DEF SearchFails
<1>3. new \in Progress /\ new.status = "pending" /\ new.attempts = run[w].row.attempts + 1
  BY <1>1 DEF Progress, Status
<1> HIDE DEF new
<1>4. /\ f \in RunState /\ f.row = new /\ f.dirty = run[w].dirty \cup Changed(run[w].row, new)
      /\ f.job = run[w].job /\ f.existing = run[w].existing
      /\ f.inserted = run[w].inserted /\ f.event = run[w].event
  BY <1>1, <1>3, FlushedHas
<1> HIDE DEF f
<1>5. /\ r \in RunState /\ r.pc = "flushed" /\ r.row = new /\ r.dirty = f.dirty /\ r.job = f.job
      /\ r.existing = f.existing /\ r.inserted = f.inserted /\ r.event = f.event
      /\ r.entry = "retryable_failure"
  BY <1>4 DEF RunState
<1> HIDE DEF r
<1>6. "attempts" \in r.dirty /\ "status" \in r.dirty
  BY <1>1, <1>3, <1>4, <1>5, CountedIsDirty DEF SessionFits
<1>7. r.row.attempts \in 1..(Len(attemptLog[r.job]) + 1)
  BY <1>1, <1>3, <1>4, <1>5 DEF SessionFits
<1>8. r.existing = {} /\ r.inserted = {} /\ r.event = {}
  BY <1>1, <1>4, <1>5 DEF SessionFits
<1>9. SessionFits(r)
  BY <1>3, <1>5, <1>6, <1>7, <1>8 DEF SessionFits
<1> QED BY <1>1, <1>2, <1>4, <1>5, <1>9, RunMoves DEF Holding

\* Every row of the table belongs to a job, and to that job's order.
LEMMA RowsBelong ==
  ASSUME RunInv, NEW x, Logged(x)
  PROVE  x.job \in DOMAIN jobs /\ x.order = jobs[x.job].order
BY DEF RunInv, LogFits, Logged

LEMMA SelectExistingKeeps ==
  ASSUME RunInv, CreationInv', NEW w \in Workers, SelectExisting(w)
  PROVE  RunInv'
<1> DEFINE j   == run[w].job
           old == {x \in results : x.order = jobs[j].order}
           r   == [run[w] EXCEPT !.pc = "replacing", !.existing = old]
<1>1. TypeInv /\ run[w].pc = "searching" /\ SessionFits(run[w])
  BY DEF RunInv, CreationInv, SelectExisting, SessionsFit
<1>2. /\ run[w] \in RunState /\ j \in DOMAIN jobs /\ results \subseteq Row /\ resultSeq \in Nat
      /\ SetRun(w, r) /\ UNCHANGED <<results, events, resultSeq>>
  BY <1>1, RunTypes DEF SelectExisting
<1>3. /\ r \in RunState /\ r.pc = "replacing" /\ r.existing = old
      /\ r.job = j /\ r.row = run[w].row /\ r.dirty = run[w].dirty
      /\ r.inserted = run[w].inserted /\ r.event = run[w].event /\ r.entry = run[w].entry
  <2> HIDE DEF j
  <2>1. old \subseteq Row
    BY <1>2
  <2> HIDE DEF old
  <2> QED BY <1>2, <2>1 DEF RunState, j
<1>4. \A x \in results : Logged(x) /\ x.job \in DOMAIN jobs /\ x.order = jobs[x.job].order
  BY RowsBelong DEF RunInv, RowsLogged
<1>5. RowsOf(j) \subseteq old /\ \A x \in old : RowsOf(x.job) \subseteq old
  BY <1>4 DEF RowsOf
<1> HIDE DEF r
<1>6. SessionFits(r)
  BY <1>1, <1>3, <1>4, <1>5 DEF SessionFits
<1> QED BY <1>1, <1>2, <1>3, <1>6, RunMoves DEF Holding

LEMMA ReplaceRowsKeeps ==
  ASSUME RunInv, CreationInv', NEW w \in Workers, ReplaceRows(w)
  PROVE  RunInv'
<1> DEFINE j == run[w].job
<1>1. TypeInv /\ run[w].pc = "replacing" /\ SessionFits(run[w])
  BY DEF RunInv, CreationInv, ReplaceRows, SessionsFit
<1>2. run[w] \in RunState /\ j \in DOMAIN jobs /\ resultSeq \in Nat /\ jobs[j] \in Job /\ j \in Nat
  BY <1>1, RunTypes DEF TypeInv, TypeOK
<1>3. PICK offers \in Responses :
         /\ SetRun(w, [run[w] EXCEPT !.pc = "finishing", !.inserted = NewRows(j, offers)])
         /\ resultSeq' = resultSeq + Len(offers)
  BY DEF ReplaceRows
<1> DEFINE r == [run[w] EXCEPT !.pc = "finishing", !.inserted = NewRows(j, offers)]
<1>4. Len(offers) \in Nat /\ DOMAIN offers = 1..Len(offers)
      /\ \A i \in 1..Len(offers) : offers[i] \in Offer
  BY ResponsesAssumption
<1>5. \A x \in NewRows(j, offers) :
        /\ x \in Row /\ x.job = j /\ x.order = jobs[j].order
        /\ resultSeq < x.id /\ x.id <= resultSeq + Len(offers)
  BY <1>2, <1>4 DEF NewRows, Row, Offer, Job
<1>6. /\ r \in RunState /\ r.pc = "finishing" /\ r.inserted = NewRows(j, offers)
      /\ r.job = j /\ r.row = run[w].row /\ r.dirty = run[w].dirty
      /\ r.existing = run[w].existing /\ r.event = run[w].event /\ r.entry = run[w].entry
  BY <1>2, <1>5 DEF RunState
<1>7. SetRun(w, r) /\ UNCHANGED <<results, events>> /\ resultSeq' \in Nat /\ resultSeq <= resultSeq'
  BY <1>2, <1>3, <1>4 DEF ReplaceRows
<1> HIDE DEF r
<1>8. SessionFits(r)
  BY <1>1, <1>5, <1>6 DEF SessionFits
<1>9. \A x \in r.inserted : resultSeq < x.id /\ x.id <= resultSeq'
  BY <1>3, <1>5, <1>6
<1> QED BY <1>1, <1>6, <1>7, <1>8, <1>9, RunMoves DEF Holding

\* A run that finishes sees, of its job, the rows it has inserted: those that
\* were there it has deleted, and nobody else may add to them meanwhile.
LEMMA SeesItsOwn ==
  ASSUME RunInv, NEW w \in Workers, run[w].pc = "finishing"
  PROVE  {r \in View(w) : r.job = run[w].job} = run[w].inserted
<1>1. SessionFits(run[w])
  BY DEF RunInv, SessionsFit
<1>2. RowsOf(run[w].job) \subseteq run[w].existing
      /\ \A x \in run[w].inserted : x.job = run[w].job
  BY <1>1 DEF SessionFits
<1> QED BY <1>2 DEF View, Deletes, RowsOf

LEMMA FinishRunKeeps ==
  ASSUME RunInv, CreationInv', NEW w \in Workers, FinishRun(w)
  PROVE  RunInv'
<1> DEFINE j    == run[w].job
           mine == run[w].inserted
           new  == [run[w].row EXCEPT !.status = Verdict(mine), !.attempts = @ + 1]
           f    == Flushed(w, new)
           r    == [f EXCEPT !.pc = "flushed", !.entry = "success", !.event = Notice(j, mine)]
<1>1. TypeInv /\ run[w].pc = "finishing" /\ SessionFits(run[w])
  BY DEF RunInv, CreationInv, FinishRun, SessionsFit
<1>2. /\ run[w] \in RunState /\ run[w].row \in Progress /\ run[w].row.attempts \in Nat
      /\ j \in DOMAIN jobs /\ jobs[j] \in Job /\ mine \subseteq Row
      /\ Len(attemptLog[j]) \in Nat /\ resultSeq \in Nat /\ j \in Nat
  BY <1>1, RunTypes DEF TypeInv, TypeOK
<1>3. SetRun(w, r) /\ UNCHANGED <<results, events, resultSeq>>
  BY <1>1, SeesItsOwn DEF FinishRun, Notice
<1>4. new \in Progress /\ new.status = Verdict(mine) /\ new.attempts = run[w].row.attempts + 1
  <2>1. Verdict(mine) \in Status /\ run[w].row.attempts + 1 \in Nat
    BY <1>2 DEF Verdict, Status
  <2>2. new = [run[w].row EXCEPT !.status = Verdict(mine), !.attempts = run[w].row.attempts + 1]
    BY <1>2 DEF Progress
  <2> DEFINE s == Verdict(mine)
             n == run[w].row.attempts + 1
             p == run[w].row
  <2>3. s \in Status /\ n \in Nat /\ p \in Progress /\ new = [p EXCEPT !.status = s, !.attempts = n]
    BY <1>2, <2>1, <2>2
  <2> HIDE DEF mine, new, s, n, p
  <2>4. LET q == [p EXCEPT !.status = s, !.attempts = n] IN
        q \in Progress /\ q.status = s /\ q.attempts = n
    BY ZenonT(30), <2>3 DEF Progress
  <2>5. new \in Progress /\ new.status = s /\ new.attempts = n
    BY Zenon, <2>3, <2>4
  <2> QED BY <2>5 DEF s, n
<1>5. Notice(j, mine) \subseteq Event
  <2>1. ASSUME Eligible(mine) # {} PROVE BestEvent(jobs[j].order, j, Eligible(mine)) \in Event
    <3>1. Best(Eligible(mine)) \in Row
      BY <1>2, <2>1, BestIsCheapest DEF Eligible
    <3> QED BY <1>2, <3>1 DEF BestEvent, Event, Row, Job
  <2> QED BY <2>1 DEF Notice
<1> HIDE DEF new
<1>6. /\ f \in RunState /\ f.row = new /\ f.dirty = run[w].dirty \cup Changed(run[w].row, new)
      /\ f.job = j /\ f.existing = run[w].existing /\ f.inserted = mine
  BY <1>1, <1>4, FlushedHas
<1> HIDE DEF f
<1>7. /\ r \in RunState /\ r.pc = "flushed" /\ r.row = new /\ r.dirty = f.dirty /\ r.job = f.job
      /\ r.existing = f.existing /\ r.inserted = f.inserted /\ r.event = Notice(j, mine)
      /\ r.entry = "success"
  <2> DEFINE ev == Notice(j, mine)
  <2>1. ev \in SUBSET Event
    BY <1>5
  <2> HIDE DEF ev
  <2>2. LET q == [f EXCEPT !.pc = "flushed", !.entry = "success", !.event = ev] IN
        /\ q \in RunState /\ q.pc = "flushed" /\ q.row = f.row /\ q.dirty = f.dirty /\ q.job = f.job
        /\ q.existing = f.existing /\ q.inserted = f.inserted /\ q.event = ev
        /\ q.entry = "success"
    BY <1>6, <2>1 DEF RunState
  <2> QED BY <1>6, <2>2 DEF ev
<1> HIDE DEF r
<1>8. "attempts" \in r.dirty /\ "status" \in r.dirty
  BY <1>1, <1>2, <1>4, <1>6, <1>7, CountedIsDirty DEF SessionFits
<1>9. r.row.attempts \in 1..(Len(attemptLog[r.job]) + 1)
  BY <1>1, <1>2, <1>4, <1>6, <1>7 DEF SessionFits
<1>10. SessionFits(r)
  <2>1. /\ RowsOf(j) \subseteq run[w].existing
        /\ \A x \in run[w].existing : /\ x.order = jobs[j].order /\ Logged(x)
                                      /\ x \in results => RowsOf(x.job) \subseteq run[w].existing
        /\ \A x \in run[w].inserted : x.job = j /\ x.order = jobs[j].order
    BY <1>1 DEF SessionFits
  <2>2. r.row.status = Verdict(r.inserted) /\ r.event = Notice(r.job, r.inserted)
    BY <1>4, <1>6, <1>7
  <2> QED BY <1>6, <1>7, <1>8, <1>9, <2>1, <2>2 DEF SessionFits
<1> QED BY <1>1, <1>2, <1>3, <1>6, <1>7, <1>10, RunMoves DEF Holding

LEMMA AbortRunKeeps ==
  ASSUME RunInv, CreationInv', NEW w \in Workers, AbortRun(w)
  PROVE  RunInv'
<1>1. NoRun \in RunState /\ NoRun.pc = "idle" /\ NoRun.inserted = {} /\ SessionFits(NoRun)
  BY DEF NoRun, RunState, Progress, Fresh, Status, SessionFits
<1>2. resultSeq \in Nat
  BY RunTypes DEF RunInv, CreationInv
<1> QED BY <1>1, <1>2, RunMoves DEF AbortRun


\* A step of create_job that commits nothing.
LEMMA ClientQuiet ==
  ASSUME RunInv, CreationInv',
         UNCHANGED <<jobs, attemptLog, results, events, resultSeq, run>>
  PROVE  RunInv'
<1>1. OneHolder' /\ IdsApart' /\ LogFits' /\ RowsLogged'
  BY DEF RunInv, OneHolder, Holding, IdsApart, LogFits, RowsLogged, Logged
<1>2. EventsLogged' /\ StatusIsLastOutcome' /\ AttemptsWithinLog'
  BY DEF RunInv, EventsLogged, Notice, StatusIsLastOutcome, LastEntry, Verdict, AttemptsWithinLog
<1>3. SessionsFit'
  <2>1. \A x : SessionFits(x)' <=> SessionFits(x)
    BY DEF SessionFits, RowsOf, Logged, Notice
  <2> QED BY <2>1 DEF RunInv, SessionsFit
<1> QED BY <1>1, <1>2, <1>3 DEF RunInv

\* A new job has no runs, and nothing of the other jobs changes.
LEMMA CommitJobKeeps ==
  ASSUME RunInv, CreationInv', NEW c \in Clients, CommitJob(c)
  PROVE  RunInv'
<1> DEFINE id == request[c].id
<1>1. id \notin DOMAIN jobs /\ TypeInv
  BY DEF RunInv, CreationInv, KeyInv, CommitJob
<1>2. /\ DOMAIN jobs' = DOMAIN jobs \cup {id}
      /\ DOMAIN attemptLog' = DOMAIN jobs \cup {id}
      /\ \A j \in DOMAIN jobs : jobs'[j] = jobs[j] /\ attemptLog'[j] = attemptLog[j]
      /\ jobs'[id].progress = Fresh /\ attemptLog'[id] = <<>>
      /\ UNCHANGED <<results, events, resultSeq, run>>
  BY <1>1 DEF CommitJob
<1>3. \A w \in Workers : /\ run'[w] = run[w]
                         /\ run[w].pc # "idle" => run[w].job \in DOMAIN jobs
  BY <1>1, <1>2, RunTypes
<1>4. DOMAIN attemptLog'[id] = {} /\ Len(attemptLog'[id]) = 0
  BY <1>2
<1>5. OneHolder'
  BY <1>3 DEF RunInv, OneHolder, Holding
<1>6. IdsApart'
  BY <1>2, <1>4 DEF RunInv, IdsApart
<1>7. LogFits'
  BY <1>2, <1>4 DEF RunInv, LogFits
<1>8. \A x : Logged(x)' <=> Logged(x)
  BY <1>1, <1>2, <1>4 DEF Logged
<1>9. RowsLogged'
  BY <1>2, <1>8 DEF RunInv, RowsLogged
<1>10. \A j \in DOMAIN jobs : \A offers : Notice(j, offers)' = Notice(j, offers)
  BY <1>2 DEF Notice
<1>11. EventsLogged'
  BY <1>2, <1>4, <1>10 DEF RunInv, EventsLogged
<1>12. StatusIsLastOutcome' /\ AttemptsWithinLog'
  <2>1. \A j \in DOMAIN jobs : LastEntry(j)' = LastEntry(j)
    BY <1>2 DEF LastEntry
  <2>2. /\ StatusIsLastOutcome' <=> \A j \in DOMAIN jobs' :
              jobs'[j].progress.status =
                IF attemptLog'[j] = <<>> \/ LastEntry(j)'.status = "retryable_failure"
                THEN "pending" ELSE Verdict(LastEntry(j)'.offers)
        /\ jobs'[id].progress.status = "pending" /\ jobs'[id].progress.attempts = 0
    BY <1>2 DEF StatusIsLastOutcome, Verdict, Fresh
  <2>3. StatusIsLastOutcome'
    BY <1>2, <2>1, <2>2 DEF RunInv, StatusIsLastOutcome
  <2>4. AttemptsWithinLog'
    BY <1>2, <1>4, <2>2 DEF RunInv, AttemptsWithinLog
  <2> QED BY <2>3, <2>4
<1>13. SessionsFit'
  <2> SUFFICES ASSUME NEW w \in Workers PROVE SessionFits(run[w])'
    BY DEF SessionsFit
  <2>1. SessionFits(run[w]) /\ run'[w] = run[w]
    BY <1>3 DEF RunInv, SessionsFit
  <2>2. CASE run[w].pc = "idle"
    BY <2>1, <2>2 DEF SessionFits
  <2>3. CASE run[w].pc # "idle"
    <3>1. /\ run[w].job \in DOMAIN jobs
          /\ jobs'[run[w].job] = jobs[run[w].job]
          /\ attemptLog'[run[w].job] = attemptLog[run[w].job]
      BY <1>2, <1>3, <2>3
    <3>2. \A j : RowsOf(j)' = RowsOf(j)
      BY <1>2 DEF RowsOf
    <3> QED BY <1>2, <1>8, <1>10, <2>1, <3>1, <3>2 DEF SessionFits, Verdict
  <2> QED BY <2>2, <2>3
<1> QED BY <1>5, <1>6, <1>7, <1>9, <1>11, <1>12, <1>13 DEF RunInv

\* What the commit of a run writes.
LEMMA CommitWrites ==
  ASSUME RunInv, NEW w \in Workers, CommitRun(w)
  PROVE  LET r == run[w]
             j == run[w].job
             n == Len(attemptLog[j]) + 1
         IN /\ TypeInv /\ SessionFits(r) /\ r.pc = "flushed" /\ j \in DOMAIN jobs /\ n \in Nat \ {0}
            /\ r.entry \in {"success", "retryable_failure"}
            /\ DOMAIN jobs' = DOMAIN jobs
            /\ \A k \in DOMAIN jobs : jobs'[k].order = jobs[k].order /\ jobs'[k].key = jobs[k].key
            /\ \A k \in DOMAIN jobs : k # j =>
                 jobs'[k] = jobs[k] /\ attemptLog'[k] = attemptLog[k]
            /\ jobs'[j].progress.status = r.row.status
            /\ jobs'[j].progress.attempts = r.row.attempts
            /\ jobs'[j].progress.retry =
                 IF "retry" \in r.dirty THEN r.row.retry ELSE jobs[j].progress.retry
            /\ DOMAIN attemptLog[j] = 1..(n - 1) /\ DOMAIN attemptLog'[j] = 1..n
            /\ Len(attemptLog'[j]) = n
            /\ \A i \in 1..(n - 1) : attemptLog'[j][i] = attemptLog[j][i]
            /\ attemptLog'[j][n] = [status |-> r.entry, offers |-> r.inserted, since |-> r.since]
            /\ results' = (results \ r.existing) \cup r.inserted
            /\ events' = events \cup r.event
            /\ run'[w] = NoRun /\ \A v \in Workers \ {w} : run'[v] = run[v]
            /\ UNCHANGED <<jobSeq, resultSeq, request, started>>
<1> DEFINE r == run[w]
           j == run[w].job
           n == Len(attemptLog[j]) + 1
<1>1. TypeInv /\ SessionFits(r) /\ r.pc = "flushed"
  BY DEF RunInv, CreationInv, SessionsFit, CommitRun
<1>2. /\ r \in RunState /\ j \in DOMAIN jobs /\ r.entry \in {"success", "retryable_failure"}
      /\ attemptLog[j] \in Seq(Entry) /\ Len(attemptLog[j]) \in Nat
      /\ DOMAIN attemptLog[j] = 1..Len(attemptLog[j])
  BY <1>1, RunTypes DEF RunState, TypeInv, RefsOK
<1>3. {"status", "attempts"} \subseteq r.dirty
  BY <1>1 DEF SessionFits
<1>4. /\ jobs' = [jobs EXCEPT ![j].progress = Overlay(jobs[j].progress, r)]
      /\ attemptLog' = [attemptLog EXCEPT ![j] =
                          Append(attemptLog[j],
                                 [status |-> r.entry, offers |-> r.inserted, since |-> r.since])]
      /\ results' = View(w) /\ events' = events \cup r.event
      /\ run' = [run EXCEPT ![w] = NoRun]
      /\ UNCHANGED <<jobSeq, resultSeq, request, started>>
  BY DEF CommitRun
<1>5. /\ DOMAIN jobs' = DOMAIN jobs
      /\ \A k \in DOMAIN jobs : jobs'[k].order = jobs[k].order /\ jobs'[k].key = jobs[k].key
      /\ \A k \in DOMAIN jobs : k # j => jobs'[k] = jobs[k]
      /\ jobs'[j].progress = Overlay(jobs[j].progress, r)
  BY <1>1, <1>2, <1>4, RunTypes DEF Job
<1>6. /\ jobs'[j].progress.status = r.row.status
      /\ jobs'[j].progress.attempts = r.row.attempts
      /\ jobs'[j].progress.retry =
           IF "retry" \in r.dirty THEN r.row.retry ELSE jobs[j].progress.retry
  BY <1>3, <1>5 DEF Overlay
<1>7. /\ \A k \in DOMAIN jobs : k # j => attemptLog'[k] = attemptLog[k]
      /\ attemptLog'[j] =
           Append(attemptLog[j], [status |-> r.entry, offers |-> r.inserted, since |-> r.since])
  BY <1>1, <1>2, <1>4 DEF TypeInv, TypeOK
<1>8. /\ DOMAIN attemptLog'[j] = 1..n /\ Len(attemptLog'[j]) = n
      /\ \A i \in 1..(n - 1) : attemptLog'[j][i] = attemptLog[j][i]
      /\ attemptLog'[j][n] = [status |-> r.entry, offers |-> r.inserted, since |-> r.since]
  <2> DEFINE s == attemptLog[j]
             x == [status |-> r.entry, offers |-> r.inserted, since |-> r.since]
  <2>1. s \in Seq(Entry) /\ x \in Entry /\ attemptLog'[j] = Append(s, x)
    BY <1>2, <1>7 DEF Entry, RunState
  <2> HIDE DEF s, x
  <2>2. DOMAIN Append(s, x) = 1..(Len(s) + 1) /\ Len(Append(s, x)) = Len(s) + 1
        /\ \A i \in 1..Len(s) : Append(s, x)[i] = s[i]
        /\ Append(s, x)[Len(s) + 1] = x
    BY <2>1
  <2> QED BY <1>2, <2>1, <2>2 DEF s, x
<1>9. results' = (results \ r.existing) \cup r.inserted
  BY <1>1, <1>4 DEF View, Deletes
<1>10. run'[w] = NoRun /\ \A v \in Workers \ {w} : run'[v] = run[v]
  BY <1>1, <1>4 DEF TypeInv, TypeOK
<1>11. n \in Nat \ {0} /\ DOMAIN attemptLog[j] = 1..(n - 1)
  BY <1>2
<1> HIDE DEF n
<1> QED BY <1>1, <1>2, <1>4, <1>5, <1>6, <1>7, <1>8, <1>9, <1>10, <1>11 DEF n


LEMMA CommitRunKeeps ==
  ASSUME RunInv, CreationInv', NEW w \in Workers, CommitRun(w)
  PROVE  RunInv'
\* Rigid names: under a prime they keep the values of before the step.
<1>a. PICK r, j, n : r = run[w] /\ j = run[w].job /\ n = Len(attemptLog[j]) + 1
  OBVIOUS
<1>1. /\ TypeInv /\ SessionFits(r) /\ r.pc = "flushed" /\ j \in DOMAIN jobs /\ n \in Nat \ {0}
      /\ r.entry \in {"success", "retryable_failure"}
      /\ DOMAIN jobs' = DOMAIN jobs
      /\ \A k \in DOMAIN jobs : jobs'[k].order = jobs[k].order
      /\ \A k \in DOMAIN jobs : k # j => jobs'[k] = jobs[k] /\ attemptLog'[k] = attemptLog[k]
      /\ jobs'[j].progress.status = r.row.status
      /\ jobs'[j].progress.attempts = r.row.attempts
      /\ DOMAIN attemptLog[j] = 1..(n - 1) /\ DOMAIN attemptLog'[j] = 1..n
      /\ Len(attemptLog'[j]) = n
      /\ \A i \in 1..(n - 1) : attemptLog'[j][i] = attemptLog[j][i]
      /\ attemptLog'[j][n] = [status |-> r.entry, offers |-> r.inserted, since |-> r.since]
      /\ results' = (results \ r.existing) \cup r.inserted
      /\ events' = events \cup r.event
      /\ run'[w] = NoRun /\ (\A v \in Workers \ {w} : run'[v] = run[v])
      /\ resultSeq' = resultSeq
  BY <1>a, CommitWrites
<1>2. \A k \in DOMAIN jobs : \A i \in DOMAIN attemptLog'[k] :
        \/ /\ k = j /\ i = n
           /\ attemptLog'[k][i].offers = r.inserted /\ attemptLog'[k][i].status = r.entry
        \/ i \in DOMAIN attemptLog[k] /\ attemptLog'[k][i] = attemptLog[k][i]
  BY <1>1
<1>3. \A k \in DOMAIN jobs : \A i \in DOMAIN attemptLog[k] :
        i \in DOMAIN attemptLog'[k] /\ attemptLog'[k][i] = attemptLog[k][i] /\ ~(k = j /\ i = n)
  BY <1>1
<1>4. n \in DOMAIN attemptLog'[j] /\ attemptLog'[j][n].offers = r.inserted
      /\ attemptLog'[j][n].status = r.entry
  BY <1>1
<1>5. /\ \A x \in r.inserted : x.job = j /\ x.order = jobs[j].order
      /\ r.entry = "retryable_failure" => r.existing = {} /\ r.inserted = {} /\ r.event = {}
      /\ r.event = Notice(j, r.inserted)
      /\ r.row.status = IF r.entry = "retryable_failure" THEN "pending" ELSE Verdict(r.inserted)
      /\ r.row.attempts \in 1..n
      /\ r.entry = "success" => RowsOf(j) \subseteq r.existing
  <2>1. r.entry = "retryable_failure" => Notice(j, r.inserted) = {}
    BY <1>1 DEF SessionFits, Notice, Eligible
  <2> QED BY <1>a, <1>1, <2>1 DEF SessionFits
<1>6. OneHolder'
  BY <1>1 DEF RunInv, OneHolder, Holding, NoRun
<1>7. IdsApart'
  <2>1. run'[w].inserted = {} /\ \A v \in Workers \ {w} : run'[v].inserted = run[v].inserted
    BY <1>1 DEF NoRun
  <2>2. \A k, l \in DOMAIN jobs : \A i \in DOMAIN attemptLog'[k], m \in DOMAIN attemptLog'[l] :
          \A x \in attemptLog'[k][i].offers, y \in attemptLog'[l][m].offers :
            x.id = y.id => k = l /\ i = m
    <3> SUFFICES ASSUME NEW k \in DOMAIN jobs, NEW l \in DOMAIN jobs,
                        NEW i \in DOMAIN attemptLog'[k], NEW m \in DOMAIN attemptLog'[l],
                        NEW x \in attemptLog'[k][i].offers, NEW y \in attemptLog'[l][m].offers,
                        x.id = y.id
                 PROVE  k = l /\ i = m
      OBVIOUS
    <3>1. \/ k = j /\ i = n /\ x \in r.inserted
          \/ i \in DOMAIN attemptLog[k] /\ x \in attemptLog[k][i].offers
      BY <1>2
    <3>2. \/ l = j /\ m = n /\ y \in r.inserted
          \/ m \in DOMAIN attemptLog[l] /\ y \in attemptLog[l][m].offers
      BY <1>2
    <3> QED BY <1>a, <3>1, <3>2 DEF RunInv, IdsApart
  <2>3. \A k \in DOMAIN jobs : \A i \in DOMAIN attemptLog'[k] : \A x \in attemptLog'[k][i].offers :
          /\ x.id <= resultSeq
          /\ \A v \in Workers : \A s \in run'[v].inserted : x.id # s.id
    <3> SUFFICES ASSUME NEW k \in DOMAIN jobs, NEW i \in DOMAIN attemptLog'[k],
                        NEW x \in attemptLog'[k][i].offers
                 PROVE  /\ x.id <= resultSeq
                        /\ \A v \in Workers : \A s \in run'[v].inserted : x.id # s.id
      OBVIOUS
    <3>1. \/ x \in r.inserted
          \/ i \in DOMAIN attemptLog[k] /\ x \in attemptLog[k][i].offers
      BY <1>2
    <3> QED BY <1>a, <2>1, <3>1 DEF RunInv, IdsApart
  <2>4. \A v \in Workers : \A x \in run'[v].inserted :
          /\ x.id <= resultSeq
          /\ \A u \in Workers \ {v} : \A s \in run'[u].inserted : x.id # s.id
    BY <2>1 DEF RunInv, IdsApart
  <2> QED BY <1>1, <2>2, <2>3, <2>4 DEF IdsApart
<1>8. LogFits'
  BY <1>1, <1>2, <1>5 DEF RunInv, LogFits
<1>9. (\A x : Logged(x) => Logged(x)') /\ \A x \in r.inserted : Logged(x)'
  BY <1>1, <1>3, <1>4 DEF Logged
<1>10. RowsLogged'
  BY <1>1, <1>9 DEF RunInv, RowsLogged
<1>11. \A k \in DOMAIN jobs : \A i \in DOMAIN attemptLog'[k] :
         Notice(k, attemptLog[k][i].offers)' =
           IF k = j /\ i = n THEN r.event ELSE Notice(k, attemptLog[k][i].offers)
  <2> SUFFICES ASSUME NEW k \in DOMAIN jobs, NEW i \in DOMAIN attemptLog'[k]
               PROVE  Notice(k, attemptLog[k][i].offers)' =
                        IF k = j /\ i = n THEN r.event ELSE Notice(k, attemptLog[k][i].offers)
    OBVIOUS
  <2>1. jobs'[k].order = jobs[k].order
    BY <1>1
  <2>2. CASE k = j /\ i = n
    BY <1>4, <1>5, <2>1, <2>2 DEF Notice
  <2>3. CASE ~(k = j /\ i = n)
    BY <1>2, <2>1, <2>3 DEF Notice
  <2> QED BY <2>2, <2>3
<1>12. EventsLogged'
  <2>1. ASSUME NEW k \in DOMAIN jobs, NEW i \in DOMAIN attemptLog'[k]
        PROVE  Notice(k, attemptLog[k][i].offers)' \subseteq events'
    <3>1. CASE k = j /\ i = n
      BY <1>1, <1>11, <3>1
    <3>2. CASE ~(k = j /\ i = n)
      BY <1>1, <1>2, <1>11, <3>2 DEF RunInv, EventsLogged
    <3> QED BY <3>1, <3>2
  <2>2. ASSUME NEW e \in events'
        PROVE  \E k \in DOMAIN jobs : \E i \in DOMAIN attemptLog'[k] :
                 e \in Notice(k, attemptLog[k][i].offers)'
    <3>1. CASE e \in r.event
      <4>1. e \in Notice(j, attemptLog[j][n].offers)'
        BY <1>1, <1>4, <1>11, <3>1
      <4> QED BY <1>1, <1>4, <4>1
    <3>2. CASE e \in events
      <4>1. PICK k \in DOMAIN jobs : \E i \in DOMAIN attemptLog[k] :
              e \in Notice(k, attemptLog[k][i].offers)
        BY <3>2 DEF RunInv, EventsLogged
      <4>2. PICK i \in DOMAIN attemptLog[k] : e \in Notice(k, attemptLog[k][i].offers)
        BY <4>1
      <4>3. i \in DOMAIN attemptLog'[k] /\ e \in Notice(k, attemptLog[k][i].offers)'
        BY <1>3, <1>11, <4>2
      <4> QED BY <4>3
    <3> QED BY <1>1, <3>1, <3>2
  <2> QED BY <1>1, <2>1, <2>2 DEF EventsLogged
<1>13. StatusIsLastOutcome'
  <2>1. \A k \in DOMAIN jobs \ {j} : LastEntry(k)' = LastEntry(k) /\ jobs'[k] = jobs[k]
    BY <1>1 DEF LastEntry
  <2>2. /\ LastEntry(j)'.status = r.entry /\ LastEntry(j)'.offers = r.inserted
        /\ attemptLog'[j] # <<>> /\ jobs'[j].progress.status = r.row.status
    BY <1>1, <1>4 DEF LastEntry
  <2> SUFFICES ASSUME NEW k \in DOMAIN jobs
               PROVE  jobs'[k].progress.status =
                        IF attemptLog'[k] = <<>> \/ LastEntry(k)'.status = "retryable_failure"
                        THEN "pending" ELSE Verdict(LastEntry(k)'.offers)
    BY <1>1 DEF StatusIsLastOutcome, Verdict
  <2>3. CASE k = j
    BY <1>5, <2>2, <2>3
  <2>4. CASE k # j
    BY <1>1, <2>1, <2>4 DEF RunInv, StatusIsLastOutcome
  <2> QED BY <2>3, <2>4
<1>14. AttemptsWithinLog'
  BY <1>1, <1>5 DEF RunInv, AttemptsWithinLog
<1>15. SessionsFit'
  <2> SUFFICES ASSUME NEW v \in Workers PROVE SessionFits(run[v])'
    BY DEF SessionsFit
  <2>1. CASE v = w
    BY <1>1, <2>1 DEF SessionFits, NoRun
  <2>2. CASE v # w /\ run[v].pc = "idle"
    BY <1>1, <2>2 DEF SessionFits, RunInv, SessionsFit
  <2>3. CASE v # w /\ run[v].pc = "loaded"
    <3>1. /\ run'[v] = run[v] /\ SessionFits(run[v]) /\ run[v].job \in DOMAIN jobs
          /\ run[v].row.attempts \in Nat
      BY <1>1, <2>3, RunTypes DEF RunInv, SessionsFit
    <3>2. Len(attemptLog[run[v].job]) <= Len(attemptLog'[run[v].job])
          /\ Len(attemptLog[run[v].job]) \in Nat /\ Len(attemptLog'[run[v].job]) \in Nat
      <4>1. Len(attemptLog[run[v].job]) \in Nat
        BY <1>1, <3>1, RunTypes
      <4>2. CASE run[v].job = j
        BY <1>a, <1>1, <4>1, <4>2
      <4>3. CASE run[v].job # j
        BY <1>1, <3>1, <4>1, <4>3
      <4> QED BY <4>2, <4>3
    <3>3. run[v].row.attempts <= Len(attemptLog'[run[v].job])
      BY <2>3, <3>1, <3>2 DEF SessionFits
    <3> QED BY <2>3, <3>1, <3>3 DEF SessionFits
  <2>4. CASE v # w /\ run[v].pc \notin {"idle", "loaded"}
    <3>a. PICK q, k : q = run[v] /\ k = run[v].job
      OBVIOUS
    <3>1. run'[v] = q /\ SessionFits(q) /\ k \in DOMAIN jobs
      BY <1>1, <2>4, <3>a, RunTypes DEF RunInv, SessionsFit
    <3>2. k # j
      BY <1>a, <1>1, <2>4, <3>a DEF RunInv, OneHolder, Holding
    <3>3. jobs'[k] = jobs[k] /\ attemptLog'[k] = attemptLog[k]
      BY <1>1, <3>1, <3>2
    <3>4. \A l : l # j => RowsOf(l)' \subseteq RowsOf(l)
      BY <1>1, <1>5 DEF RowsOf
    <3>5. ASSUME NEW x \in q.existing, Logged(x), x \in results', RowsOf(x.job) \subseteq q.existing \/ x \notin results
          PROVE  RowsOf(x.job)' \subseteq q.existing
      <4>1. x \notin r.inserted
        BY <1>a, <3>5 DEF Logged, RunInv, IdsApart
      <4>2. x \in results \ r.existing
        BY <1>1, <3>5, <4>1
      <4>3. CASE x.job = j
        <5>1. r.entry = "retryable_failure"
          BY <1>1, <1>5, <4>2, <4>3 DEF RowsOf
        <5>2. results' = results
          BY <1>1, <1>5, <5>1
        <5> QED BY <3>5, <4>2, <5>2 DEF RowsOf
      <4>4. CASE x.job # j
        BY <3>4, <3>5, <4>2, <4>4
      <4> QED BY <4>3, <4>4
    <3>6. ASSUME q.pc \in {"replacing", "finishing"} \/ (q.pc = "flushed" /\ q.entry = "success")
          PROVE  /\ RowsOf(k)' \subseteq q.existing
                 /\ \A x \in q.existing : /\ x.order = jobs'[k].order /\ Logged(x)'
                                          /\ x \in results' => RowsOf(x.job)' \subseteq q.existing
      <4>1. /\ RowsOf(k) \subseteq q.existing
            /\ \A x \in q.existing : /\ x.order = jobs[k].order /\ Logged(x)
                                     /\ x \in results => RowsOf(x.job) \subseteq q.existing
        BY <3>a, <3>1, <3>6 DEF SessionFits
      <4>2. \A x \in q.existing : x \in results' => RowsOf(x.job)' \subseteq q.existing
        BY <3>5, <4>1
      <4>3. RowsOf(k)' \subseteq q.existing
        BY <3>2, <3>4, <4>1
      <4> QED BY <1>9, <3>3, <4>1, <4>2, <4>3
    <3>7. Notice(k, q.inserted)' = Notice(k, q.inserted)
      BY <3>1, <3>3 DEF Notice
    <3>8. Verdict(q.inserted)' = Verdict(q.inserted)
      BY <3>1 DEF Verdict
    <3> QED BY <3>a, <3>1, <3>3, <3>6, <3>7, <3>8 DEF SessionFits
  <2> QED BY <2>1, <2>2, <2>3, <2>4
<1> QED BY <1>6, <1>7, <1>8, <1>10, <1>12, <1>13, <1>14, <1>15 DEF RunInv


\* Every step keeps the invariant.
LEMMA StepRunInv ==
  ASSUME RunInv, [Next]_vars
  PROVE  RunInv'
<1>1. CreationInv'
  BY StepTypeInv, StepKeyInv DEF RunInv, CreationInv
<1>2. CASE UNCHANGED vars
  BY <1>1, <1>2, ClientQuiet DEF vars
<1>3. ASSUME NEW c \in Clients, ClientStep(c) \/ AbortRequest(c)
      PROVE  RunInv'
  <2>1. CASE CommitJob(c)
    BY <1>1, <2>1, CommitJobKeeps
  <2>2. CASE ~CommitJob(c)
    <3>1. UNCHANGED <<jobs, attemptLog, results, events, resultSeq, run>>
      BY <1>3, <2>2 DEF ClientStep, OrderMissing, LookUpJob, InsertJob, InsertConflicts,
                        RecoverJob, AnswerFound, AbortRequest, RequestStep
    <3> QED BY <1>1, <3>1, ClientQuiet
  <2> QED BY <2>1, <2>2
<1>4. ASSUME NEW w \in Workers,
             WorkerStep(w) \/ AbortRun(w) \/ \E j \in DOMAIN jobs : LoadJob(w, j)
      PROVE  RunInv'
  BY <1>1, <1>4, MarkRunningKeeps, SearchFailsKeeps, SelectExistingKeeps, ReplaceRowsKeeps,
     FinishRunKeeps, CommitRunKeeps, AbortRunKeeps, LoadJobKeeps DEF WorkerStep
<1> QED BY <1>2, <1>3, <1>4 DEF Next

LEMMA RunInvariant == Spec => []RunInv
BY InitRunInv, StepRunInv, PTL DEF Spec

\* A job's committed status is the outcome of its last logged run, for any
\* number of workers that run the job at once, and never "running".
THEOREM StatusOfLastRun == Spec => []StatusIsLastOutcome
BY RunInvariant, PTL DEF RunInv

\* Overlapping runs lose increments of attempts, but the count never exceeds
\* the runs logged and is never zero once there is one.
THEOREM AttemptsBounded == Spec => []AttemptsWithinLog
BY RunInvariant, PTL DEF RunInv

\* The event of a run is the one that names the cheapest eligible offer of it.
LEMMA NoticeHas ==
  ASSUME RunInv, NEW j \in DOMAIN jobs, NEW i \in DOMAIN attemptLog[j],
         NEW e \in Notice(j, attemptLog[j][i].offers)
  PROVE  LET offers == Eligible(attemptLog[j][i].offers) IN
         /\ jobs[j].order \in CompletedOrders /\ offers # {}
         /\ e = [order |-> jobs[j].order, job |-> j, result |-> Best(offers).id,
                 price |-> Best(offers).price]
         /\ Best(offers) \in offers
         /\ \A r \in offers : Best(offers).price <= r.price
<1> DEFINE offers == Eligible(attemptLog[j][i].offers)
<1>1. jobs[j].order \in CompletedOrders /\ offers # {} /\ e = BestEvent(jobs[j].order, j, offers)
  BY DEF Notice
<1>2. offers \subseteq Row
  BY RunTypes DEF Eligible, RunInv, CreationInv
<1> HIDE DEF offers
<1>3. Best(offers) \in offers /\ \A r \in offers : Best(offers).price <= r.price
  BY <1>1, <1>2, BestIsCheapest
<1> QED BY <1>1, <1>3 DEF BestEvent, offers

\* Runs that owe an event, and what answers one: the definitions that
\* EventsOfSuccesses makes for itself.
OwedRuns ==
  {x \in UNION {{j} \X Successes(j) : j \in DOMAIN jobs} :
     /\ jobs[x[1]].order \in CompletedOrders
     /\ Eligible(attemptLog[x[1]][x[2]].offers) # {}}

AnswersRun(e, x) ==
  LET offers == Eligible(attemptLog[x[1]][x[2]].offers) IN
  /\ e.job = x[1]
  /\ e.order = jobs[x[1]].order
  /\ \E r \in offers : r.id = e.result /\ r.price = e.price
  /\ \A r \in offers : e.price <= r.price

\* Owed by the run i of job j, in other words.
LEMMA OwedBy ==
  ASSUME RunInv
  PROVE  /\ \A x \in OwedRuns : /\ x[1] \in DOMAIN jobs /\ x[2] \in DOMAIN attemptLog[x[1]]
                                /\ jobs[x[1]].order \in CompletedOrders
                                /\ Eligible(attemptLog[x[1]][x[2]].offers) # {}
         /\ \A j \in DOMAIN jobs : \A i \in DOMAIN attemptLog[j] :
              jobs[j].order \in CompletedOrders /\ Eligible(attemptLog[j][i].offers) # {} =>
                <<j, i>> \in OwedRuns
<1>1. \A x \in OwedRuns : /\ x[1] \in DOMAIN jobs /\ x[2] \in DOMAIN attemptLog[x[1]]
                          /\ jobs[x[1]].order \in CompletedOrders
                          /\ Eligible(attemptLog[x[1]][x[2]].offers) # {}
  BY DEF OwedRuns, Successes
<1>2. ASSUME NEW j \in DOMAIN jobs, NEW i \in DOMAIN attemptLog[j],
             jobs[j].order \in CompletedOrders, Eligible(attemptLog[j][i].offers) # {}
      PROVE  <<j, i>> \in OwedRuns
  <2>1. attemptLog[j][i].offers # {}
    BY <1>2 DEF Eligible
  <2>2. attemptLog[j][i] \in Entry
    BY RunTypes DEF RunInv, CreationInv
  <2>3. attemptLog[j][i].status = "success"
    BY <2>1, <2>2 DEF RunInv, LogFits, Entry
  <2>4. i \in Successes(j)
    BY <2>3 DEF Successes
  <2> QED BY <1>2, <2>4 DEF OwedRuns
<1> QED BY <1>1, <1>2

\* Transactional outbox, for any number of overlapping runs: every successful
\* run of a completed order that found an eligible offer has exactly one event,
\* which names its cheapest offer, and there are no other events.
THEOREM EventPerSuccess == Spec => []EventsOfSuccesses
<1>1. ASSUME RunInv PROVE EventsOfSuccesses
  <2>1. ASSUME NEW x \in OwedRuns
        PROVE  Cardinality({e \in events : AnswersRun(e, x)}) = 1
    <3>a. PICK j, i : j = x[1] /\ i = x[2]
      OBVIOUS
    <3> DEFINE offers == Eligible(attemptLog[j][i].offers)
               ev     == BestEvent(jobs[j].order, j, offers)
    <3>1. /\ j \in DOMAIN jobs /\ i \in DOMAIN attemptLog[j]
          /\ jobs[j].order \in CompletedOrders /\ offers # {}
      BY <1>1, <3>a, OwedBy
    <3>2. ev \in Notice(j, attemptLog[j][i].offers)
      BY <3>1 DEF Notice
    <3>3. /\ ev \in events
          /\ ev = [order |-> jobs[j].order, job |-> j, result |-> Best(offers).id,
                   price |-> Best(offers).price]
          /\ Best(offers) \in offers
          /\ \A r \in offers : Best(offers).price <= r.price
      BY <1>1, <3>1, <3>2, NoticeHas DEF RunInv, EventsLogged
    <3>4. AnswersRun(ev, x)
      <4> HIDE DEF ev
      <4> QED BY <3>a, <3>3 DEF AnswersRun
    <3>5. ASSUME NEW e \in events, AnswersRun(e, x)
          PROVE  e = ev
      <4>1. PICK k \in DOMAIN jobs : \E m \in DOMAIN attemptLog[k] : e \in Notice(k, attemptLog[k][m].offers)
        BY <1>1 DEF RunInv, EventsLogged
      <4>2. PICK m \in DOMAIN attemptLog[k] : e \in Notice(k, attemptLog[k][m].offers)
        BY <4>1
      <4> DEFINE others == Eligible(attemptLog[k][m].offers)
      <4>3. e = [order |-> jobs[k].order, job |-> k, result |-> Best(others).id,
                 price |-> Best(others).price]
            /\ Best(others) \in others
        BY <1>1, <4>2, NoticeHas
      <4>4. PICK r \in offers : r.id = e.result
        BY <3>5, <3>a DEF AnswersRun
      <4>5. r \in attemptLog[j][i].offers /\ Best(others) \in attemptLog[k][m].offers
            /\ r.id = Best(others).id
        BY <4>3, <4>4 DEF Eligible
      <4>6. j = k /\ i = m
        BY <1>1, <3>1, <4>5 DEF RunInv, IdsApart
      <4> QED BY <3>3, <4>3, <4>6
    <3>6. {e \in events : AnswersRun(e, x)} = {ev}
      <4> HIDE DEF ev
      <4> QED BY <3>3, <3>4, <3>5
    <3> QED BY <3>6, FS_Singleton
  <2>2. ASSUME NEW e \in events
        PROVE  \E x \in OwedRuns : AnswersRun(e, x)
    <3>1. PICK k \in DOMAIN jobs : \E m \in DOMAIN attemptLog[k] : e \in Notice(k, attemptLog[k][m].offers)
      BY <1>1 DEF RunInv, EventsLogged
    <3>2. PICK m \in DOMAIN attemptLog[k] : e \in Notice(k, attemptLog[k][m].offers)
      BY <3>1
    <3> DEFINE offers == Eligible(attemptLog[k][m].offers)
               x      == <<k, m>>
    <3>3. /\ jobs[k].order \in CompletedOrders /\ offers # {}
          /\ e = [order |-> jobs[k].order, job |-> k, result |-> Best(offers).id,
                  price |-> Best(offers).price]
          /\ Best(offers) \in offers
          /\ \A r \in offers : Best(offers).price <= r.price
      BY <1>1, <3>2, NoticeHas
    <3>4. x \in OwedRuns
      BY <1>1, <3>3, OwedBy
    <3>5. AnswersRun(e, x)
      BY <3>3 DEF AnswersRun
    <3> QED BY <3>4, <3>5
  <2> QED BY <2>1, <2>2 DEF EventsOfSuccesses, OwedRuns, AnswersRun
<1> QED BY <1>1, RunInvariant, PTL
-----------------------------------------------------------------------------
(* The error columns *)

\* A failure that every run which succeeded after it had overlapped.
Recent(j, i) ==
  /\ attemptLog[j][i].status = "retryable_failure"
  /\ \A k \in DOMAIN attemptLog[j] : k > i => attemptLog[j][k].since < i

\* A session that has not written the error columns: it loaded them clear.
Blind(r) == IF r.pc = "loaded" THEN r.row.retry = FALSE ELSE "retry" \notin r.dirty

\* A session that would leave an error in the committed row has missed the failure
\* that set it: the failure was logged after the session loaded the job.
ErrorsFit(r) ==
  r.pc # "idle" =>
    /\ r.since <= Len(attemptLog[r.job])
    /\ r.pc \in {"searching", "replacing", "finishing"} \/ (r.pc = "flushed" /\ r.entry = "success") =>
         r.row.retry = FALSE
    /\ r.pc = "flushed" /\ r.entry = "retryable_failure" => r.row.retry = TRUE /\ "retry" \in r.dirty
    /\ Blind(r) /\ jobs[r.job].progress.retry =>
         \E i \in DOMAIN attemptLog[r.job] : Recent(r.job, i) /\ r.since < i

ErrorsInv == RunInv /\ ErrorsAreRecent /\ \A w \in Workers : ErrorsFit(run[w])

\* What a run must leave in its own session when it commits nothing.
LEMMA ErrorsMove ==
  ASSUME ErrorsInv, RunInv', NEW w \in Workers, NEW r, SetRun(w, r), ErrorsFit(r)
  PROVE  ErrorsInv'
<1>1. /\ run'[w] = r
      /\ \A v \in Workers \ {w} : run'[v] = run[v]
      /\ UNCHANGED <<jobs, attemptLog>>
  BY DEF ErrorsInv, RunInv, CreationInv, TypeInv, TypeOK, SetRun
<1>2. \A x : ErrorsFit(x)' <=> ErrorsFit(x)
  BY <1>1 DEF ErrorsFit, Recent, Blind
<1>3. ErrorsAreRecent'
  BY <1>1 DEF ErrorsInv, ErrorsAreRecent, LastEntry
<1>4. \A v \in Workers : ErrorsFit(run[v])'
  BY <1>1, <1>2 DEF ErrorsInv
<1> QED BY <1>3, <1>4 DEF ErrorsInv

\* The step changes what the session holds, and not which job it runs or since
\* when; what it had written of the error columns it keeps.
LEMMA ErrorsFitMoves ==
  ASSUME NEW q \in RunState, NEW r \in RunState, ErrorsFit(q), q.pc # "idle",
         r.job = q.job, r.since = q.since, Blind(r) => Blind(q),
         r.pc \in {"searching", "replacing", "finishing"} \/ (r.pc = "flushed" /\ r.entry = "success") =>
           r.row.retry = FALSE,
         r.pc = "flushed" /\ r.entry = "retryable_failure" => r.row.retry = TRUE /\ "retry" \in r.dirty
  PROVE  ErrorsFit(r)
BY DEF ErrorsFit

LEMMA LoadJobErrors ==
  ASSUME ErrorsInv, RunInv', NEW w \in Workers, NEW j \in DOMAIN jobs, LoadJob(w, j)
  PROVE  ErrorsInv'
<1> DEFINE r == [NoRun EXCEPT !.pc = "loaded", !.job = j, !.row = jobs[j].progress,
                              !.since = Len(attemptLog[j])]
<1>1. Len(attemptLog[j]) \in Nat
  BY RunTypes DEF ErrorsInv, RunInv, CreationInv
<1>2. r.pc = "loaded" /\ r.job = j /\ r.row = jobs[j].progress /\ r.since = Len(attemptLog[j])
  BY DEF NoRun
<1>3. SetRun(w, r)
  BY DEF LoadJob
<1> HIDE DEF r
<1>4. Blind(r) => jobs[j].progress.retry = FALSE
  BY <1>2 DEF Blind
<1>5. ErrorsFit(r)
  BY <1>1, <1>2, <1>4 DEF ErrorsFit
<1> QED BY <1>3, <1>5, ErrorsMove

\* What a flush leaves of the session.
LEMMA FlushedErrors ==
  ASSUME TypeInv, NEW w \in Workers, NEW new \in Progress
  PROVE  LET f == Flushed(w, new) IN
         /\ f \in RunState /\ f.row = new /\ f.job = run[w].job /\ f.since = run[w].since
         /\ run[w].dirty \subseteq f.dirty
         /\ new.retry # run[w].row.retry => "retry" \in f.dirty
<1>1. run[w] \in RunState /\ Changed(run[w].row, new) \subseteq Columns
  BY RunTypes DEF Changed
<1>2. new.retry # run[w].row.retry => "retry" \in Changed(run[w].row, new)
  BY DEF Changed
<1> QED BY <1>1, <1>2 DEF Flushed, RunState

LEMMA MarkRunningErrors ==
  ASSUME ErrorsInv, RunInv', NEW w \in Workers, MarkRunning(w)
  PROVE  ErrorsInv'
<1> DEFINE new == [run[w].row EXCEPT !.status = "running", !.retry = FALSE]
           f   == Flushed(w, new)
           r   == [f EXCEPT !.pc = "searching"]
<1>1. /\ TypeInv /\ run[w].pc = "loaded" /\ run[w] \in RunState /\ run[w].row \in Progress
      /\ ErrorsFit(run[w])
  BY RunTypes DEF ErrorsInv, RunInv, CreationInv, MarkRunning
<1>2. new \in Progress /\ new.retry = FALSE
  <2>1. \A p \in Progress : LET q == [p EXCEPT !.status = "running", !.retry = FALSE] IN
          q \in Progress /\ q.retry = FALSE
    BY DEF Progress, Status
  <2> QED BY <1>1, <2>1
<1>3. SetRun(w, r)
  BY DEF MarkRunning
<1> HIDE DEF new
<1>4. /\ f \in RunState /\ f.row = new /\ f.job = run[w].job /\ f.since = run[w].since
      /\ new.retry # run[w].row.retry => "retry" \in f.dirty
  BY <1>1, <1>2, FlushedErrors
<1> HIDE DEF f
<1>5. /\ r \in RunState /\ r.pc = "searching" /\ r.row = new /\ r.dirty = f.dirty /\ r.job = f.job
      /\ r.since = f.since
  BY <1>4 DEF RunState
<1> HIDE DEF r
<1>6. Blind(r) => Blind(run[w])
  BY <1>1, <1>2, <1>4, <1>5 DEF Blind
<1>7. ErrorsFit(r)
  BY <1>1, <1>2, <1>4, <1>5, <1>6, ErrorsFitMoves
<1> QED BY <1>3, <1>7, ErrorsMove

LEMMA SearchFailsErrors ==
  ASSUME ErrorsInv, RunInv', NEW w \in Workers, SearchFails(w)
  PROVE  ErrorsInv'
<1> DEFINE new == [status |-> "pending", attempts |-> run[w].row.attempts + 1, retry |-> TRUE]
           f   == Flushed(w, new)
           r   == [f EXCEPT !.pc = "flushed", !.entry = "retryable_failure"]
<1>1. /\ TypeInv /\ run[w].pc = "searching" /\ run[w] \in RunState /\ ErrorsFit(run[w])
      /\ run[w].row.attempts \in Nat /\ run[w].row.retry = FALSE
  BY RunTypes DEF ErrorsInv, RunInv, CreationInv, SearchFails, ErrorsFit
<1>2. new \in Progress /\ new.retry = TRUE
  BY <1>1 DEF Progress, Status
<1>3. SetRun(w, r)
  BY DEF SearchFails
<1> HIDE DEF new
<1>4. /\ f \in RunState /\ f.row = new /\ f.job = run[w].job /\ f.since = run[w].since
      /\ "retry" \in f.dirty
  BY <1>1, <1>2, FlushedErrors
<1> HIDE DEF f
<1>5. /\ r \in RunState /\ r.pc = "flushed" /\ r.row = new /\ r.dirty = f.dirty /\ r.job = f.job
      /\ r.since = f.since /\ r.entry = "retryable_failure"
  BY <1>4 DEF RunState
<1> HIDE DEF r
<1>6. ErrorsFit(r)
  BY <1>1, <1>2, <1>4, <1>5, ErrorsFitMoves DEF Blind
<1> QED BY <1>3, <1>6, ErrorsMove

LEMMA SelectExistingErrors ==
  ASSUME ErrorsInv, RunInv', NEW w \in Workers, SelectExisting(w)
  PROVE  ErrorsInv'
<1> DEFINE old == {x \in results : x.order = jobs[run[w].job].order}
           r   == [run[w] EXCEPT !.pc = "replacing", !.existing = old]
<1>1. /\ run[w].pc = "searching" /\ run[w] \in RunState /\ ErrorsFit(run[w])
      /\ run[w].row.retry = FALSE /\ results \subseteq Row
  BY RunTypes DEF ErrorsInv, RunInv, CreationInv, SelectExisting, ErrorsFit
<1>2. SetRun(w, r) /\ old \subseteq Row
  BY <1>1 DEF SelectExisting
<1> HIDE DEF old
<1>3. /\ r \in RunState /\ r.pc = "replacing" /\ r.row = run[w].row /\ r.dirty = run[w].dirty
      /\ r.job = run[w].job /\ r.since = run[w].since
  BY <1>1, <1>2 DEF RunState
<1> HIDE DEF r
<1>4. ErrorsFit(r)
  BY <1>1, <1>3, ErrorsFitMoves DEF Blind
<1> QED BY <1>2, <1>4, ErrorsMove

LEMMA ReplaceRowsErrors ==
  ASSUME ErrorsInv, RunInv', NEW w \in Workers, ReplaceRows(w)
  PROVE  ErrorsInv'
<1>1. /\ run[w].pc = "replacing" /\ run[w] \in RunState /\ ErrorsFit(run[w])
      /\ run[w].row.retry = FALSE
  BY RunTypes DEF ErrorsInv, RunInv, CreationInv, ReplaceRows, ErrorsFit
<1>2. PICK offers \in Responses :
        SetRun(w, [run[w] EXCEPT !.pc = "finishing", !.inserted = NewRows(run[w].job, offers)])
  BY DEF ReplaceRows
<1> DEFINE rows == NewRows(run[w].job, offers)
           r    == [run[w] EXCEPT !.pc = "finishing", !.inserted = rows]
<1>3. SetRun(w, r)
  BY <1>2
<1>4. run'[w] \in RunState /\ run'[w] = r
  BY <1>3, RunTypes DEF ErrorsInv, RunInv, CreationInv, TypeInv, TypeOK, SetRun
<1> HIDE DEF rows
<1>5. /\ r \in RunState /\ r.pc = "finishing" /\ r.row = run[w].row /\ r.dirty = run[w].dirty
      /\ r.job = run[w].job /\ r.since = run[w].since
  BY <1>1, <1>4 DEF RunState
<1> HIDE DEF r
<1>6. ErrorsFit(r)
  BY <1>1, <1>5, ErrorsFitMoves DEF Blind
<1> QED BY <1>3, <1>6, ErrorsMove

LEMMA FinishRunErrors ==
  ASSUME ErrorsInv, RunInv', NEW w \in Workers, FinishRun(w)
  PROVE  ErrorsInv'
<1> DEFINE mine == {x \in View(w) : x.job = run[w].job}
           o    == jobs[run[w].job].order
           new  == [run[w].row EXCEPT !.status = Verdict(mine), !.attempts = @ + 1]
           ev   == IF o \in CompletedOrders /\ Eligible(mine) # {}
                   THEN {BestEvent(o, run[w].job, Eligible(mine))} ELSE {}
           f    == Flushed(w, new)
           r    == [f EXCEPT !.pc = "flushed", !.entry = "success", !.event = ev]
<1>1. /\ TypeInv /\ run[w].pc = "finishing" /\ run[w] \in RunState /\ run[w].row \in Progress
      /\ ErrorsFit(run[w]) /\ run[w].row.retry = FALSE /\ run[w].row.attempts \in Nat
  BY RunTypes DEF ErrorsInv, RunInv, CreationInv, FinishRun, ErrorsFit
<1>2. SetRun(w, r)
  BY DEF FinishRun
<1>3. run'[w] = r /\ run'[w] \in RunState
  BY <1>2, RunTypes DEF ErrorsInv, RunInv, CreationInv, TypeInv, TypeOK, SetRun
<1>4. new \in Progress /\ new.retry = FALSE
  <2> DEFINE s == Verdict(mine)
             n == run[w].row.attempts + 1
             p == run[w].row
  <2>1. s \in Status /\ n \in Nat /\ p \in Progress /\ p.retry = FALSE
        /\ new = [p EXCEPT !.status = s, !.attempts = n]
    BY <1>1 DEF Verdict, Status, Progress
  <2> HIDE DEF mine, new, s, n, p
  <2>2. LET q == [p EXCEPT !.status = s, !.attempts = n] IN
        q \in Progress /\ q.retry = p.retry
    BY ZenonT(30), <2>1 DEF Progress
  <2>3. new \in Progress /\ new.retry = p.retry
    BY Zenon, <2>1, <2>2
  <2> QED BY <2>1, <2>3
<1> HIDE DEF new, ev
<1>5. /\ f \in RunState /\ f.row = new /\ f.job = run[w].job /\ f.since = run[w].since
      /\ run[w].dirty \subseteq f.dirty
  BY <1>1, <1>4, FlushedErrors
<1> HIDE DEF f
<1>6. /\ r \in RunState /\ r.pc = "flushed" /\ r.row = new /\ r.dirty = f.dirty /\ r.job = f.job
      /\ r.since = f.since /\ r.entry = "success"
  BY <1>3, <1>5 DEF RunState
<1> HIDE DEF r
<1>7. ErrorsFit(r)
  BY <1>1, <1>4, <1>5, <1>6, ErrorsFitMoves DEF Blind
<1> QED BY <1>2, <1>7, ErrorsMove

LEMMA AbortRunErrors ==
  ASSUME ErrorsInv, RunInv', NEW w \in Workers, AbortRun(w)
  PROVE  ErrorsInv'
<1>1. ErrorsFit(NoRun)
  BY DEF ErrorsFit, NoRun
<1> QED BY <1>1, ErrorsMove DEF AbortRun

\* A new job has no error and no runs, and nothing of the other jobs changes.
LEMMA CommitJobErrors ==
  ASSUME ErrorsInv, RunInv', NEW c \in Clients, CommitJob(c)
  PROVE  ErrorsInv'
<1>a. PICK id : id = request[c].id
  OBVIOUS
<1>1. id \notin DOMAIN jobs /\ TypeInv
  BY <1>a DEF ErrorsInv, RunInv, CreationInv, KeyInv, CommitJob
<1>2. /\ DOMAIN jobs' = DOMAIN jobs \cup {id}
      /\ \A j \in DOMAIN jobs : jobs'[j] = jobs[j] /\ attemptLog'[j] = attemptLog[j]
      /\ jobs'[id].progress.retry = FALSE /\ attemptLog'[id] = <<>>
      /\ run' = run
  BY <1>a, <1>1 DEF CommitJob, Fresh
<1>3. ErrorsAreRecent'
  BY <1>2 DEF ErrorsInv, ErrorsAreRecent, LastEntry
<1>4. ASSUME NEW w \in Workers PROVE ErrorsFit(run[w])'
  <2>1. ErrorsFit(run[w]) /\ (run[w].pc # "idle" => run[w].job \in DOMAIN jobs)
    BY <1>1, RunTypes DEF ErrorsInv
  <2> QED BY <1>2, <2>1 DEF ErrorsFit, Recent, Blind
<1> QED BY <1>3, <1>4 DEF ErrorsInv

\* The commit of a failure sets the errors and is itself the recent failure; that
\* of a success clears them, unless all it could clear came after it had loaded.
LEMMA CommitRunErrors ==
  ASSUME ErrorsInv, RunInv', NEW w \in Workers, CommitRun(w)
  PROVE  ErrorsInv'
<1>a. PICK r, j, n : r = run[w] /\ j = run[w].job /\ n = Len(attemptLog[j]) + 1
  OBVIOUS
<1>1. /\ r.pc = "flushed" /\ j \in DOMAIN jobs /\ n \in Nat \ {0}
      /\ r.entry \in {"success", "retryable_failure"}
      /\ DOMAIN jobs' = DOMAIN jobs
      /\ \A k \in DOMAIN jobs : k # j => jobs'[k] = jobs[k] /\ attemptLog'[k] = attemptLog[k]
      /\ jobs'[j].progress.retry =
           IF "retry" \in r.dirty THEN r.row.retry ELSE jobs[j].progress.retry
      /\ DOMAIN attemptLog[j] = 1..(n - 1) /\ DOMAIN attemptLog'[j] = 1..n
      /\ Len(attemptLog'[j]) = n
      /\ \A i \in 1..(n - 1) : attemptLog'[j][i] = attemptLog[j][i]
      /\ attemptLog'[j][n] = [status |-> r.entry, offers |-> r.inserted, since |-> r.since]
      /\ run'[w] = NoRun /\ (\A v \in Workers \ {w} : run'[v] = run[v])
  BY <1>a, CommitWrites DEF ErrorsInv
<1>2. attemptLog'[j][n].status = r.entry /\ attemptLog'[j][n].since = r.since
  BY <1>1
<1>3. ErrorsFit(r) /\ r.job = j /\ r.since \in Nat /\ TypeInv
  BY <1>a, RunTypes DEF ErrorsInv, RunInv, CreationInv
\* The same failure serves the job and every session that has missed it.
<1>4. ASSUME NEW s \in Nat, s < n,
             jobs'[j].progress.retry,
             r.entry = "success" => \E i \in DOMAIN attemptLog[j] : Recent(j, i) /\ s < i
      PROVE  \E i \in DOMAIN attemptLog'[j] : Recent(j, i)' /\ s < i
  <2>1. CASE r.entry = "retryable_failure"
    <3>1. Recent(j, n)' /\ n \in DOMAIN attemptLog'[j]
      BY <1>1, <1>2, <2>1 DEF Recent
    <3> QED BY <1>4, <3>1
  <2>2. CASE r.entry = "success"
    <3>1. Blind(r) /\ jobs[j].progress.retry
      BY <1>1, <1>3, <1>4, <2>2 DEF ErrorsFit, Blind
    <3>2. PICK a \in DOMAIN attemptLog[j] : Recent(j, a) /\ r.since < a
      BY <1>1, <1>3, <3>1 DEF ErrorsFit
    <3>3. PICK b \in DOMAIN attemptLog[j] : Recent(j, b) /\ s < b
      BY <1>4, <2>2
    <3>4. PICK i \in DOMAIN attemptLog[j] : Recent(j, i) /\ r.since < i /\ s < i
      <4>1. a \in Nat /\ b \in Nat
        BY <1>1
      <4>2. CASE a < b
        BY <1>3, <3>2, <3>3, <4>1, <4>2
      <4>3. CASE b <= a
        BY <1>4, <3>2, <3>3, <4>1, <4>3
      <4> QED BY <4>1, <4>2, <4>3
    <3>5. i \in 1..(n - 1) /\ attemptLog'[j][i] = attemptLog[j][i] /\ i \in 1..n
      BY <1>1
    <3>6. ASSUME NEW k \in 1..n, k > i
          PROVE  attemptLog'[j][k].since < i
      <4>1. CASE k = n
        BY <1>2, <3>4, <4>1
      <4>2. CASE k # n
        <5>1. k \in 1..(n - 1) /\ attemptLog'[j][k] = attemptLog[j][k]
          BY <1>1, <4>2
        <5> QED BY <1>1, <3>4, <3>6, <5>1 DEF Recent
      <4> QED BY <4>1, <4>2
    <3>7. i \in DOMAIN attemptLog'[j] /\ Recent(j, i)'
      BY <1>1, <3>4, <3>5, <3>6 DEF Recent
    <3> QED BY <3>4, <3>7
  <2> QED BY <1>1, <2>1, <2>2
<1>5. ASSUME NEW k \in DOMAIN jobs, k # j
      PROVE  \A i : Recent(k, i)' <=> Recent(k, i)
  BY <1>1, <1>5 DEF Recent
<1>6. jobs'[j].progress.retry => \E i \in DOMAIN attemptLog'[j] : Recent(j, i)'
  <2> SUFFICES ASSUME jobs'[j].progress.retry
               PROVE  \E i \in DOMAIN attemptLog'[j] : Recent(j, i)'
    OBVIOUS
  <2>1. r.entry = "success" => \E i \in DOMAIN attemptLog[j] : Recent(j, i) /\ 0 < i
    <3> SUFFICES ASSUME r.entry = "success"
                 PROVE  \E i \in DOMAIN attemptLog[j] : Recent(j, i) /\ 0 < i
      OBVIOUS
    <3>1. Blind(r) /\ jobs[j].progress.retry
      BY <1>1, <1>3 DEF ErrorsFit, Blind
    <3>2. PICK a \in DOMAIN attemptLog[j] : Recent(j, a)
      BY <1>1, <1>3, <3>1 DEF ErrorsFit
    <3> QED BY <1>1, <3>2
  <2> QED BY <1>1, <1>4, <2>1
<1>7. ErrorsAreRecent'
  <2>1. LastEntry(j)'.status = r.entry
    BY <1>1, <1>2 DEF LastEntry
  <2>2. r.entry = "retryable_failure" => jobs'[j].progress.retry
    BY <1>1, <1>3 DEF ErrorsFit
  <2>3. ASSUME NEW k \in DOMAIN jobs
        PROVE  /\ attemptLog'[k] # <<>> /\ LastEntry(k)'.status = "retryable_failure" =>
                    jobs'[k].progress.retry
               /\ jobs'[k].progress.retry => \E i \in DOMAIN attemptLog'[k] : Recent(k, i)'
    <3>1. CASE k = j
      BY <1>6, <2>1, <2>2, <3>1
    <3>2. CASE k # j
      <4>1. LastEntry(k)' = LastEntry(k) /\ jobs'[k] = jobs[k] /\ attemptLog'[k] = attemptLog[k]
        BY <1>1, <3>2 DEF LastEntry
      <4> QED BY <1>5, <3>2, <4>1 DEF ErrorsInv, ErrorsAreRecent, Recent
    <3> QED BY <3>1, <3>2
  <2> QED BY <1>1, <2>3 DEF ErrorsAreRecent, Recent
<1>8. ASSUME NEW v \in Workers PROVE ErrorsFit(run[v])'
  <2>1. CASE v = w
    BY <1>1, <2>1 DEF ErrorsFit, NoRun
  <2>2. CASE v # w
    <3>a. PICK q, k : q = run[v] /\ k = run[v].job
      OBVIOUS
    <3>1. run'[v] = q /\ ErrorsFit(q) /\ q.since \in Nat /\ q.job = k
          /\ (q.pc # "idle" => k \in DOMAIN jobs)
      BY <1>1, <1>3, <2>2, <3>a, RunTypes DEF ErrorsInv
    <3>2. CASE q.pc = "idle"
      BY <3>1, <3>2 DEF ErrorsFit
    <3>3. CASE q.pc # "idle" /\ k # j
      BY <1>1, <1>5, <3>1, <3>3 DEF ErrorsFit, Blind
    <3>4. CASE q.pc # "idle" /\ k = j
      <4>1. q.since <= n - 1 /\ q.since <= Len(attemptLog'[k]) /\ q.since < n
        BY <1>a, <1>1, <3>1, <3>4 DEF ErrorsFit
      <4>2. ASSUME Blind(q), jobs'[k].progress.retry
            PROVE  \E i \in DOMAIN attemptLog'[k] : Recent(k, i)' /\ q.since < i
        <5>1. r.entry = "success" => \E i \in DOMAIN attemptLog[j] : Recent(j, i) /\ q.since < i
          <6>1. r.entry = "success" => jobs[j].progress.retry
            BY <1>1, <1>3, <3>4, <4>2 DEF ErrorsFit
          <6> QED BY <3>1, <3>4, <4>2, <6>1 DEF ErrorsFit
        <5> QED BY <1>4, <3>1, <3>4, <4>1, <4>2, <5>1
      <4>3. Blind(q)' <=> Blind(q)
        BY <3>1 DEF Blind
      <4> QED BY <3>1, <3>4, <4>1, <4>2, <4>3 DEF ErrorsFit
    <3> QED BY <3>2, <3>3, <3>4
  <2> QED BY <2>1, <2>2
<1> QED BY <1>7, <1>8 DEF ErrorsInv

LEMMA StepErrorsInv ==
  ASSUME ErrorsInv, [Next]_vars
  PROVE  ErrorsInv'
<1>1. RunInv'
  BY StepRunInv DEF ErrorsInv
<1>2. ASSUME UNCHANGED <<jobs, attemptLog, run>> PROVE ErrorsInv'
  BY <1>1, <1>2 DEF ErrorsInv, ErrorsAreRecent, LastEntry, ErrorsFit, Recent, Blind
<1>3. CASE UNCHANGED vars
  BY <1>2, <1>3 DEF vars
<1>4. ASSUME NEW c \in Clients, ClientStep(c) \/ AbortRequest(c)
      PROVE  ErrorsInv'
  <2>1. CASE CommitJob(c)
    BY <1>1, <2>1, CommitJobErrors
  <2>2. CASE ~CommitJob(c)
    BY <1>2, <1>4, <2>2 DEF ClientStep, OrderMissing, LookUpJob, InsertJob, InsertConflicts,
                            RecoverJob, AnswerFound, AbortRequest, RequestStep
  <2> QED BY <2>1, <2>2
<1>5. ASSUME NEW w \in Workers,
             WorkerStep(w) \/ AbortRun(w) \/ \E j \in DOMAIN jobs : LoadJob(w, j)
      PROVE  ErrorsInv'
  BY <1>1, <1>5, MarkRunningErrors, SearchFailsErrors, SelectExistingErrors, ReplaceRowsErrors,
     FinishRunErrors, CommitRunErrors, AbortRunErrors, LoadJobErrors DEF WorkerStep
<1> QED BY <1>3, <1>4, <1>5 DEF Next

LEMMA ErrorsInvariant == Spec => []ErrorsInv
<1>1. Init => ErrorsInv
  BY InitRunInv DEF Init, ErrorsInv, ErrorsAreRecent, ErrorsFit, NoRun
<1>2. ErrorsInv /\ [Next]_vars => ErrorsInv'
  BY StepErrorsInv
<1> QED BY <1>1, <1>2, PTL DEF Spec

\* The errors of a job are those of its last run or of a failure that every success
\* logged after it had overlapped, for any number of workers and of runs.
THEOREM ErrorsOfRecentFailures == Spec => []ErrorsAreRecent
BY ErrorsInvariant, PTL DEF ErrorsInv
-----------------------------------------------------------------------------
(* The ledger *)

\* A job as the ledger has it.
Posted == [j \in DOMAIN jobs |-> [order  |-> jobs[j].order, key |-> jobs[j].key,
                                  status |-> jobs[j].progress.status]]

LEMMA InitLedger == Init => Ledger!Init
BY DEF Init, Ledger!Init

\* The commit of a create_job call creates the job.
LEMMA CommitJobCreates ==
  ASSUME RunInv, NEW c \in Clients, CommitJob(c)
  PROVE  Ledger!Next
<1>a. PICK id : id = request[c].id
  OBVIOUS
<1>1. id \notin DOMAIN jobs /\ JobsWithKey(request[c].q.key) = {}
  BY <1>a DEF RunInv, CreationInv, KeyInv, CommitJob
<1>2. /\ DOMAIN jobs' = DOMAIN jobs \cup {id}
      /\ DOMAIN attemptLog' = DOMAIN jobs \cup {id}
      /\ \A j \in DOMAIN jobs : jobs'[j] = jobs[j] /\ attemptLog'[j] = attemptLog[j]
      /\ jobs'[id].progress = Fresh /\ jobs'[id].key = request[c].q.key /\ attemptLog'[id] = <<>>
      /\ UNCHANGED <<results, events>>
  BY <1>a, <1>1 DEF CommitJob
<1>3. \A j \in DOMAIN jobs : jobs'[j].key # jobs'[id].key
  BY <1>1, <1>2 DEF JobsWithKey
<1>4. /\ DOMAIN Posted = DOMAIN jobs /\ DOMAIN Posted' = DOMAIN jobs'
      /\ \A j \in DOMAIN jobs : Posted'[j] = Posted[j] /\ Posted'[j].key # Posted'[id].key
      /\ Posted'[id].status = "pending"
  BY <1>2, <1>3 DEF Posted, Fresh
<1>5. Ledger!CreateJob(id)
  BY <1>1, <1>2, <1>4 DEF Ledger!CreateJob, Posted
<1>6. id \in DOMAIN Posted'
  BY <1>2, <1>4
<1> QED BY <1>5, <1>6 DEF Ledger!Next, Posted

\* The commit of a run logs it, and replaces its job's offers if it succeeded.
LEMMA CommitRunPosts ==
  ASSUME ErrorsInv, NEW w \in Workers, CommitRun(w)
  PROVE  Ledger!Next
<1>0. RunInv
  BY DEF ErrorsInv
<1>a. PICK r, j, n : r = run[w] /\ j = run[w].job /\ n = Len(attemptLog[j]) + 1
  OBVIOUS
<1>b. r.since \in 0..Len(attemptLog[j])
  <2>1. ErrorsFit(r) /\ r.pc = "flushed" /\ r.since \in Nat /\ r.job = j
        /\ Len(attemptLog[j]) \in Nat
    BY <1>0, <1>a, RunTypes DEF ErrorsInv, RunInv, CreationInv, CommitRun
  <2> QED BY <2>1 DEF ErrorsFit
<1>1. /\ TypeInv /\ SessionFits(r) /\ r.pc = "flushed" /\ j \in DOMAIN jobs
      /\ r.entry \in {"success", "retryable_failure"}
      /\ DOMAIN jobs' = DOMAIN jobs
      /\ \A k \in DOMAIN jobs : jobs'[k].order = jobs[k].order /\ jobs'[k].key = jobs[k].key
      /\ \A k \in DOMAIN jobs : k # j => jobs'[k] = jobs[k]
      /\ jobs'[j].progress.status = r.row.status
      /\ results' = (results \ r.existing) \cup r.inserted
      /\ events' = events \cup r.event
  BY <1>0, <1>a, CommitWrites
<1>2. attemptLog' = [attemptLog EXCEPT ![j] =
                       Append(@, [status |-> r.entry, offers |-> r.inserted, since |-> r.since])]
  BY <1>a DEF CommitRun
<1>3. /\ Posted' = [Posted EXCEPT ![j].status = r.row.status]
      /\ DOMAIN Posted = DOMAIN jobs /\ Posted[j].order = jobs[j].order
  <2>1. /\ DOMAIN Posted = DOMAIN jobs /\ DOMAIN Posted' = DOMAIN jobs
        /\ \A k \in DOMAIN jobs :
             /\ Posted[k] = [order |-> jobs[k].order, key |-> jobs[k].key,
                             status |-> jobs[k].progress.status]
             /\ Posted'[k] = [order |-> jobs[k].order, key |-> jobs[k].key,
                              status |-> jobs'[k].progress.status]
        /\ Posted' = [k \in DOMAIN jobs |-> Posted'[k]]
    BY <1>1 DEF Posted
  <2>2. \A k \in DOMAIN jobs : k # j => Posted'[k] = Posted[k]
    BY <1>1, <2>1
  <2>3. Posted'[j] = [Posted[j] EXCEPT !.status = r.row.status]
    BY <1>1, <2>1
  <2>4. Posted[j].order = jobs[j].order
    BY <1>1, <2>1
  <2> DEFINE old == Posted
             new == Posted'
  <2> HIDE DEF old, new
  <2>5. DOMAIN old = DOMAIN jobs /\ new = [k \in DOMAIN jobs |-> new[k]]
    BY <2>1 DEF old, new
  <2>6. new = [old EXCEPT ![j] = [old[j] EXCEPT !.status = r.row.status]]
    BY <1>1, <2>2, <2>3, <2>5 DEF old, new
  <2> QED BY <2>1, <2>4, <2>6 DEF old, new
<1>4. CASE r.entry = "retryable_failure"
  <2>1. r.inserted = {} /\ r.existing = {} /\ r.event = {} /\ r.row.status = "pending"
    BY <1>1, <1>4 DEF SessionFits
  <2>2. Ledger!FailRun(j)
    BY <1>1, <1>b, <1>2, <1>3, <1>4, <2>1 DEF Ledger!FailRun, Ledger!LogRun, Posted
  <2> QED BY <1>1, <1>3, <2>2 DEF Ledger!Next, Posted
<1>5. CASE r.entry = "success"
  <2>1. /\ RowsOf(j) \subseteq r.existing
        /\ \A x \in r.existing : /\ x.order = jobs[j].order /\ Logged(x)
                                 /\ x \in results => RowsOf(x.job) \subseteq r.existing
        /\ \A x \in r.inserted : x.job = j /\ x.order = jobs[j].order
        /\ r.row.status = Verdict(r.inserted) /\ r.event = Notice(j, r.inserted)
    BY <1>a, <1>1, <1>5 DEF SessionFits
  <2>2. \A k \in DOMAIN jobs : \A i \in DOMAIN attemptLog[k] :
          \A s \in attemptLog[k][i].offers : \A x \in r.inserted : s.id # x.id
    BY <1>0, <1>a DEF RunInv, IdsApart
  <2>3. \A x \in r.inserted : ~Logged(x)
    BY <2>2 DEF Logged
  <2>4. results' \ results = r.inserted /\ results \ results' = results \cap r.existing
    BY <1>0, <1>1, <2>1, <2>3 DEF RunInv, RowsLogged
  <2>5. /\ RowsOf(j) \subseteq results \ results'
        /\ \A x \in results \ results' :
             x.order = jobs[j].order /\ RowsOf(x.job) \subseteq results \ results'
    BY <2>1, <2>4 DEF RowsOf
  <2> DEFINE good == Eligible(r.inserted)
  <2>6. r.row.status = IF good = {} THEN "partial_failed" ELSE "succeeded"
    BY <2>1 DEF Verdict
  <2>7. IF good = {} \/ jobs[j].order \notin CompletedOrders
        THEN UNCHANGED events
        ELSE \E best \in good :
               /\ \A x \in good : best.price <= x.price
               /\ events' = events \cup {[order |-> jobs[j].order, job |-> j,
                                          result |-> best.id, price |-> best.price]}
    <3>1. good \subseteq Row
      BY <1>a, <1>1, RunTypes DEF Eligible
    <3>2. CASE good = {} \/ jobs[j].order \notin CompletedOrders
      BY <1>1, <2>1, <3>2 DEF Notice
    <3>3. CASE good # {} /\ jobs[j].order \in CompletedOrders
      <4> HIDE DEF good
      <4>1. Best(good) \in good /\ \A x \in good : Best(good).price <= x.price
        BY <3>1, <3>3, BestIsCheapest
      <4>2. r.event = {[order |-> jobs[j].order, job |-> j,
                        result |-> Best(good).id, price |-> Best(good).price]}
        BY <2>1, <3>3 DEF good, Notice, BestEvent
      <4> QED BY <1>1, <3>3, <4>1, <4>2
    <3> QED BY <3>2, <3>3
  <2>8. good = {x \in results' \ results : x.eligible}
    BY <2>4 DEF Eligible
  <2> HIDE DEF good
  <2>9. Ledger!LogRun(j, "success", IF good = {} THEN "partial_failed" ELSE "succeeded",
                      results' \ results)
    BY <1>b, <1>2, <1>3, <1>5, <2>4, <2>6 DEF Ledger!LogRun, Posted
  <2>10. \A x \in results' \ results :
           /\ x.job = j /\ x.order = jobs[j].order
           /\ \A k \in DOMAIN jobs : \A i \in DOMAIN attemptLog[k] :
                \A s \in attemptLog[k][i].offers : s.id # x.id
    BY <2>1, <2>2, <2>4
  <2>11. Posted[j].order = jobs[j].order /\ DOMAIN Posted = DOMAIN jobs
    BY <1>3
  <2>12. Ledger!SucceedRun(j)
    BY <2>5, <2>7, <2>8, <2>9, <2>10, <2>11
    DEF Ledger!SucceedRun, Ledger!RowsOf, RowsOf, Posted
  <2> QED BY <1>1, <1>3, <2>12 DEF Ledger!Next, Posted
<1> QED BY <1>1, <1>4, <1>5

\* A step of a session that commits nothing.
LEMMA LedgerQuiet ==
  ASSUME UNCHANGED <<jobs, attemptLog, results, events>>
  PROVE  UNCHANGED Ledger!ledger
BY DEF Ledger!ledger

LEMMA StepLedger ==
  ASSUME ErrorsInv, [Next]_vars
  PROVE  [Ledger!Next]_(Ledger!ledger)
<1>1. CASE UNCHANGED vars
  BY <1>1, LedgerQuiet DEF vars
<1>2. ASSUME NEW c \in Clients, ClientStep(c) \/ AbortRequest(c)
      PROVE  [Ledger!Next]_(Ledger!ledger)
  <2>1. CASE CommitJob(c)
    BY <2>1, CommitJobCreates DEF ErrorsInv
  <2>2. CASE ~CommitJob(c)
    <3>1. UNCHANGED <<jobs, attemptLog, results, events>>
      BY <1>2, <2>2 DEF ClientStep, OrderMissing, LookUpJob, InsertJob, InsertConflicts,
                        RecoverJob, AnswerFound, AbortRequest, RequestStep
    <3> QED BY <3>1, LedgerQuiet
  <2> QED BY <2>1, <2>2
<1>3. ASSUME NEW w \in Workers,
             WorkerStep(w) \/ AbortRun(w) \/ \E j \in DOMAIN jobs : LoadJob(w, j)
      PROVE  [Ledger!Next]_(Ledger!ledger)
  <2>1. CASE CommitRun(w)
    BY <2>1, CommitRunPosts
  <2>2. CASE ~CommitRun(w)
    <3>1. UNCHANGED <<jobs, attemptLog, results, events>>
      BY <1>3, <2>2 DEF WorkerStep, MarkRunning, SearchFails, SelectExisting, ReplaceRows,
                        FinishRun, AbortRun, LoadJob, SetRun
    <3> QED BY <3>1, LedgerQuiet
  <2> QED BY <2>1, <2>2
<1> QED BY <1>1, <1>2, <1>3 DEF Next

\* Price collection implements its ledger: whatever the sessions interleave,
\* the tables move by whole jobs created and whole runs failed or succeeded.
THEOREM LedgerImplemented == Spec => ImplementsLedger
BY InitLedger, StepLedger, ErrorsInvariant, PTL DEF Spec, ImplementsLedger, Ledger!Spec
-----------------------------------------------------------------------------
(* Runs one after another *)

\* With one worker nothing is added to an order's rows between the selection of
\* what is to be replaced and the commit, so the selection stays complete.
SelectsAll(w) ==
  run[w].pc \in {"replacing", "finishing"} \/ (run[w].pc = "flushed" /\ run[w].entry = "success") =>
    \A x \in results : x.order = jobs[run[w].job].order => x \in run[w].existing

SerialInv == RunInv /\ OneJobPerOrderRows /\ \A w \in Workers : SelectsAll(w)

LEMMA StepSerial ==
  ASSUME \A v, w \in Workers : v = w, SerialInv, [Next]_vars
  PROVE  SerialInv'
<1>1. RunInv /\ RunInv' /\ TypeInv
  BY StepRunInv DEF SerialInv, RunInv, CreationInv
<1>2. ASSUME UNCHANGED <<results, run>>,
             \A w \in Workers : run[w].pc # "idle" => jobs'[run[w].job].order = jobs[run[w].job].order
      PROVE  SerialInv'
  BY <1>1, <1>2 DEF SerialInv, OneJobPerOrderRows, SelectsAll
<1>3. CASE UNCHANGED vars
  BY <1>2, <1>3 DEF vars
<1>4. ASSUME NEW c \in Clients, ClientStep(c) \/ AbortRequest(c)
      PROVE  SerialInv'
  <2>1. CASE CommitJob(c)
    <3>1. request[c].id \notin DOMAIN jobs
      BY <1>1, <2>1 DEF RunInv, CreationInv, KeyInv, CommitJob
    <3>2. \A w \in Workers : run[w].pc # "idle" => run[w].job \in DOMAIN jobs
      BY <1>1, RunTypes
    <3> QED BY <1>2, <2>1, <3>1, <3>2 DEF CommitJob
  <2>2. CASE ~CommitJob(c)
    BY <1>2, <1>4, <2>2 DEF ClientStep, OrderMissing, LookUpJob, InsertJob, InsertConflicts,
                            RecoverJob, AnswerFound, AbortRequest, RequestStep
  <2> QED BY <2>1, <2>2
<1>5. ASSUME NEW w \in Workers,
             WorkerStep(w) \/ AbortRun(w) \/ \E j \in DOMAIN jobs : LoadJob(w, j)
      PROVE  SerialInv'
  <2>1. /\ run[w] \in RunState
        /\ \A r : run' = [run EXCEPT ![w] = r] => run'[w] = r
        /\ \A v \in Workers : v = w
    BY <1>1, RunTypes DEF TypeInv, TypeOK
  <2>2. ASSUME UNCHANGED <<results, jobs>>,
               \/ run'[w].pc \in {"idle", "loaded", "searching"}
               \/ run'[w].pc = "flushed" /\ run'[w].entry = "retryable_failure"
               \/ \A x \in results : x.order = jobs[run'[w].job].order => x \in run'[w].existing
        PROVE  SerialInv'
    BY <1>1, <2>1, <2>2 DEF SerialInv, OneJobPerOrderRows, SelectsAll
  <2>3. CASE AbortRun(w) \/ \E j \in DOMAIN jobs : LoadJob(w, j)
    <3>1. UNCHANGED <<results, jobs>> /\ run'[w].pc \in {"idle", "loaded"}
      <4>1. CASE AbortRun(w)
        BY <2>1, <4>1 DEF AbortRun, SetRun, NoRun
      <4>2. ASSUME NEW j \in DOMAIN jobs, LoadJob(w, j)
            PROVE  UNCHANGED <<results, jobs>> /\ run'[w].pc = "loaded"
        BY <2>1, <4>2 DEF LoadJob, SetRun, NoRun
      <4> QED BY <2>3, <4>1, <4>2
    <3> QED BY <2>2, <3>1
  <2>4. CASE MarkRunning(w)
    BY <2>1, <2>2, <2>4 DEF MarkRunning, SetRun, Flushed, RunState
  <2>5. CASE SearchFails(w)
    BY <2>1, <2>2, <2>5 DEF SearchFails, SetRun, Flushed, RunState
  <2>6. CASE SelectExisting(w)
    <3>1. /\ run'[w].job = run[w].job /\ UNCHANGED <<results, jobs>>
          /\ run'[w].existing = {x \in results : x.order = jobs[run[w].job].order}
      <4> DEFINE old == {x \in results : x.order = jobs[run[w].job].order}
      <4>1. run' = [run EXCEPT ![w] = [run[w] EXCEPT !.pc = "replacing", !.existing = old]]
            /\ UNCHANGED <<results, jobs>>
        BY <2>6 DEF SelectExisting, SetRun
      <4> HIDE DEF old
      <4>2. run'[w] = [run[w] EXCEPT !.pc = "replacing", !.existing = old]
        BY <2>1, <4>1
      <4>3. run'[w].job = run[w].job /\ run'[w].existing = old
        BY <2>1, <4>2 DEF RunState
      <4> QED BY <4>1, <4>3 DEF old
    <3> QED BY <2>2, <3>1
  <2>7. CASE ReplaceRows(w)
    <3>1. /\ run'[w].job = run[w].job /\ run'[w].existing = run[w].existing
          /\ UNCHANGED <<results, jobs>> /\ run[w].pc = "replacing"
      BY <2>1, <2>7 DEF ReplaceRows, SetRun, RunState
    <3> QED BY <2>2, <3>1 DEF SerialInv, SelectsAll
  <2>8. CASE FinishRun(w)
    <3>1. /\ run'[w].job = run[w].job /\ run'[w].existing = run[w].existing
          /\ UNCHANGED <<results, jobs>> /\ run[w].pc = "finishing"
      <4> DEFINE mine == {x \in View(w) : x.job = run[w].job}
                 o    == jobs[run[w].job].order
                 new  == [run[w].row EXCEPT !.status = Verdict(mine), !.attempts = @ + 1]
                 ev   == IF o \in CompletedOrders /\ Eligible(mine) # {}
                         THEN {BestEvent(o, run[w].job, Eligible(mine))} ELSE {}
      <4>1. /\ run' = [run EXCEPT ![w] = [Flushed(w, new) EXCEPT !.pc = "flushed",
                                          !.entry = "success", !.event = ev]]
            /\ UNCHANGED <<results, jobs>> /\ run[w].pc = "finishing"
        BY <2>8 DEF FinishRun, SetRun
      <4> HIDE DEF new, ev
      <4> DEFINE d == run[w].dirty \cup Changed(run[w].row, new)
      <4>2. Flushed(w, new) = [run[w] EXCEPT !.row = new, !.dirty = d]
        BY <2>1 DEF Flushed, RunState
      <4> HIDE DEF d
      <4>3. LET f == [run[w] EXCEPT !.row = new, !.dirty = d]
                q == [f EXCEPT !.pc = "flushed", !.entry = "success", !.event = ev] IN
            q.job = run[w].job /\ q.existing = run[w].existing
        BY <2>1 DEF RunState
      <4> QED BY <2>1, <4>1, <4>2, <4>3
    <3> QED BY <2>2, <3>1 DEF SerialInv, SelectsAll
  <2>9. CASE CommitRun(w)
    <3>a. PICK r : r = run[w]
      OBVIOUS
    <3>1. /\ SessionFits(r) /\ r.pc = "flushed" /\ r.entry \in {"success", "retryable_failure"}
          /\ results' = (results \ r.existing) \cup r.inserted
          /\ run'[w] = NoRun
      BY <1>1, <2>9, <3>a, CommitWrites
    <3>2. OneJobPerOrderRows'
      <4>1. CASE r.entry = "retryable_failure"
        BY <3>1, <4>1 DEF SessionFits, SerialInv, OneJobPerOrderRows
      <4>2. CASE r.entry = "success"
        <5>1. \A x \in results \ r.existing : x.order # jobs[r.job].order
          BY <3>a, <3>1, <4>2 DEF SerialInv, SelectsAll
        <5>2. \A x \in r.inserted : x.order = jobs[r.job].order /\ x.job = r.job
          BY <3>1 DEF SessionFits
        <5> QED BY <3>1, <5>1, <5>2 DEF SerialInv, OneJobPerOrderRows
      <4> QED BY <3>1, <4>1, <4>2
    <3>3. \A v \in Workers : SelectsAll(v)'
      BY <2>1, <3>1 DEF SelectsAll, NoRun
    <3> QED BY <1>1, <3>2, <3>3 DEF SerialInv
  <2> QED BY <1>5, <2>3, <2>4, <2>5, <2>6, <2>7, <2>8, <2>9 DEF WorkerStep
<1> QED BY <1>3, <1>4, <1>5 DEF Next

\* When at most one run is in progress at a time, the rows of an order are those
\* of one job.  Without that hypothesis a run misses the rows that an overlapping
\* run of another job of the order has inserted and not committed.
THEOREM OneJobPerOrderWhenSerial ==
  ASSUME \A v, w \in Workers : v = w
  PROVE  Spec => []OneJobPerOrderRows
<1>1. Init => SerialInv
  <2> SUFFICES ASSUME Init PROVE SerialInv
    OBVIOUS
  <2>1. results = {} /\ \A w \in Workers : run[w].pc = "idle"
    BY DEF Init, NoRun
  <2> QED BY <2>1, InitRunInv DEF SerialInv, OneJobPerOrderRows, SelectsAll
<1>2. SerialInv /\ [Next]_vars => SerialInv'
  BY StepSerial
<1>3. SerialInv => OneJobPerOrderRows
  BY DEF SerialInv
<1> QED BY <1>1, <1>2, <1>3, PTL DEF Spec
=============================================================================
